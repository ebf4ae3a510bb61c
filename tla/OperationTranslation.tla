------------------------- MODULE OperationTranslation -------------------------
(***************************************************************************)
(* How the operations of a model are validated and translated to nGraph:   *)
(* NgraphNetworkCreator, OperationsBase and the operations, whose          *)
(* arguments are in OperationArguments.                                    *)
(*                                                                         *)
(* One thread does it: one action is the validate() of one operation, the  *)
(* input parameters, or connectOperationToGraph() of one operation.  Of a  *)
(* node the element type is kept, and what its numbers stand for: Real     *)
(* numbers, the integers of a scale, or Wrong ones.                        *)
(***************************************************************************)
EXTENDS OperationArguments

CONSTANTS
    Models,  \* the models that are prepared
    Scales,  \* the scales (with zero points) that operands have
    Real,    \* the numbers themselves
    Wrong,   \* neither the numbers nor integers that stand for them
    Null     \* no node

Unary ==
    {"ABS", "EXP", "FLOOR", "HARD_SWISH", "LOG", "LOGICAL_NOT", "LOGISTIC", "NEG", "RELU",
     "RELU1", "RELU6", "RSQRT", "SIN", "SQRT", "TANH"}
Comparisons == {"EQUAL", "GREATER", "GREATER_EQUAL", "LESS", "LESS_EQUAL", "NOT_EQUAL"}
Binary      == {"LOGICAL_AND", "LOGICAL_OR", "MAXIMUM", "MINIMUM", "POW", "PRELU"}
Arithmetic  == {"ADD", "DIV", "MUL", "SUB"}
Reductions  ==
    {"REDUCE_ALL", "REDUCE_ANY", "REDUCE_MAX", "REDUCE_MIN", "REDUCE_PROD", "REDUCE_SUM"}
Convolutions == {"CONV_2D", "DEPTHWISE_CONV_2D", "GROUPED_CONV_2D", "TRANSPOSE_CONV_2D"}
Pools        == {"AVERAGE_POOL_2D", "MAX_POOL_2D", "L2_POOL_2D"}
Resizes      == {"RESIZE_BILINEAR", "RESIZE_NEAREST_NEIGHBOR"}

\* The operations that look at a layout.
SpatialKinds ==
    Convolutions \cup Pools \cup Resizes \cup
    {"DEPTH_TO_SPACE", "SPACE_TO_DEPTH", "BATCH_TO_SPACE_ND", "SPACE_TO_BATCH_ND",
     "INSTANCE_NORMALIZATION", "ROI_ALIGN", "ROI_POOLING"}

Kinds ==
    Unary \cup Comparisons \cup Binary \cup Arithmetic \cup Reductions \cup SpatialKinds \cup
    {"ARGMAX", "ARGMIN", "CAST", "CHANNEL_SHUFFLE", "CONCATENATION", "DEQUANTIZE",
     "EMBEDDING_LOOKUP", "EXPAND_DIMS", "FULLY_CONNECTED", "GATHER", "L2_NORMALIZATION",
     "LOG_SOFTMAX", "MEAN", "PAD", "PAD_V2", "QUANTIZE", "RESHAPE", "RNN", "SELECT", "SOFTMAX",
     "SPLIT", "SQUEEZE", "STRIDED_SLICE", "TOPK_V2", "TRANSPOSE",
     "UNIDIRECTIONAL_SEQUENCE_RNN"}

\* nchw is the layout argument, FALSE without one; fits is whether what else
\* validate() compares is as it wants it.
OpType ==
    [ kind : Kinds, ins : Seq(Nat \ {0}), outs : Seq(Nat \ {0}),
      nchw : BOOLEAN, fits : BOOLEAN ]

VARIABLES
    model,   \* the model, in its NnapiModelInfo
    at,      \* where the preparing thread is: [pc, operation]
    nodes,   \* mOutputAtOperandIndex
    service  \* "up" until a fault or a failed assertion

vars == <<model, at, nodes, service>>

Operands   == DOMAIN model.operands
Ops        == DOMAIN model.ops
Operand(i) == model.operands[i]
Op(k)      == model.ops[k]

\* The arguments of an operation, and the operands at its positions from 0.
Arguments(k) == [p \in DOMAIN Op(k).ins |-> Operand(Op(k).ins[p])]
In(k, p)     == Op(k).ins[p + 1]

-----------------------------------------------------------------------------
(* OperationsFactory: which class an operation is.                          *)

Checks(k) ==
    LET a == Arguments(k)
        kind == Op(k).kind IN
    CASE kind = "CONV_2D"           -> Conv2dCheck(a)
      [] kind = "DEPTHWISE_CONV_2D" -> DepthwiseConv2dCheck(a)
      [] kind = "GROUPED_CONV_2D"   -> GroupedConv2dCheck(a)
      [] kind = "TRANSPOSE_CONV_2D" -> TransposeConv2DCheck(a)
      [] kind = "AVERAGE_POOL_2D"   -> AveragePool2DCheck(a)
      [] kind \in Resizes           -> ResizeCheck(a)
      [] kind = "ADD"               -> AddCheck(a)
      [] kind = "MEAN"              -> MeanCheck(a)
      [] kind = "SQUEEZE"           -> SqueezeCheck(a)
      [] kind = "TRANSPOSE"         -> TransposeCheck(a)
      [] kind = "CONCATENATION"     -> ConcatCheck(a)
      [] kind = "PRELU"             -> PReluCheck(a)
      [] kind = "EMBEDDING_LOOKUP"  -> EmbeddingLookupCheck(a)
      [] kind = "EXPAND_DIMS"       -> ExpandDimsCheck(a)
      [] kind = "L2_NORMALIZATION"  -> L2NormalizationCheck(a)
      [] kind = "RESHAPE"           -> ReshapeCheck(a)
      [] kind = "FULLY_CONNECTED"   -> FullyConnectedCheck(a)
      [] kind = "PAD"               -> PadCheck(a)
      [] kind = "PAD_V2"            -> PadV2Check(a)
      [] kind = "BATCH_TO_SPACE_ND" -> BatchToSpaceCheck(a)
      [] kind = "SPACE_TO_BATCH_ND" -> SpaceToBatchCheck(a)
      [] kind = "STRIDED_SLICE"     -> StridedSliceCheck(a)
      [] kind = "CHANNEL_SHUFFLE"   -> ChannelShuffleCheck(a)
      [] kind = "INSTANCE_NORMALIZATION" -> InstanceNormalizationCheck(a)
      [] kind = "ROI_POOLING"       -> ROIPoolingCheck(a)
      [] kind = "ROI_ALIGN"         -> ROIAlignCheck(a)
      [] OTHER                      -> Accepts

ReadsOf(k) ==
    LET a == Arguments(k)
        kind == Op(k).kind IN
    CASE kind \in Unary                  -> Abs(a)
      [] kind \in Comparisons \cup Binary -> Equal(a)
      [] kind \in Arithmetic             -> Add(a)
      [] kind \in Reductions             -> ReduceSum(a)
      [] kind = "CONV_2D"           -> Conv2d(a)
      [] kind = "DEPTHWISE_CONV_2D" -> DepthwiseConv2d(a, Op(k).nchw)
      [] kind = "GROUPED_CONV_2D"   -> GroupedConv2d(a)
      [] kind = "TRANSPOSE_CONV_2D" -> TransposeConv2D(a)
      [] kind = "MAX_POOL_2D"       -> MaxPool2d(a)
      [] kind = "AVERAGE_POOL_2D"   -> AveragePool2D(a)
      [] kind = "L2_POOL_2D"        -> L2Pooling2D(a)
      [] kind = "RESIZE_BILINEAR"   -> ResizeBilinear(a)
      [] kind = "RESIZE_NEAREST_NEIGHBOR" -> ResizeNearestNeighbor(a)
      [] kind = "DEPTH_TO_SPACE"    -> DepthToSpace(a)
      [] kind = "SPACE_TO_DEPTH"    -> SpaceToDepth(a)
      [] kind = "BATCH_TO_SPACE_ND" -> BatchToSpace(a)
      [] kind = "SPACE_TO_BATCH_ND" -> SpaceToBatch(a)
      [] kind = "INSTANCE_NORMALIZATION" -> InstanceNormalization(a)
      [] kind = "ROI_ALIGN"         -> ROIAlign(a)
      [] kind = "ROI_POOLING"       -> ROIPooling(a)
      [] kind \in {"ARGMAX", "ARGMIN"} -> Argmax(a)
      [] kind = "CAST"              -> Cast(a)
      [] kind = "CHANNEL_SHUFFLE"   -> ChannelShuffle(a)
      [] kind = "CONCATENATION"     -> Concat(a)
      [] kind = "DEQUANTIZE"        -> Dequantize(a)
      [] kind = "EMBEDDING_LOOKUP"  -> EmbeddingLookup(a)
      [] kind = "EXPAND_DIMS"       -> ExpandDims(a)
      [] kind = "FULLY_CONNECTED"   -> FullyConnected(a)
      [] kind = "GATHER"            -> Gather(a)
      [] kind = "L2_NORMALIZATION"  -> L2Normalization(a)
      [] kind = "SOFTMAX"           -> Softmax(a)
      [] kind = "LOG_SOFTMAX"       -> LogSoftmax(a)
      [] kind = "MEAN"              -> Mean(a)
      [] kind = "PAD"               -> Pad(a)
      [] kind = "PAD_V2"            -> PadV2(a)
      [] kind = "QUANTIZE"          -> Quantize(a)
      [] kind = "RESHAPE"           -> Reshape(a)
      [] kind = "RNN"               -> RNN(a)
      [] kind = "UNIDIRECTIONAL_SEQUENCE_RNN" -> UnidirectionalSequenceRNN(a)
      [] kind = "SELECT"            -> Select(a)
      [] kind = "SPLIT"             -> Split(a)
      [] kind = "SQUEEZE"           -> Squeeze(a)
      [] kind = "STRIDED_SLICE"     -> StridedSlice(a)
      [] kind = "TOPK_V2"           -> TopkV2(a)
      [] kind = "TRANSPOSE"         -> Transpose(a)

-----------------------------------------------------------------------------
(* Element types and scales.                                                *)

Element(type) ==
    CASE type = "TENSOR_FLOAT32"                        -> "f32"
      [] type = "TENSOR_FLOAT16"                        -> "f16"
      [] type = "TENSOR_INT32"                          -> "i32"
      [] type = "TENSOR_BOOL8"                          -> "boolean"
      [] type = "TENSOR_QUANT8_ASYMM"                   -> "u8"
      [] type \in {"TENSOR_QUANT8_ASYMM_SIGNED", "TENSOR_QUANT8_SYMM", PerChannel} -> "i8"
      [] type = "TENSOR_QUANT16_SYMM"                   -> "i16"
      [] type = "TENSOR_QUANT16_ASYMM"                  -> "u16"

Elements == {"f32", "f16", "i32", "boolean", "u8", "i8", "i16", "u16"}

Node(elem, scale) == [elem |-> elem, scale |-> scale]

NodeType == [elem : Elements, scale : Scales \cup {Real, Wrong}]

IsQuantized(i) == Operand(i).type \in QuantizedTypes

\* The node an operand should have.
Fit(i) == Node(Element(Operand(i).type), IF IsQuantized(i) THEN Operand(i).scale ELSE Real)

\* The Parameter of an input, and the Constant of a constant operand; a constant
\* scalar gets no node.
Source(i) == IF Operand(i).type \in TensorTypes THEN Fit(i) ELSE Null

\* DequantizeNode(): right for integers of that operand's type and scale.
DequantizeNode(n, i, elem) == Node(elem, IF n = Fit(i) THEN Real ELSE Wrong)

\* QuantizeNode(): clamps to the range of the operand's type.
QuantizeNode(n, i, elem) ==
    Node(elem, IF n.scale = Real THEN Operand(i).scale ELSE Wrong)

\* getInputNode(k, p, false) and getInputNode(k, p).
RawNode(k, p) ==
    IF Operand(In(k, p)).life = "const" THEN Source(In(k, p)) ELSE nodes[In(k, p)]

InputNode(k, p) ==
    IF IsQuantized(In(k, p)) THEN DequantizeNode(RawNode(k, p), In(k, p), "f32")
    ELSE RawNode(k, p)

\* Not the code: the signed type of HAL 1.3 is left out.
UnsignedResultTypes == QuantizedTypes \ {PerChannel, "TENSOR_QUANT8_ASYMM_SIGNED"}

\* The types that connectOperationToGraph() quantizes a result to.
ResultTypes == QuantizedTypes \ {PerChannel}

\* The input that gives a result its element type.
Carrier(k) == IF Op(k).kind \in {"EMBEDDING_LOOKUP", "SELECT"} THEN 1 ELSE 0

\* A convolution of a filter with scales for its channels multiplies the bias with
\* them and with the scale of operand 0 of the model, here 1.
BorrowsScale(k) ==
    Op(k).kind \in Convolutions /\ Operand(In(k, 1)).type = PerChannel

BorrowedRight(k) == Operand(1).scale = Operand(In(k, 0)).scale

\* What createNode() computes, from inputs none of which is Wrong.
Computed(k) ==
    Node( CASE Op(k).kind \in Comparisons            -> "boolean"
            [] Op(k).kind \in {"ARGMAX", "ARGMIN"}    -> "i32"
            [] OTHER                                 -> InputNode(k, Carrier(k)).elem,
          IF /\ \A p \in ReadsOf(k).nodes : InputNode(k, p).scale = Real
             /\ BorrowsScale(k) => BorrowedRight(k)
          THEN Real ELSE Wrong )

\* DEQUANTIZE goes through the same connectOperationToGraph().
BaseNode(k) ==
    LET i == Op(k).outs[1]
        made == IF Op(k).kind = "DEQUANTIZE"
                THEN DequantizeNode(RawNode(k, 0), In(k, 0),
                        IF Operand(i).type = "TENSOR_FLOAT16" THEN "f16" ELSE "f32")
                ELSE Computed(k)
    IN  IF Operand(i).type \in ResultTypes
        THEN QuantizeNode(made, i, Element(Operand(i).type)) ELSE made

\* What SPLIT and TOPK_V2 convert their results to; other types get no node.
ConvertedTypes ==
    {"TENSOR_FLOAT32", "TENSOR_FLOAT16", "TENSOR_INT32", "TENSOR_QUANT8_ASYMM",
     "TENSOR_QUANT8_ASYMM_SIGNED"}

\* Slices of the integers as they are, converted for the type of the input; the
\* signed ones to u8.
SplitNode(k) ==
    LET type == Operand(In(k, 0)).type
        n == RawNode(k, 0)
    IN  IF type \notin ConvertedTypes THEN Null
        ELSE IF type = "TENSOR_QUANT8_ASYMM_SIGNED" THEN Node("u8", Wrong)
        ELSE Node(Element(type), n.scale)

\* Values and indices, each converted for its own type.
TopKNode(k, j) ==
    LET i == Op(k).outs[j]
        n == Node(Element(Operand(i).type), IF j = 1 THEN InputNode(k, 0).scale ELSE Real)
    IN  IF Operand(i).type \notin ConvertedTypes THEN Null
        ELSE IF IsQuantized(i) THEN QuantizeNode(n, i, n.elem) ELSE n

\* The integers of a cast are taken for what they are.  It compares the types of
\* the operations with the indices of its operands, and may find anything where
\* there are no such operations.  A node is passed on when they compare equal.
Compared(k) == {In(k, 0), Op(k).outs[1]}

SameType(k) ==
    IF Compared(k) \subseteq Ops
    THEN {\A i, o \in Compared(k) : Op(i).kind = Op(o).kind} ELSE BOOLEAN

CastNode(k, same) ==
    LET fit == Fit(Op(k).outs[1])
        n == RawNode(k, 0)
    IN  IF n = Null THEN Null
        ELSE IF n.scale # Wrong /\ (same => n.elem = fit.elem) THEN fit
        ELSE Node(IF same THEN n.elem ELSE fit.elem, Wrong)

Recurrent == {"RNN", "UNIDIRECTIONAL_SEQUENCE_RNN"}

\* The node for output j, which does not depend on how a cast compares.  The first
\* output of an RNN is multiplied by zero, which changes neither type nor scale.
OutputNode(k, j) ==
    CASE Op(k).kind = "SPLIT"       -> SplitNode(k)
      [] Op(k).kind = "TOPK_V2"     -> TopKNode(k, j)
      [] Op(k).kind = "QUANTIZE"    -> QuantizeNode(InputNode(k, 0), Op(k).outs[1], "u8")
      [] Op(k).kind \in Recurrent   -> Computed(k)
      [] OTHER                      -> BaseNode(k)

-----------------------------------------------------------------------------
(* What goes wrong when arguments are read.                                 *)

Size(type) ==
    CASE type = "FLOAT16" -> 2 [] type = "BOOL" -> 1 [] type \in {"FLOAT32", "INT32"} -> 4
      [] OTHER -> 0

\* GetConstOperand(): a constant of that many bytes, or else a null pointer or a
\* failed assertion.
Readable(k, r) ==
    Operand(In(k, r.at)).life = "const" /\ Size(Operand(In(k, r.at)).type) = r.bytes

\* GetConstVecOperand() reads as many elements as fit into the constant, or into the
\* dimensions of what is none (sizeOfData): through a null pointer, unless these
\* say that there are none.  Only an output shape is indexed afterwards.
UnreadableVector(k, p) ==
    LET v == Operand(In(k, p)) IN
    IF v.rank > 0 /\ v.zeros # {} THEN Op(k).kind = "TRANSPOSE_CONV_2D" ELSE v.life # "const"

\* A null node, an unreadable scalar or vector, a missing dimension, and a division
\* by zero.
Faulty(k) ==
    LET r == ReadsOf(k) IN
    \/ \E p \in r.nodes : RawNode(k, p) = Null
    \/ \E p \in r.bare : nodes[In(k, p)] = Null
    \/ \E s \in r.scalars : ~Readable(k, s)
    \/ \E p \in r.vectors : UnreadableVector(k, p)
    \/ \E s \in r.shapes : Operand(In(k, s.at)).rank < s.rank
    \/ \E p \in r.divisors : Operand(In(k, p)).data = "zero"
    \/ \E e \in r.extents : e.dim \in Operand(In(k, e.at)).zeros

\* Memory beyond a vector is read or written, which may go unnoticed.
Straying(k, strays) == \E s \in strays : Operand(In(k, s.at)).data = s.data

-----------------------------------------------------------------------------
Goto(pc, k) == at' = [pc |-> pc, k |-> k]

\* Not the code: one operation too many.
NextOfTooFar(phase, next) ==
    IF at.k <= Len(model.ops) THEN Goto(phase, at.k + 1) ELSE Goto(next, 1)

\* The next operation of a phase, or the next phase.
NextOf(phase, next) ==
    IF at.k < Len(model.ops) THEN Goto(phase, at.k + 1) ELSE Goto(next, 1)

Refuse == Goto("refused", at.k) /\ UNCHANGED <<model, nodes, service>>
Down   == service' = "down" /\ UNCHANGED <<model, at, nodes>>

\* validateOperations().
Validate ==
    LET k == at.k
        c == Checks(k)
        readable == \A r \in c.reads : Readable(k, r)
    IN
    /\ service = "up" /\ at.pc = "validate"
    /\ \/ ~c.holds /\ Refuse
       \/ c.holds /\ (~readable \/ Straying(k, c.strays)) /\ Down
       \/ c.holds /\ readable /\ c.compares /\ ~Op(k).fits /\ Refuse
       \/ /\ c.holds /\ readable /\ (c.compares => Op(k).fits)
          /\ NextOf("validate", "inputs")
          /\ UNCHANGED <<model, nodes, service>>

\* createInputParams(): zero-sized inputs and scalars get no node.
CreateInputParams ==
    /\ service = "up" /\ at.pc = "inputs"
    /\ nodes' = [i \in Operands |->
          IF Operand(i).life = "input" /\ Operand(i).rank > 0 /\ 0 \notin Operand(i).zeros
          THEN Source(i) ELSE Null]
    /\ Goto("connect", 1)
    /\ UNCHANGED <<model, service>>

\* setOutputAtOperandIndex() for all the outputs.
Connect(k, made) ==
    /\ nodes' = [i \in Operands |->
          IF \E j \in DOMAIN Op(k).outs : Op(k).outs[j] = i
          THEN made[CHOOSE j \in DOMAIN Op(k).outs : Op(k).outs[j] = i]
          ELSE nodes[i]]
    /\ NextOf("connect", "done")
    /\ UNCHANGED <<model, service>>

\* nGraph may refuse shapes and types with an exception.
ConnectOperation ==
    LET k == at.k IN
    /\ service = "up" /\ at.pc = "connect" /\ Op(k).kind # "CAST"
    /\ \/ (Faulty(k) \/ Straying(k, ReadsOf(k).strays)) /\ Down
       \/ ~Faulty(k) /\ Connect(k, [j \in DOMAIN Op(k).outs |-> OutputNode(k, j)])
       \/ Refuse

ConnectCast ==
    LET k == at.k IN
    /\ service = "up" /\ at.pc = "connect" /\ Op(k).kind = "CAST"
    /\ \/ ~(Compared(k) \subseteq Ops) /\ Down
       \/ FALSE \in SameType(k) /\ RawNode(k, 0) = Null /\ Down
       \/ \E same \in SameType(k) :
            (~same => RawNode(k, 0) # Null) /\ Connect(k, <<CastNode(k, same)>>)
       \/ Refuse

Finished ==
    /\ service = "down" \/ at.pc \in {"refused", "done"}
    /\ UNCHANGED vars

Init ==
    /\ model \in Models
    /\ at = [pc |-> "validate", k |-> 1]
    /\ nodes = [i \in Operands |-> Null]
    /\ service = "up"

Next == Validate \/ CreateInputParams \/ ConnectOperation \/ ConnectCast \/ Finished

Spec == Init /\ [][Next]_vars
-----------------------------------------------------------------------------
(* How the operations with a layout are built: the order of the axes, and   *)
(* the arguments that nGraph gets.                                          *)

NHWC == <<"N", "H", "W", "C">>
NCHW == <<"N", "C", "H", "W">>

\* transpose() of OperationsBase, for its conversions of images and filters.
Transposed(conversion, axes) ==
    LET order == CASE conversion \in {"NHWC_NCHW", "OHWI_OIHW"} -> <<0, 3, 1, 2>>
                   [] conversion = "NCHW_NHWC"                  -> <<0, 2, 3, 1>>
                   [] conversion = "IHWO_OIHW"                  -> <<3, 0, 1, 2>>
    IN  [j \in 1..4 |-> axes[order[j] + 1]]

\* The axes of the data an operation is built on, and of what comes back.
DataAxes(k)   == IF Op(k).nchw THEN NCHW ELSE Transposed("NHWC_NCHW", NHWC)
ResultAxes(k) == IF Op(k).nchw THEN DataAxes(k) ELSE Transposed("NCHW_NHWC", DataAxes(k))

\* Not the code: every filter is transposed like that of CONV_2D.
FilterAxesOfConv(k, axes) == Transposed("OHWI_OIHW", axes)

FilterAxes(k, axes) ==
    IF Op(k).kind \in {"CONV_2D", "GROUPED_CONV_2D"} THEN Transposed("OHWI_OIHW", axes)
    ELSE Transposed("IHWO_OIHW", axes)

ArgumentsOf(k) ==
    LET a == Arguments(k) IN
    CASE Op(k).kind = "CONV_2D"           -> Conv2dArguments(a)
      [] Op(k).kind = "DEPTHWISE_CONV_2D" -> DepthwiseArguments(a)
      [] Op(k).kind = "GROUPED_CONV_2D"   -> GroupedArguments(a)
      [] Op(k).kind = "TRANSPOSE_CONV_2D" -> TransposeConvArguments(a)
      [] Op(k).kind \in Pools             -> PoolArguments(a)

\* The attributes of convolutions and pools, in the order their arguments are passed in.
HeightFirst ==
    [ strides    |-> <<"stride_height", "stride_width">>,
      pads_begin |-> <<"padding_top", "padding_left">>,
      pads_end   |-> <<"padding_bottom", "padding_right">>,
      dilations  |-> <<"dilation_height", "dilation_width">>,
      kernel     |-> <<"filter_height", "filter_width">> ]

WidthFirst ==
    [attribute \in DOMAIN HeightFirst |->
        <<HeightFirst[attribute][2], HeightFirst[attribute][1]>>]

AttributesPassed(k) == IF Op(k).kind = "GROUPED_CONV_2D" THEN WidthFirst ELSE HeightFirst

-----------------------------------------------------------------------------
(* What NNAPI says of models and operations, and nGraph of axes.            *)

\* The axes of a filter in NNAPI, and those nGraph wants: a transposed convolution
\* reads a filter from its output to its input.
NnapiFilter(k) ==
    IF Op(k).kind = "DEPTHWISE_CONV_2D" THEN <<"I", "H", "W", "O">> ELSE <<"O", "H", "W", "I">>
NgraphFilter(k) ==
    IF Op(k).kind = "TRANSPOSE_CONV_2D" THEN <<"I", "O", "H", "W">> ELSE <<"O", "I", "H", "W">>

\* nGraph takes attributes in the order of the axes of an image, NCHW.
NgraphAttributes ==
    [ strides    |-> <<"stride_height", "stride_width">>,
      pads_begin |-> <<"padding_top", "padding_left">>,
      pads_end   |-> <<"padding_bottom", "padding_right">>,
      dilations  |-> <<"dilation_height", "dilation_width">>,
      kernel     |-> <<"filter_height", "filter_width">> ]

\* The types of the arguments tell which of its forms an operation has: the flag
\* for the layout follows the activation, and has one byte.
NnapiExplicit(k) ==
    LET a == Arguments(k) IN
    IF Op(k).kind = "CONV_2D" THEN Len(a) >= 10 /\ Input(a, 7).type = "INT32"
    ELSE IF Op(k).kind \in {"DEPTHWISE_CONV_2D", "GROUPED_CONV_2D"}
    THEN Len(a) >= 11 /\ Input(a, 8).type = "INT32"
    ELSE Len(a) >= 10

\* Where the arguments of that form are.
NnapiPosition(k, name) ==
    LET first == IF Op(k).kind \in Pools THEN 1
                 ELSE IF Op(k).kind = "TRANSPOSE_CONV_2D" /\ ~NnapiExplicit(k) THEN 4 ELSE 3
        paddings == IF NnapiExplicit(k) THEN 4 ELSE 1
        extra == CASE Op(k).kind \in Pools -> 2
                   [] Op(k).kind \in {"DEPTHWISE_CONV_2D", "GROUPED_CONV_2D"} -> 1
                   [] OTHER -> 0
    IN  CASE name = "padding_left"    -> first
          [] name = "padding_right"   -> first + 1
          [] name = "padding_top"     -> first + 2
          [] name = "padding_bottom"  -> first + 3
          [] name = "padding_scheme"  -> first
          [] name = "stride_width"    -> first + paddings
          [] name = "stride_height"   -> first + paddings + 1
          [] name \in {"filter_width", "multiplier", "groups"} -> first + paddings + 2
          [] name = "filter_height"   -> first + paddings + 3
          [] name = "activation"      -> first + paddings + 2 + extra
          [] name = "layout"          -> first + paddings + 3 + extra
          [] name = "dilation_width"  -> first + paddings + 4 + extra
          [] name = "dilation_height" -> first + paddings + 5 + extra

\* The least number of arguments of an operation.
LeastArguments(kind) ==
    CASE kind \in Unary \cup
            {"CAST", "QUANTIZE", "DEQUANTIZE", "L2_NORMALIZATION"} -> 1
      [] kind \in Comparisons \cup Binary \cup
            {"ARGMAX", "ARGMIN", "BATCH_TO_SPACE_ND", "CONCATENATION", "DEPTH_TO_SPACE",
             "EMBEDDING_LOOKUP", "EXPAND_DIMS", "LOG_SOFTMAX", "PAD", "RESHAPE", "SOFTMAX",
             "SPACE_TO_DEPTH", "SQUEEZE", "TOPK_V2", "TRANSPOSE"} -> 2
      [] kind \in Arithmetic \cup Reductions \cup Resizes \cup
            {"CHANNEL_SHUFFLE", "GATHER", "MEAN", "PAD_V2", "SELECT", "SPACE_TO_BATCH_ND",
             "SPLIT"} -> 3
      [] kind = "FULLY_CONNECTED"          -> 4
      [] kind = "INSTANCE_NORMALIZATION"   -> 5
      [] kind = "RNN"                      -> 6
      [] kind \in Pools \cup {"CONV_2D", "STRIDED_SLICE", "UNIDIRECTIONAL_SEQUENCE_RNN"} -> 7
      [] kind \in {"DEPTHWISE_CONV_2D", "GROUPED_CONV_2D", "ROI_POOLING"} -> 8
      [] kind = "TRANSPOSE_CONV_2D"        -> 9
      [] kind = "ROI_ALIGN"                -> 10

\* The numbers of arguments and results, and the types of results.
Typed(m, k) ==
    LET op == m.ops[k]
        in(p) == m.operands[op.ins[p + 1]]
        out(j) == m.operands[op.outs[j]]
    IN
    /\ \A p \in DOMAIN op.ins : op.ins[p] \in DOMAIN m.operands
    /\ \A j \in DOMAIN op.outs :
          op.outs[j] \in DOMAIN m.operands /\ out(j).type \in TensorTypes \ {PerChannel}
    /\ Len(op.ins) >= LeastArguments(op.kind) /\ Len(op.outs) >= 1
    /\ op.kind \notin Recurrent \cup {"TOPK_V2", "SPLIT"} => Len(op.outs) = 1
    /\ op.kind \in Recurrent =>
          /\ Len(op.outs) \in (IF op.kind = "RNN" THEN {2} ELSE {1, 2})
          /\ in(0).type \in {"TENSOR_FLOAT32", "TENSOR_FLOAT16"}
    /\ CASE op.kind \in Comparisons          -> out(1).type = "TENSOR_BOOL8"
         [] op.kind \in {"ARGMAX", "ARGMIN"} -> out(1).type = "TENSOR_INT32"
         [] op.kind = "CAST"                 -> in(0).type \in TensorTypes
         [] op.kind = "QUANTIZE"             ->
               /\ in(0).type \in {"TENSOR_FLOAT32", "TENSOR_FLOAT16"}
               /\ out(1).type \in {"TENSOR_QUANT8_ASYMM", "TENSOR_QUANT8_ASYMM_SIGNED"}
         [] op.kind = "DEQUANTIZE"           ->
               /\ in(0).type \in QuantizedTypes
               /\ out(1).type \in {"TENSOR_FLOAT32", "TENSOR_FLOAT16"}
         [] op.kind = "SPLIT"                ->
               \A j \in DOMAIN op.outs : out(j).type = in(0).type /\ out(j).scale = in(0).scale
         [] op.kind = "TOPK_V2"              ->
               /\ Len(op.outs) = 2 /\ out(1).type = in(0).type /\ out(2).type = "TENSOR_INT32"
         [] op.kind \in {"EMBEDDING_LOOKUP", "SELECT"} -> out(1).type = in(1).type
         [] OTHER -> \A j \in DOMAIN op.outs : out(j).type = in(0).type

\* The numbers and types of arguments with which NNAPI tells the forms of convolutions
\* and pools apart: every optional argument comes after the ones before it, and the
\* layout is a BOOL where the explicit form has an INT32.
Formed(m) ==
    \A k \in DOMAIN m.ops :
        LET op == m.ops[k]
            n == Len(op.ins)
            type(p) == m.operands[op.ins[p + 1]].type
        IN  /\ op.kind = "CONV_2D" =>
                  \/ n \in 10..13 /\ type(7) = "INT32"
                  \/ n \in 7..10 /\ (n >= 8 => type(7) = "BOOL")
            /\ op.kind = "DEPTHWISE_CONV_2D" =>
                  \/ n \in 11..14 /\ type(8) = "INT32"
                  \/ n \in 8..11 /\ (n >= 9 => type(8) = "BOOL")
            /\ op.kind = "GROUPED_CONV_2D" =>
                  \/ n = 12 /\ type(8) = "INT32"
                  \/ n = 9 /\ type(8) = "BOOL"
            /\ op.kind = "TRANSPOSE_CONV_2D" => n \in {9, 11}
            /\ op.kind \in Pools => n \in {7, 8, 10, 11}

\* The arguments of an operation that are tensors, and those that are truth values,
\* by the number of its arguments.
Tensors(kind, n) ==
    CASE kind = "CONCATENATION"     -> 0..(n - 2)
      [] kind = "TRANSPOSE_CONV_2D" -> 0..2 \cup IF n = 9 THEN {3} ELSE {}
      [] kind = "GATHER"            -> {0, 2}
      [] kind = "STRIDED_SLICE"     -> 0..3
      [] kind \in Recurrent         -> 0..4
      [] kind \in {"CONV_2D", "DEPTHWISE_CONV_2D", "GROUPED_CONV_2D", "FULLY_CONNECTED", "SELECT",
                   "SPACE_TO_BATCH_ND", "ROI_ALIGN", "ROI_POOLING"} -> 0..2
      [] kind \in Comparisons \cup Binary \cup Arithmetic \cup Reductions \cup
                  {"BATCH_TO_SPACE_ND", "EMBEDDING_LOOKUP", "MEAN", "PAD", "PAD_V2", "RESHAPE",
                   "SQUEEZE", "TRANSPOSE"} -> 0..1
      [] OTHER -> {0}

Flags(kind, n) ==
    CASE kind = "CONV_2D"           -> {10}
      [] kind = "DEPTHWISE_CONV_2D" -> {11}
      [] kind = "GROUPED_CONV_2D"   -> IF n = 9 THEN {8} ELSE {11}
      [] kind = "TRANSPOSE_CONV_2D" -> IF n = 9 THEN {8} ELSE {10}
      [] kind \in Pools             -> IF n <= 8 THEN {7} ELSE {10}
      [] kind \in Resizes           -> {3, 4, 5}
      [] kind \in Reductions \cup
                  {"DEPTH_TO_SPACE", "SPACE_TO_DEPTH", "BATCH_TO_SPACE_ND"} -> {2}
      [] kind = "SPACE_TO_BATCH_ND" -> {3}
      [] kind = "INSTANCE_NORMALIZATION" -> {4}
      [] kind = "ROI_POOLING"       -> {7}
      [] kind = "ROI_ALIGN"         -> {9}
      [] OTHER -> {}

\* The arguments that are halves beside halves.
Numbers(kind) ==
    CASE kind \in {"SOFTMAX", "LOG_SOFTMAX"} -> {1}
      [] kind = "PAD_V2"                     -> {2}
      [] kind = "INSTANCE_NORMALIZATION"     -> {1, 2, 3}
      [] kind \in {"ROI_ALIGN", "ROI_POOLING"} -> {5, 6}
      [] OTHER -> {}

\* The sizes or scales of a resized image, and where Formed says what there is.
Open(kind) ==
    CASE kind \in Resizes          -> {1, 2}
      [] kind = "CONV_2D"           -> {7}
      [] kind = "DEPTHWISE_CONV_2D" -> {8}
      [] kind = "GROUPED_CONV_2D"   -> {8}
      [] OTHER -> {}

TypesAt(kind, n, p, half) ==
    IF p \in Tensors(kind, n) THEN TensorTypes
    ELSE IF p \in Flags(kind, n) THEN {"BOOL"}
    ELSE IF p \in Open(kind) THEN ScalarTypes
    ELSE IF p \in Numbers(kind)
    THEN IF half THEN {"FLOAT16"} ELSE {"FLOAT32", "INT32"}
    ELSE {"INT32"}

\* Dimensions of tensors of which some are known.
RankAt(kind, p) ==
    CASE kind \in Pools /\ p = 0                         -> 4
      [] kind = "FULLY_CONNECTED" /\ p = 1              -> 2
      [] kind = "UNIDIRECTIONAL_SEQUENCE_RNN" /\ p = 0  -> 3
      [] OTHER -> 0

\* What the arguments and results of operations are: a tensor that is no constant is
\* an input of the model or a result of an earlier operation.
Called(m) ==
    \A k \in DOMAIN m.ops :
        LET op == m.ops[k]
            n == Len(op.ins)
            arg(p) == m.operands[op.ins[p + 1]]
        IN
        /\ \A p \in 0..(n - 1) :
              /\ arg(p).type \in TypesAt(op.kind, n, p, arg(0).type = "TENSOR_FLOAT16")
              /\ arg(p).rank = 0 \/ arg(p).rank >= RankAt(op.kind, p)
              /\ arg(p).life \in {"temp", "output"} =>
                    \E j \in 1..(k - 1) : \E o \in DOMAIN m.ops[j].outs :
                        m.ops[j].outs[o] = op.ins[p + 1]
        /\ \A o \in DOMAIN op.outs : m.operands[op.outs[o]].life \in {"temp", "output"}
        /\ op.kind \in Resizes =>
              arg(1).type = arg(2).type /\ arg(1).type \in {"INT32", "FLOAT16", "FLOAT32"}
        /\ op.kind \in {"SPLIT", "TOPK_V2"} => arg(0).type \in ConvertedTypes

ModelType == [operands : Seq(ArgumentType(Scales)), ops : Seq(OpType)]

\* A scalar has no dimensions.
Admitted(m) ==
    /\ m \in ModelType /\ m.ops # <<>>
    /\ \A i \in DOMAIN m.operands : m.operands[i].type \in ScalarTypes => m.operands[i].rank = 0
    /\ \A k \in DOMAIN m.ops : Typed(m, k)

ASSUME ModelsAssumption == \A m \in Models : Admitted(m)
ASSUME FormsAssumption  == \A m \in Models : Formed(m) /\ Called(m)
ASSUME SentinelsAssumption ==
    Real \notin Scales /\ Wrong \notin Scales /\ Real # Wrong /\ Null \notin NodeType

-----------------------------------------------------------------------------
(* Properties.                                                              *)

\* The variables hold what the C++ types allow, and operation indices are in range.
TypeOK ==
    /\ Admitted(model)
    /\ at \in [pc : {"validate", "inputs", "connect", "done", "refused"}, k : Ops]
    /\ nodes \in [Operands -> NodeType \cup {Null}]
    /\ service \in {"up", "down"}

\* A bias that is multiplied with another operand's scale, signed integers in a
\* node of unsigned ones, and a cast that compares the types of operations that
\* have nothing to do with it.
Borrowed(k) == BorrowsScale(k) /\ ~BorrowedRight(k)

SignedAsUnsigned(k) ==
    \/ Op(k).kind = "QUANTIZE" /\ Operand(Op(k).outs[1]).type # "TENSOR_QUANT8_ASYMM"
    \/ Op(k).kind = "SPLIT" /\ Operand(In(k, 0)).type = "TENSOR_QUANT8_ASYMM_SIGNED"

Miscast(k) ==
    /\ Op(k).kind = "CAST" /\ TRUE \in SameType(k)
    /\ Element(Operand(In(k, 0)).type) # Element(Operand(Op(k).outs[1]).type)

Defective(k) == Borrowed(k) \/ SignedAsUnsigned(k) \/ Miscast(k)

\* However quantized, floating-point and boolean operands flow through a model,
\* every node has the element type of its operand, and integers of that operand's
\* scale: an execution narrows the numbers of a blob to the width of the operand's
\* type and applies no scale (BasePreparedModel.cpp:242-293), and the operations that
\* read a node dequantize it as its operand.  The exceptions are three defects:
\* Conv2d.cpp:186, Quantize.cpp:20 with Split.cpp:44, and Cast.cpp:25.
NodesFitOperands ==
    (\A k \in Ops : ~Defective(k)) =>
        \A i \in Operands : nodes[i] # Null => nodes[i] = Fit(i)

\* The operations that have been translated.
Connected == {k \in Ops : at.pc = "done" \/ (at.pc = "connect" /\ k < at.k)}

\* Data, filter, strides, paddings, dilations and kernel of an operation that was
\* translated have their axes in the order nGraph has them, and its result is in the
\* layout its operand has; each attribute comes from the argument that has its name in
\* NNAPI, in either form and with any of the optional arguments.  The strides, paddings
\* and dilations of GROUPED_CONV_2D are the exception: GroupedConv2d.cpp:185-188 passes
\* the width first.
AxesAgree ==
    \A k \in Connected :
        /\ Op(k).kind \in SpatialKinds =>
              DataAxes(k) = NCHW /\ ResultAxes(k) = (IF Op(k).nchw THEN NCHW ELSE NHWC)
        /\ Op(k).kind \in Convolutions => FilterAxes(k, NnapiFilter(k)) = NgraphFilter(k)
        /\ Op(k).kind \in Convolutions \cup Pools =>
              LET given == ArgumentsOf(k) IN
              /\ \A name \in DOMAIN given : given[name] = NnapiPosition(k, name)
              /\ DOMAIN given # {}
              /\ \A attribute \in DOMAIN NgraphAttributes :
                    \/ AttributesPassed(k)[attribute] = NgraphAttributes[attribute]
                    \/ Op(k).kind = "GROUPED_CONV_2D"

\* The inputs that validate() refuses when they have no elements.
RefusedEmpty(k) ==
    CASE Op(k).kind \in {"CONV_2D", "TRANSPOSE_CONV_2D"} -> {0, 1}
      [] Op(k).kind = "ROI_ALIGN"     -> {0, 1, 2}
      [] Op(k).kind \in {"FULLY_CONNECTED", "L2_NORMALIZATION", "INSTANCE_NORMALIZATION"} -> {0}
      [] Op(k).kind = "CONCATENATION" -> 0..(Len(Op(k).ins) - 2)
      [] OTHER -> {}

\* Numbers that NNAPI does not allow: a stride of 0 where the paddings are computed
\* for SAME, no groups, no channels, weights and dimensions of nothing to divide by,
\* an output shape of fewer than the four dimensions, and a mask or the begins, ends
\* and strides of a slice that do not have the rank of the input.
OutOfRange(k) ==
    LET a == Arguments(k)
        kind == Op(k).kind
        data(name) == Input(a, NnapiPosition(k, name)).data
    IN
    \/ /\ kind \in Pools \cup (Convolutions \ {"TRANSPOSE_CONV_2D"}) /\ ~NnapiExplicit(k)
       /\ data("padding_scheme") = "one"
       /\ \E name \in {"stride_width", "stride_height"} : data(name) = "zero"
    \/ kind = "GROUPED_CONV_2D" /\ data("groups") = "zero"
    \/ kind = "DEPTHWISE_CONV_2D" /\ (IF Op(k).nchw THEN 1 ELSE 3) \in Input(a, 0).zeros
    \/ kind = "FULLY_CONNECTED" /\ 1 \in Input(a, 1).zeros
    \/ kind = "RESHAPE" /\ Input(a, 1).data = "zero"
    \/ /\ kind = "TRANSPOSE_CONV_2D" /\ ~NnapiExplicit(k)
       /\ Input(a, 3).data = "short" \/ Input(a, 3).zeros # {}
    \/ /\ kind = "STRIDED_SLICE"
       /\ \/ \E p \in 1..3 : Input(a, p).data = "short"
          \/ \E p \in 4..6 : Input(a, p).data = "wide"

\* What is left for a client to get wrong: a scalar that is no constant, an input
\* without elements or rank that nobody refuses, numbers out of range, the output
\* shape, regions and batch indices of two operations that are constants or are none,
\* and a cast and what it made, which may be the missing node of its own input
\* (Cast.cpp:25).
Unchecked(k) ==
    LET a == Arguments(k) IN
    \/ \E p \in 0..(Len(a) - 1) :
          \/ Input(a, p).type \in ScalarTypes /\ ~IsConst(a, p)
          \/ p \notin RefusedEmpty(k) /\ IsZeroSized(a, p) /\ Input(a, p).type \in TensorTypes
          \/ Input(a, p).life = "none"
          \/ \E j \in 1..(k - 1) : Op(j).kind = "CAST" /\ Op(j).outs[1] = In(k, p)
    \/ OutOfRange(k)
    \/ Op(k).kind = "TRANSPOSE_CONV_2D" /\ Len(a) = 9 /\ ~IsConst(a, 3)
    \/ Op(k).kind = "ROI_POOLING" /\ (IsConst(a, 1) \/ ~IsConst(a, 2))
    \/ Op(k).kind = "CAST"

\* The service does not go down on the arguments of an operation that has all its
\* scalars constant and in range, and its tensors there: paddings, shapes, axes and
\* masks that have to be constants are, or the operation is refused, and so are
\* tensors without elements where an operation says it wants none; no division, and
\* no vector that is indexed, trips over anything but a number that is out of range.
OnlyUncheckedFaults == service = "down" => Unchecked(at.k)
===============================================================================
