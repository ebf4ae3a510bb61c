----------------------- MODULE OperationTranslation_proofs -----------------------
(***************************************************************************)
(* Nodes have the element types and scales of their operands, operations   *)
(* their axes and arguments, and the service goes down only on arguments   *)
(* that nobody checks, for any models of any length: the proofs of TypeOK, *)
(* NodesFitOperands, AxesAgree and OnlyUncheckedFaults.                    *)
(***************************************************************************)
EXTENDS OperationTranslation, TLAPS

-----------------------------------------------------------------------------
(* What is known of an admitted model.                                     *)

LEMMA OpTypes ==
  ASSUME Admitted(model), NEW k \in Ops
  PROVE  /\ Op(k).kind \in Kinds
         /\ Op(k).ins \in Seq(Nat \ {0})
         /\ Op(k).outs \in Seq(Nat \ {0})
         /\ Typed(model, k)
<1>1. model \in ModelType /\ \A l \in DOMAIN model.ops : Typed(model, l)
  BY DEF Admitted
<1>2. model.ops \in Seq(OpType)
  BY <1>1 DEF ModelType
<1>3. model.ops[k] \in OpType
  BY <1>2 DEF Ops
<1>4. QED
  BY <1>1, <1>3 DEF OpType, Ops, Op

LEMMA OperandTypes ==
  ASSUME Admitted(model), NEW i \in Operands
  PROVE  /\ Operand(i).type \in ScalarTypes \cup TensorTypes
         /\ Operand(i).scale \in Scales
         /\ Operand(i).type \in ScalarTypes => Operand(i).rank = 0
<1>1. model.operands \in Seq(ArgumentType(Scales))
  BY DEF Admitted, ModelType
<1>2. model.operands[i] \in ArgumentType(Scales)
  BY <1>1 DEF Operands
<1>3. QED
  BY <1>2 DEF Admitted, ArgumentType, Operands, Operand

LEMMA InRange ==
  ASSUME Admitted(model), NEW k \in Ops
  PROVE  /\ Len(Op(k).ins) \in Nat /\ DOMAIN Op(k).ins = 1..Len(Op(k).ins)
         /\ DOMAIN Arguments(k) = 1..Len(Op(k).ins)
         /\ Len(Arguments(k)) = Len(Op(k).ins)
         /\ Len(Op(k).ins) >= LeastArguments(Op(k).kind)
         /\ \A p \in Nat : p < Len(Op(k).ins) => In(k, p) \in Operands
<1>1. Op(k).ins \in Seq(Nat \ {0}) /\ Typed(model, k)
  BY OpTypes
<1>2. Len(Op(k).ins) \in Nat /\ DOMAIN Op(k).ins = 1..Len(Op(k).ins)
  BY <1>1
<1>3. DOMAIN Arguments(k) = 1..Len(Op(k).ins)
  BY <1>2 DEF Arguments
<1>4. Len(Arguments(k)) = Len(Op(k).ins)
  BY <1>2 DEF Arguments
<1>5. Len(Op(k).ins) >= LeastArguments(Op(k).kind)
  BY <1>1 DEF Typed, Op
<1>6. \A p \in DOMAIN Op(k).ins : Op(k).ins[p] \in Operands
  BY <1>1 DEF Typed, Op, Operands
<1>7. ASSUME NEW p \in Nat, p < Len(Op(k).ins)
      PROVE  In(k, p) \in Operands
  BY <1>2, <1>6, <1>7 DEF In
<1>8. QED
  BY <1>2, <1>3, <1>4, <1>5, <1>7


-----------------------------------------------------------------------------
(* What the operations read as nodes.                                      *)

FirstReaders ==
    {"ARGMAX", "ARGMIN", "BATCH_TO_SPACE_ND", "CAST", "CHANNEL_SHUFFLE", "DEPTH_TO_SPACE",
     "DEQUANTIZE", "EXPAND_DIMS", "INSTANCE_NORMALIZATION", "L2_NORMALIZATION", "LOG_SOFTMAX",
     "PAD", "PAD_V2", "QUANTIZE", "RESHAPE", "ROI_POOLING", "SOFTMAX", "SPACE_TO_BATCH_ND",
     "SPACE_TO_DEPTH", "SPLIT", "TOPK_V2"}

PairReaders == {"EMBEDDING_LOOKUP", "MEAN", "SQUEEZE"}

TripleReaders == {"CONV_2D", "DEPTHWISE_CONV_2D", "GROUPED_CONV_2D", "TRANSPOSE_CONV_2D",
                  "ROI_ALIGN", "SELECT"}

OtherReaders == {"CONCATENATION", "FULLY_CONNECTED", "GATHER", "RNN", "STRIDED_SLICE",
                 "TRANSPOSE", "UNIDIRECTIONAL_SEQUENCE_RNN"}

LEMMA ReadsFirst ==
  ASSUME NEW k, Op(k).kind \in Unary \cup FirstReaders \cup Pools \cup Resizes
  PROVE  ReadsOf(k).nodes = {0}
<1>1. CASE Op(k).kind \in Unary
  BY <1>1 DEF ReadsOf, Unary, Comparisons, Binary, Arithmetic, Reductions, Reads, Abs
<1>2. CASE Op(k).kind \in Pools
  BY <1>2 DEF ReadsOf, Unary, Comparisons, Binary, Arithmetic, Reductions, Pools, Reads, Pool,
     MaxPool2d, AveragePool2D, L2Pooling2D
<1>3. CASE Op(k).kind \in Resizes
  BY <1>3 DEF ReadsOf, Unary, Comparisons, Binary, Arithmetic, Reductions, Resizes, Reads,
     ResizeBilinear, ResizeNearestNeighbor
<1>4. CASE Op(k).kind \in {"ARGMAX", "ARGMIN", "CAST", "DEQUANTIZE", "QUANTIZE", "EXPAND_DIMS", "SOFTMAX",
                          "LOG_SOFTMAX", "SPLIT", "TOPK_V2"}
  BY <1>4 DEF ReadsOf, Unary, Comparisons, Binary, Arithmetic, Reductions, Reads, Argmax, Cast,
     Dequantize, Quantize, ExpandDims, Softmax, LogSoftmax, Split, TopkV2
<1>5. CASE Op(k).kind \in {"BATCH_TO_SPACE_ND", "SPACE_TO_BATCH_ND", "DEPTH_TO_SPACE", "SPACE_TO_DEPTH",
                          "CHANNEL_SHUFFLE", "INSTANCE_NORMALIZATION"}
  BY <1>5 DEF ReadsOf, Unary, Comparisons, Binary, Arithmetic, Reductions, Reads, BatchToSpace,
     SpaceToBatch, DepthToSpace, SpaceToDepth, ChannelShuffle, InstanceNormalization
<1>6. CASE Op(k).kind \in {"L2_NORMALIZATION", "PAD", "PAD_V2", "RESHAPE", "ROI_POOLING"}
  BY <1>6 DEF ReadsOf, Unary, Comparisons, Binary, Arithmetic, Reductions, Reads, L2Normalization,
     Pad, PadV2, Reshape, ROIPooling
<1>7. QED
  BY <1>1, <1>2, <1>3, <1>4, <1>5, <1>6 DEF FirstReaders

LEMMA ReadsPair ==
  ASSUME NEW k,
         Op(k).kind \in Comparisons \cup Binary \cup Arithmetic \cup Reductions \cup PairReaders
  PROVE  ReadsOf(k).nodes = {0, 1}
BY DEF ReadsOf, Unary, Comparisons, Binary, Arithmetic, Reductions, PairReaders, Reads, Equal,
   Add, ReduceSum, Mean, EmbeddingLookup, Squeeze

LEMMA ReadsTriple ==
  ASSUME NEW k, Op(k).kind \in TripleReaders
  PROVE  ReadsOf(k).nodes = {0, 1, 2}
BY DEF ReadsOf, Unary, Comparisons, Binary, Arithmetic, Reductions, TripleReaders, Reads,
   Convolution, Padded, Conv2d, DepthwiseConv2d, GroupedConv2d, TransposeConv2D, ROIAlign, Select

LEMMA ReadsOther ==
  ASSUME NEW k, Op(k).kind \in OtherReaders
  PROVE  LET a == Arguments(k)
             read == ReadsOf(k).nodes IN
         /\ Op(k).kind = "CONCATENATION" => read = 0..(Len(a) - 2)
         /\ Op(k).kind = "FULLY_CONNECTED" => {0} \subseteq read /\ read \subseteq {0, 1, 2}
         /\ Op(k).kind = "GATHER" => read = {0, 2}
         /\ Op(k).kind \in {"RNN", "UNIDIRECTIONAL_SEQUENCE_RNN"} => read = 0..4
         /\ Op(k).kind = "STRIDED_SLICE" => read = {0, 1, 2, 3}
         /\ Op(k).kind = "TRANSPOSE" => {0} \subseteq read /\ read \subseteq {0, 1}
<1> DEFINE a == Arguments(k)
           read == ReadsOf(k).nodes
<1>1. Op(k).kind = "CONCATENATION" => read = 0..(Len(a) - 2)
  BY DEF ReadsOf, Unary, Comparisons, Binary, Arithmetic, Reductions, Reads, Concat
<1>2. Op(k).kind = "FULLY_CONNECTED" => {0} \subseteq read /\ read \subseteq {0, 1, 2}
  BY DEF ReadsOf, Unary, Comparisons, Binary, Arithmetic, Reductions, Reads, FullyConnected
<1>3. Op(k).kind = "GATHER" => read = {0, 2}
  BY DEF ReadsOf, Unary, Comparisons, Binary, Arithmetic, Reductions, Reads, Gather
<1>4. Op(k).kind \in {"RNN", "UNIDIRECTIONAL_SEQUENCE_RNN"} => read = 0..4
  BY DEF ReadsOf, Unary, Comparisons, Binary, Arithmetic, Reductions, Reads, RNN,
     UnidirectionalSequenceRNN
<1>5. Op(k).kind = "STRIDED_SLICE" => read = {0, 1, 2, 3}
  BY DEF ReadsOf, Unary, Comparisons, Binary, Arithmetic, Reductions, Reads, StridedSlice
<1>6. Op(k).kind = "TRANSPOSE" => {0} \subseteq read /\ read \subseteq {0, 1}
  BY DEF ReadsOf, Unary, Comparisons, Binary, Arithmetic, Reductions, Reads, Transpose
<1>7. QED
  BY <1>1, <1>2, <1>3, <1>4, <1>5, <1>6

LEMMA Readers ==
  Kinds \subseteq Unary \cup FirstReaders \cup Pools \cup Resizes \cup
                  Comparisons \cup Binary \cup Arithmetic \cup Reductions \cup PairReaders \cup
                  TripleReaders \cup OtherReaders
BY DEF Kinds, SpatialKinds, Convolutions, FirstReaders, PairReaders, TripleReaders, OtherReaders

\* There are as many arguments as are read.
LEMMA LeastPair ==
  ASSUME NEW kind \in Comparisons \cup Binary \cup Arithmetic \cup Reductions \cup PairReaders
  PROVE  LeastArguments(kind) \in 2..3
<1>1. CASE kind \in Comparisons \cup Binary
  BY <1>1 DEF LeastArguments, Unary, Comparisons, Binary, Arithmetic, Reductions, Resizes, Pools
<1>2. CASE kind \in Arithmetic \cup Reductions
  BY <1>2 DEF LeastArguments, Unary, Comparisons, Binary, Arithmetic, Reductions, Resizes, Pools
<1>3. CASE kind \in PairReaders
  BY <1>3 DEF LeastArguments, Unary, Comparisons, Binary, Arithmetic, Reductions, Resizes,
     Pools, PairReaders
<1>4. QED
  BY <1>1, <1>2, <1>3

LEMMA LeastTriple ==
  ASSUME NEW kind \in TripleReaders
  PROVE  LeastArguments(kind) \in 3..10
BY DEF LeastArguments, Unary, Comparisons, Binary, Arithmetic, Reductions, Resizes, Pools,
   TripleReaders

LEMMA LeastFirst ==
  ASSUME NEW kind \in Unary \cup FirstReaders \cup Pools \cup Resizes
  PROVE  LeastArguments(kind) \in 1..8
<1>1. CASE kind \in Unary
  BY <1>1 DEF LeastArguments, Unary, Comparisons, Binary, Arithmetic, Reductions, Resizes, Pools
<1>2. CASE kind \in FirstReaders
  BY <1>2 DEF LeastArguments, Unary, Comparisons, Binary, Arithmetic, Reductions, Resizes,
     Pools, FirstReaders
<1>3. CASE kind \in Pools \cup Resizes
  BY <1>3 DEF LeastArguments, Unary, Comparisons, Binary, Arithmetic, Reductions, Resizes, Pools
<1>4. QED
  BY <1>1, <1>2, <1>3

LEMMA LeastOther ==
  ASSUME NEW kind \in OtherReaders
  PROVE  /\ kind = "CONCATENATION" => LeastArguments(kind) = 2
         /\ kind = "FULLY_CONNECTED" => LeastArguments(kind) = 4
         /\ kind = "GATHER" => LeastArguments(kind) = 3
         /\ kind = "RNN" => LeastArguments(kind) = 6
         /\ kind \in {"STRIDED_SLICE", "UNIDIRECTIONAL_SEQUENCE_RNN"} => LeastArguments(kind) = 7
         /\ kind = "TRANSPOSE" => LeastArguments(kind) = 2
BY DEF LeastArguments, Unary, Comparisons, Binary, Arithmetic, Reductions, Resizes, Pools,
   OtherReaders

\* What an operation reads as nodes is among its arguments, and so is the input that
\* gives its result a type.
LEMMA ReadsInRange ==
  ASSUME Admitted(model), NEW k \in Ops
  PROVE  /\ 0 \in ReadsOf(k).nodes /\ Carrier(k) \in ReadsOf(k).nodes
         /\ \A p \in ReadsOf(k).nodes : p \in Nat /\ p < Len(Op(k).ins) /\ In(k, p) \in Operands
<1> DEFINE kind == Op(k).kind
           read == ReadsOf(k).nodes
           n == Len(Op(k).ins)
<1>1. n \in Nat /\ n >= LeastArguments(kind) /\ Len(Arguments(k)) = n
      /\ \A p \in Nat : p < n => In(k, p) \in Operands
  BY InRange
<1>2. kind \in Kinds
  BY OpTypes
<1>3. CASE kind \in Unary \cup FirstReaders \cup Pools \cup Resizes
  <2>1. read = {0} /\ n >= 1
    BY <1>1, <1>3, ReadsFirst, LeastFirst
  <2>2. Carrier(k) = 0
    BY <1>3 DEF Carrier, Unary, FirstReaders, Pools, Resizes
  <2>3. QED
    BY <1>1, <2>1, <2>2
<1>4. CASE kind \in Comparisons \cup Binary \cup Arithmetic \cup Reductions \cup PairReaders
  <2>1. read = {0, 1} /\ n >= 2
    BY <1>1, <1>4, ReadsPair, LeastPair
  <2>2. QED
    BY <1>1, <2>1 DEF Carrier
<1>5. CASE kind \in TripleReaders
  <2>1. read = {0, 1, 2} /\ n >= 3
    BY <1>1, <1>5, ReadsTriple, LeastTriple
  <2>2. QED
    BY <1>1, <2>1 DEF Carrier
<1>6. CASE kind \in OtherReaders
  <2>1. Carrier(k) = 0
    BY <1>6 DEF Carrier, OtherReaders
  <2>2. CASE kind = "CONCATENATION"
    <3>1. read = 0..(n - 2) /\ n >= 2
      BY <1>1, <1>6, <2>2, ReadsOther, LeastOther
    <3>2. QED
      BY <1>1, <2>1, <3>1
  <2>3. CASE kind = "FULLY_CONNECTED"
    <3>1. 0 \in read /\ read \subseteq {0, 1, 2} /\ n >= 4
      BY <1>1, <1>6, <2>3, ReadsOther, LeastOther
    <3>2. QED
      BY <1>1, <2>1, <3>1
  <2>4. CASE kind = "GATHER"
    <3>1. read = {0, 2} /\ n >= 3
      BY <1>1, <1>6, <2>4, ReadsOther, LeastOther
    <3>2. QED
      BY <1>1, <2>1, <3>1
  <2>5. CASE kind \in {"RNN", "UNIDIRECTIONAL_SEQUENCE_RNN"}
    <3>1. read = 0..4 /\ n >= 6
      BY <1>1, <1>6, <2>5, ReadsOther, LeastOther
    <3>2. QED
      BY <1>1, <2>1, <3>1
  <2>6. CASE kind = "STRIDED_SLICE"
    <3>1. read = {0, 1, 2, 3} /\ n >= 7
      BY <1>1, <1>6, <2>6, ReadsOther, LeastOther
    <3>2. QED
      BY <1>1, <2>1, <3>1
  <2>7. CASE kind = "TRANSPOSE"
    <3>1. 0 \in read /\ read \subseteq {0, 1} /\ n >= 2
      BY <1>1, <1>6, <2>7, ReadsOther, LeastOther
    <3>2. QED
      BY <1>1, <2>1, <3>1
  <2>8. QED
    BY <1>6, <2>2, <2>3, <2>4, <2>5, <2>6, <2>7 DEF OtherReaders
<1>7. QED
  BY <1>2, <1>3, <1>4, <1>5, <1>6, Readers

-----------------------------------------------------------------------------
(* Nodes.                                                                  *)

NodesTyped == nodes \in [Operands -> NodeType \cup {Null}]

LEMMA ElementTypes ==
  ASSUME NEW type \in TensorTypes
  PROVE  Element(type) \in Elements
BY DEF Element, Elements, TensorTypes, QuantizedTypes, PerChannel

LEMMA FitTypes ==
  ASSUME Admitted(model), NEW i \in Operands
  PROVE  /\ Operand(i).type \in TensorTypes => Fit(i) \in NodeType
         /\ Source(i) \in NodeType \cup {Null}
         /\ Source(i) = Fit(i) \/ Source(i) = Null
         /\ Operand(i).scale \in Scales
BY OperandTypes, ElementTypes DEF Fit, Source, Node, NodeType

LEMMA QuantizeTypes ==
  ASSUME Admitted(model), NEW i \in Operands, NEW n, NEW elem \in Elements
  PROVE  QuantizeNode(n, i, elem) \in NodeType
BY OperandTypes DEF QuantizeNode, Node, NodeType

LEMMA DequantizeTypes ==
  ASSUME NEW i, NEW n, NEW elem \in Elements
  PROVE  DequantizeNode(n, i, elem) \in NodeType
BY DEF DequantizeNode, Node, NodeType

LEMMA RawTypes ==
  ASSUME Admitted(model), NodesTyped, NEW k \in Ops, NEW p \in ReadsOf(k).nodes
  PROVE  /\ In(k, p) \in Operands
         /\ RawNode(k, p) \in NodeType \cup {Null}
         /\ ~Faulty(k) => RawNode(k, p) \in NodeType /\ InputNode(k, p) \in NodeType
<1>1. In(k, p) \in Operands
  BY ReadsInRange
<1>2. RawNode(k, p) \in NodeType \cup {Null}
  BY <1>1, FitTypes DEF RawNode, NodesTyped
<1>3. ~Faulty(k) => RawNode(k, p) # Null
  BY DEF Faulty
<1>4. ASSUME ~Faulty(k)
      PROVE  InputNode(k, p) \in NodeType
  <2>1. "f32" \in Elements
    BY DEF Elements
  <2>2. QED
    BY <1>2, <1>3, <1>4, <2>1, DequantizeTypes DEF InputNode
<1>5. QED
  BY <1>1, <1>2, <1>3, <1>4

-----------------------------------------------------------------------------
(* Results.                                                                *)

LEMMA OutTypes ==
  ASSUME Admitted(model), NEW k \in Ops, NEW j \in DOMAIN Op(k).outs
  PROVE  /\ Op(k).outs[j] \in Operands
         /\ Operand(Op(k).outs[j]).type \in TensorTypes \ {PerChannel}
         /\ Element(Operand(Op(k).outs[j]).type) \in Elements
<1>1. Typed(model, k)
  BY OpTypes
<1>2. Op(k).outs[j] \in Operands /\ Operand(Op(k).outs[j]).type \in TensorTypes \ {PerChannel}
  BY <1>1 DEF Typed, Op, Operand, Operands
<1>3. QED
  BY <1>2, ElementTypes

LEMMA FirstOut ==
  ASSUME Admitted(model), NEW k \in Ops
  PROVE  1 \in DOMAIN Op(k).outs
<1>1. Op(k).outs \in Seq(Nat \ {0}) /\ Len(Op(k).outs) >= 1
  BY OpTypes DEF Typed, Op
<1>2. QED
  BY <1>1

\* The type of a result is that of the input that gives it one, but for the
\* operations whose name says what they make.
SelfTyped == Comparisons \cup {"ARGMAX", "ARGMIN", "CAST", "QUANTIZE", "DEQUANTIZE"}

LEMMA ResultOf ==
  ASSUME Admitted(model), NEW k \in Ops
  PROVE  LET in(p) == Operand(In(k, p))
             out(j) == Operand(Op(k).outs[j]) IN
         /\ Op(k).kind \in Comparisons => out(1).type = "TENSOR_BOOL8"
         /\ Op(k).kind \in {"ARGMAX", "ARGMIN"} => out(1).type = "TENSOR_INT32"
         /\ Op(k).kind = "CAST" => in(0).type \in TensorTypes
         /\ Op(k).kind = "QUANTIZE" =>
               out(1).type \in {"TENSOR_QUANT8_ASYMM", "TENSOR_QUANT8_ASYMM_SIGNED"}
         /\ Op(k).kind = "DEQUANTIZE" =>
               /\ in(0).type \in QuantizedTypes
               /\ out(1).type \in {"TENSOR_FLOAT32", "TENSOR_FLOAT16"}
         /\ Op(k).kind = "SPLIT" =>
               \A j \in DOMAIN Op(k).outs :
                  out(j).type = in(0).type /\ out(j).scale = in(0).scale
         /\ Op(k).kind = "TOPK_V2" =>
               /\ Len(Op(k).outs) = 2
               /\ out(1).type = in(0).type /\ out(2).type = "TENSOR_INT32"
         /\ Op(k).kind \notin SelfTyped => out(1).type = in(Carrier(k)).type
<1>1. Typed(model, k)
  BY OpTypes
<1>2. 1 \in DOMAIN Op(k).outs
  BY FirstOut
<1>3. QED
  BY <1>1, <1>2 DEF Typed, SelfTyped, Carrier, Op, Operand, In, Comparisons

LEMMA ComputedTypes ==
  ASSUME Admitted(model), NodesTyped, NEW k \in Ops, ~Faulty(k)
  PROVE  Computed(k) \in NodeType
<1>1. InputNode(k, Carrier(k)) \in NodeType
  BY ReadsInRange, RawTypes
<1>2. {"boolean", "i32"} \subseteq Elements
  BY DEF Elements
<1>3. QED
  BY <1>1, <1>2 DEF Computed, Node, NodeType

LEMMA OutputTypes ==
  ASSUME Admitted(model), NodesTyped, NEW k \in Ops, ~Faulty(k), NEW j \in DOMAIN Op(k).outs
  PROVE  OutputNode(k, j) \in NodeType \cup {Null}
<1>1. /\ RawNode(k, 0) \in NodeType /\ InputNode(k, 0) \in NodeType
      /\ In(k, 0) \in Operands
  BY ReadsInRange, RawTypes
<1>2. /\ Op(k).outs[j] \in Operands /\ Op(k).outs[1] \in Operands
      /\ Element(Operand(Op(k).outs[j]).type) \in Elements
      /\ Element(Operand(Op(k).outs[1]).type) \in Elements
  BY OutTypes, FirstOut
<1>3. {"u8", "f16", "f32"} \subseteq Elements
  BY DEF Elements
<1>4. ASSUME Op(k).kind = "SPLIT"
      PROVE  SplitNode(k) \in NodeType \cup {Null}
  <2>1. ConvertedTypes \subseteq TensorTypes
    BY DEF ConvertedTypes, TensorTypes, QuantizedTypes
  <2>2. QED
    BY <1>1, <1>3, <2>1, ElementTypes DEF SplitNode, Node, NodeType
<1>5. TopKNode(k, j) \in NodeType \cup {Null}
  <2> DEFINE i == Op(k).outs[j]
             n == Node(Element(Operand(i).type), IF j = 1 THEN InputNode(k, 0).scale ELSE Real)
  <2>1. n \in NodeType
    BY <1>1, <1>2 DEF Node, NodeType
  <2>2. n.elem \in Elements
    BY <2>1 DEF NodeType
  <2>3. QuantizeNode(n, i, n.elem) \in NodeType
    BY <1>2, <2>2, QuantizeTypes
  <2>4. QED
    BY <2>1, <2>3 DEF TopKNode
<1>6. QuantizeNode(InputNode(k, 0), Op(k).outs[1], "u8") \in NodeType
  BY <1>2, <1>3, QuantizeTypes
<1>7. BaseNode(k) \in NodeType
  <2>1. \A elem \in {"f16", "f32"} : DequantizeNode(RawNode(k, 0), In(k, 0), elem) \in NodeType
    BY <1>3, DequantizeTypes
  <2>2. Computed(k) \in NodeType
    BY ComputedTypes
  <2>3. \A n : QuantizeNode(n, Op(k).outs[1], Element(Operand(Op(k).outs[1]).type)) \in NodeType
    BY <1>2, QuantizeTypes
  <2>4. QED
    BY <2>1, <2>2, <2>3 DEF BaseNode
<1>8. Computed(k) \in NodeType
  BY ComputedTypes
<1>9. QED
  BY <1>4, <1>5, <1>6, <1>7, <1>8 DEF OutputNode

LEMMA CastTypes ==
  ASSUME Admitted(model), NodesTyped, NEW k \in Ops, NEW same
  PROVE  CastNode(k, same) \in NodeType \cup {Null}
<1>1. RawNode(k, 0) \in NodeType \cup {Null}
  BY ReadsInRange, RawTypes
<1>2. Fit(Op(k).outs[1]) \in NodeType
  BY OutTypes, FirstOut, FitTypes
<1>3. QED
  BY <1>1, <1>2 DEF CastNode, Node, NodeType

-----------------------------------------------------------------------------
(* Steps.                                                                  *)

AtOK == at \in [pc : {"validate", "inputs", "connect", "done", "refused"}, k : Ops]

LEMMA FirstOp ==
  ASSUME Admitted(model)
  PROVE  Len(model.ops) \in Nat /\ Ops = 1..Len(model.ops) /\ 1 \in Ops
<1>1. model.ops \in Seq(OpType) /\ model.ops # <<>>
  BY DEF Admitted, ModelType
<1>2. QED
  BY <1>1 DEF Ops

LEMMA GotoTypes ==
  ASSUME AtOK, Admitted(model),
         NEW pc \in {"validate", "inputs", "connect", "done", "refused"}, NEW l \in Ops,
         model' = model, Goto(pc, l)
  PROVE  AtOK'
BY DEF Goto, AtOK, Ops

LEMMA NextOfTypes ==
  ASSUME AtOK, Admitted(model),
         NEW pc \in {"validate", "inputs", "connect", "done", "refused"},
         NEW next \in {"validate", "inputs", "connect", "done", "refused"},
         model' = model, NextOf(pc, next)
  PROVE  AtOK'
<1>1. at.k \in Ops
  BY DEF AtOK
<1>2. CASE at.k < Len(model.ops)
  <2>1. Goto(pc, at.k + 1)
    BY <1>2 DEF NextOf
  <2>2. at.k + 1 \in Ops
    BY <1>1, <1>2, FirstOp
  <2>3. QED
    BY <2>1, <2>2, GotoTypes
<1>3. CASE ~(at.k < Len(model.ops))
  <2>1. Goto(next, 1)
    BY <1>3 DEF NextOf
  <2>2. QED
    BY <2>1, FirstOp, GotoTypes
<1>4. QED
  BY <1>2, <1>3

\* Operands of a connected operation get its nodes, and the others keep theirs.
LEMMA ConnectNodes ==
  ASSUME NEW k \in Ops, NEW made, Connect(k, made)
  PROVE  /\ DOMAIN nodes' = Operands
         /\ nodes' = [i \in Operands |-> nodes'[i]]
         /\ \A i \in Operands :
              \/ nodes'[i] = nodes[i]
              \/ \E j \in DOMAIN Op(k).outs : Op(k).outs[j] = i /\ nodes'[i] = made[j]
<1>1. nodes' = [i \in Operands |->
          IF \E j \in DOMAIN Op(k).outs : Op(k).outs[j] = i
          THEN made[CHOOSE j \in DOMAIN Op(k).outs : Op(k).outs[j] = i]
          ELSE nodes[i]]
  BY DEF Connect
<1>2. ASSUME NEW i \in Operands
      PROVE  \/ nodes'[i] = nodes[i]
             \/ \E j \in DOMAIN Op(k).outs : Op(k).outs[j] = i /\ nodes'[i] = made[j]
  <2>1. CASE \E j \in DOMAIN Op(k).outs : Op(k).outs[j] = i
    <3> DEFINE j == CHOOSE j \in DOMAIN Op(k).outs : Op(k).outs[j] = i
    <3>1. j \in DOMAIN Op(k).outs /\ Op(k).outs[j] = i
      BY <2>1
    <3>2. nodes'[i] = made[j]
      BY <1>1, <2>1
    <3>3. QED
      BY <3>1, <3>2
  <2>2. CASE ~\E j \in DOMAIN Op(k).outs : Op(k).outs[j] = i
    BY <1>1, <2>2
  <2>3. QED
    BY <2>1, <2>2
<1>3. QED
  BY <1>1, <1>2

\* A model is what it was.
LEMMA ModelKept ==
  ASSUME Next \/ UNCHANGED vars
  PROVE  model' = model
BY DEF Next, Validate, CreateInputParams, ConnectOperation, ConnectCast, Finished, Connect, Refuse,
       Down, vars

-----------------------------------------------------------------------------
(* Types.                                                                  *)

LEMMA Kept ==
  ASSUME TypeOK, model' = model, AtOK', NodesTyped', service' \in {"up", "down"}
  PROVE  TypeOK'
<1>1. Admitted(model)'
  BY DEF TypeOK, Admitted
<1>2. QED
  BY <1>1 DEF TypeOK, AtOK, NodesTyped

LEMMA RefuseKeeps ==
  ASSUME TypeOK, Refuse
  PROVE  TypeOK'
<1>1. AtOK /\ Admitted(model) /\ model' = model /\ UNCHANGED <<nodes, service>>
  BY DEF TypeOK, AtOK, Refuse
<1>2. at.k \in Ops
  BY <1>1 DEF AtOK
<1>3. AtOK'
  BY <1>1, <1>2, GotoTypes DEF Refuse
<1>4. NodesTyped'
  BY <1>1 DEF TypeOK, NodesTyped, Operands
<1>5. QED
  BY <1>1, <1>3, <1>4, Kept DEF TypeOK

LEMMA DownKeeps ==
  ASSUME TypeOK, Down
  PROVE  TypeOK'
<1>1. AtOK' /\ NodesTyped' /\ model' = model
  BY DEF TypeOK, Down, AtOK, NodesTyped, Operands, Ops
<1>2. QED
  BY <1>1, Kept DEF Down

LEMMA ValidateKeeps ==
  ASSUME TypeOK, Validate
  PROVE  TypeOK'
<1>1. CASE NextOf("validate", "inputs") /\ UNCHANGED <<model, nodes, service>>
  <2>1. AtOK'
    BY <1>1, NextOfTypes DEF TypeOK, AtOK
  <2>2. NodesTyped'
    BY <1>1 DEF TypeOK, NodesTyped, Operands
  <2>3. QED
    BY <1>1, <2>1, <2>2, Kept DEF TypeOK
<1>2. QED
  BY <1>1, RefuseKeeps, DownKeeps DEF Validate

LEMMA CreateKeeps ==
  ASSUME TypeOK, CreateInputParams
  PROVE  TypeOK'
<1>1. model' = model /\ Admitted(model) /\ AtOK
  BY DEF CreateInputParams, TypeOK, AtOK
<1>2. AtOK'
  BY <1>1, FirstOp, GotoTypes DEF CreateInputParams
<1>3. \A i \in Operands : Source(i) \in NodeType \cup {Null}
  BY <1>1, FitTypes
<1>4. nodes' \in [Operands -> NodeType \cup {Null}]
  BY <1>3 DEF CreateInputParams
<1>5. NodesTyped'
  BY <1>1, <1>4 DEF NodesTyped, Operands
<1>6. QED
  BY <1>1, <1>2, <1>5, Kept DEF CreateInputParams, TypeOK

LEMMA ConnectKeeps ==
  ASSUME TypeOK, NEW k \in Ops, NEW made, Connect(k, made),
         \A j \in DOMAIN Op(k).outs : made[j] \in NodeType \cup {Null}
  PROVE  TypeOK'
<1>1. model' = model /\ service' = service /\ Admitted(model) /\ AtOK
  BY DEF Connect, TypeOK, AtOK
<1>2. AtOK'
  BY <1>1, NextOfTypes DEF Connect
<1>3. \A i \in Operands : nodes'[i] \in NodeType \cup {Null}
  BY ConnectNodes DEF TypeOK
<1>4. NodesTyped'
  BY <1>1, <1>3, ConnectNodes DEF NodesTyped, Operands
<1>5. QED
  BY <1>1, <1>2, <1>4, Kept DEF TypeOK

LEMMA ConnectOperationKeeps ==
  ASSUME TypeOK, ConnectOperation
  PROVE  TypeOK'
<1>1. at.k \in Ops /\ Admitted(model) /\ NodesTyped
  BY DEF TypeOK, NodesTyped
<1>2. PICK k \in Ops : k = at.k
  BY <1>1
<1>3. CASE /\ ~Faulty(k)
           /\ Connect(k, [j \in DOMAIN Op(k).outs |-> OutputNode(k, j)])
  <2>1. \A j \in DOMAIN Op(k).outs : OutputNode(k, j) \in NodeType \cup {Null}
    BY <1>1, <1>3, OutputTypes
  <2>2. QED
    BY <1>3, <2>1, ConnectKeeps
<1>4. QED
  BY <1>2, <1>3, RefuseKeeps, DownKeeps DEF ConnectOperation

LEMMA ConnectCastKeeps ==
  ASSUME TypeOK, ConnectCast
  PROVE  TypeOK'
<1>1. at.k \in Ops /\ Admitted(model) /\ NodesTyped
  BY DEF TypeOK, NodesTyped
<1>2. PICK k \in Ops : k = at.k
  BY <1>1
<1>3. ASSUME NEW same \in SameType(k), Connect(k, <<CastNode(k, same)>>)
      PROVE  TypeOK'
  <2>1. CastNode(k, same) \in NodeType \cup {Null}
    BY <1>1, CastTypes
  <2>2. Op(k).kind = "CAST"
    BY <1>2 DEF ConnectCast
  <2>3. DOMAIN Op(k).outs = {1}
    <3>1. Op(k).outs \in Seq(Nat \ {0}) /\ Typed(model, k)
      BY <1>1, OpTypes
    <3>2. Len(Op(k).outs) = 1
      BY <2>2, <3>1 DEF Typed, Op, Recurrent
    <3>3. QED
      BY <3>1, <3>2
  <2>4. QED
    BY <1>3, <2>1, <2>3, ConnectKeeps
<1>4. QED
  BY <1>2, <1>3, RefuseKeeps, DownKeeps DEF ConnectCast

LEMMA InitTypes ==
  ASSUME Init
  PROVE  TypeOK
<1>1. Admitted(model)
  BY ModelsAssumption DEF Init
<1>2. 1 \in Ops
  BY <1>1, FirstOp
<1>3. QED
  BY <1>1, <1>2 DEF Init, TypeOK

\* The phases stay within the operations, and every node has an element type and is
\* made of numbers or of the integers of some operand: TypeOK.
THEOREM TypeCorrect == Spec => []TypeOK
<1>1. Init => TypeOK
  BY InitTypes
<1>2. TypeOK /\ [Next]_vars => TypeOK'
  <2> SUFFICES ASSUME TypeOK, [Next]_vars PROVE TypeOK'
    OBVIOUS
  <2>1. CASE UNCHANGED vars
    <3>1. AtOK' /\ NodesTyped' /\ model' = model /\ service' = service
      BY <2>1 DEF TypeOK, vars, AtOK, NodesTyped, Operands, Ops
    <3>2. QED
      BY <3>1, Kept DEF TypeOK
  <2>2. CASE Finished
    BY <2>1, <2>2 DEF Finished
  <2>3. QED
    BY <2>1, <2>2, ValidateKeeps, CreateKeeps, ConnectOperationKeeps, ConnectCastKeeps DEF Next
<1>3. QED
  BY <1>1, <1>2, PTL DEF Spec

-----------------------------------------------------------------------------
(* Nodes fit their operands.                                               *)

FitOK == \A i \in Operands : nodes[i] # Null => nodes[i] = Fit(i)

LEMMA InputReal ==
  ASSUME TypeOK, FitOK, NEW k \in Ops, ~Faulty(k), NEW p \in ReadsOf(k).nodes
  PROVE  LET i == In(k, p) IN
         /\ RawNode(k, p) = Fit(i)
         /\ InputNode(k, p) = Node(IF IsQuantized(i) THEN "f32" ELSE Element(Operand(i).type), Real)
<1>1. In(k, p) \in Operands /\ RawNode(k, p) # Null
  <2>1. Admitted(model) /\ NodesTyped
    BY DEF TypeOK, NodesTyped
  <2>2. In(k, p) \in Operands
    BY <2>1, RawTypes
  <2>3. RawNode(k, p) # Null
    BY DEF Faulty
  <2>4. QED
    BY <2>2, <2>3
<1>2. RawNode(k, p) = Fit(In(k, p))
  <2>1. Source(In(k, p)) = Fit(In(k, p)) \/ Source(In(k, p)) = Null
    BY DEF Source
  <2>2. nodes[In(k, p)] # Null => nodes[In(k, p)] = Fit(In(k, p))
    BY <1>1 DEF FitOK
  <2>3. RawNode(k, p) \in {Source(In(k, p)), nodes[In(k, p)]}
    BY DEF RawNode
  <2>4. QED
    BY <1>1, <2>1, <2>2, <2>3
<1>3. QED
  BY <1>2 DEF InputNode, DequantizeNode, Fit, Node

LEMMA ComputedReal ==
  ASSUME TypeOK, FitOK, NEW k \in Ops, ~Faulty(k), ~Borrowed(k), Op(k).kind \notin SelfTyped
  PROVE  LET i == In(k, Carrier(k)) IN
         Computed(k) =
            Node(IF IsQuantized(i) THEN "f32" ELSE Element(Operand(i).type), Real)
<1>1. \A p \in ReadsOf(k).nodes : InputNode(k, p).scale = Real
  BY InputReal DEF Node
<1>2. BorrowsScale(k) => BorrowedRight(k)
  BY DEF Borrowed
<1>3. Carrier(k) \in ReadsOf(k).nodes
  BY ReadsInRange DEF TypeOK
<1>4. InputNode(k, Carrier(k)).elem =
        IF IsQuantized(In(k, Carrier(k))) THEN "f32"
        ELSE Element(Operand(In(k, Carrier(k))).type)
  BY <1>3, InputReal DEF Node
<1>5. QED
  BY <1>1, <1>2, <1>4 DEF Computed, SelfTyped

LEMMA QuantizeFits ==
  ASSUME NEW i, IsQuantized(i), NEW n, n.scale = Real
  PROVE  QuantizeNode(n, i, Element(Operand(i).type)) = Fit(i)
BY DEF QuantizeNode, Fit, Node

\* Results that have the type of an input.
LEMMA BaseFits ==
  ASSUME TypeOK, FitOK, NEW k \in Ops, ~Faulty(k), ~Borrowed(k), Op(k).kind \notin SelfTyped
  PROVE  BaseNode(k) = Fit(Op(k).outs[1])
<1> DEFINE i == In(k, Carrier(k))
           o == Op(k).outs[1]
<1>1. Operand(o).type = Operand(i).type
  BY ResultOf DEF TypeOK
<1>2. Operand(o).type \in TensorTypes \ {PerChannel}
  BY OutTypes, FirstOut DEF TypeOK
<1>3. Computed(k) = Node(IF IsQuantized(i) THEN "f32" ELSE Element(Operand(i).type), Real)
  BY ComputedReal
<1>4. BaseNode(k) = IF Operand(o).type \in ResultTypes
                    THEN QuantizeNode(Computed(k), o, Element(Operand(o).type))
                    ELSE Computed(k)
  BY DEF BaseNode, SelfTyped
<1>5. Operand(o).type \in ResultTypes <=> IsQuantized(o)
  BY <1>2 DEF ResultTypes, IsQuantized
<1>6. CASE IsQuantized(o)
  <2>1. Computed(k).scale = Real
    BY <1>3 DEF Node
  <2>2. QED
    BY <1>4, <1>5, <1>6, <2>1, QuantizeFits
<1>7. CASE ~IsQuantized(o)
  <2>1. ~IsQuantized(i)
    BY <1>1, <1>7 DEF IsQuantized
  <2>2. QED
    BY <1>1, <1>3, <1>4, <1>5, <1>7, <2>1 DEF Fit
<1>8. QED
  BY <1>6, <1>7

\* Results whose type the operation gives.
LEMMA SelfTypedFits ==
  ASSUME TypeOK, FitOK, NEW k \in Ops, ~Faulty(k), ~Defective(k),
         Op(k).kind \in Comparisons \cup {"ARGMAX", "ARGMIN", "DEQUANTIZE"}
  PROVE  BaseNode(k) = Fit(Op(k).outs[1])
<1> DEFINE o == Op(k).outs[1]
<1>1. 0 \in ReadsOf(k).nodes
  BY ReadsInRange DEF TypeOK
<1>2. CASE Op(k).kind = "DEQUANTIZE"
  <2>1. Operand(o).type \in {"TENSOR_FLOAT32", "TENSOR_FLOAT16"}
    BY <1>2, ResultOf DEF TypeOK
  <2>2. RawNode(k, 0) = Fit(In(k, 0))
    BY <1>1, InputReal
  <2>3. BaseNode(k) =
          Node(IF Operand(o).type = "TENSOR_FLOAT16" THEN "f16" ELSE "f32", Real)
    BY <1>2, <2>1, <2>2 DEF BaseNode, DequantizeNode, ResultTypes, QuantizedTypes, PerChannel
  <2>4. QED
    BY <2>1, <2>3 DEF Fit, Element, IsQuantized, QuantizedTypes, PerChannel
<1>3. CASE Op(k).kind \in Comparisons \cup {"ARGMAX", "ARGMIN"}
  <2>1. \A p \in ReadsOf(k).nodes : InputNode(k, p).scale = Real
    BY InputReal DEF Node
  <2>2. ~BorrowsScale(k)
    BY <1>3 DEF BorrowsScale, Convolutions, Comparisons
  <2>3. CASE Op(k).kind \in Comparisons
    <3>1. Operand(o).type = "TENSOR_BOOL8"
      BY <2>3, ResultOf DEF TypeOK
    <3>2. Computed(k) = Node("boolean", Real)
      BY <2>1, <2>2, <2>3 DEF Computed, Comparisons
    <3>3. BaseNode(k) = Computed(k)
      BY <2>3, <3>1 DEF BaseNode, ResultTypes, QuantizedTypes, PerChannel, Comparisons
    <3>4. QED
      BY <3>1, <3>2, <3>3 DEF Fit, Element, IsQuantized, QuantizedTypes, PerChannel
  <2>4. CASE Op(k).kind \in {"ARGMAX", "ARGMIN"}
    <3>1. Operand(o).type = "TENSOR_INT32"
      BY <2>4, ResultOf DEF TypeOK
    <3>2. Computed(k) = Node("i32", Real)
      BY <2>1, <2>2, <2>4 DEF Computed, Comparisons
    <3>3. BaseNode(k) = Computed(k)
      BY <2>4, <3>1 DEF BaseNode, ResultTypes, QuantizedTypes, PerChannel
    <3>4. QED
      BY <3>1, <3>2, <3>3 DEF Fit, Element, IsQuantized, QuantizedTypes, PerChannel
  <2>5. QED
    BY <1>3, <2>3, <2>4
<1>4. QED
  BY <1>2, <1>3

\* QUANTIZE, SPLIT and TOPK_V2, which connect themselves.
LEMMA OwnFits ==
  ASSUME TypeOK, FitOK, NEW k \in Ops, ~Faulty(k), ~Defective(k), NEW j \in DOMAIN Op(k).outs
  PROVE  /\ Op(k).kind = "QUANTIZE" =>
               QuantizeNode(InputNode(k, 0), Op(k).outs[1], "u8") = Fit(Op(k).outs[1])
         /\ Op(k).kind = "SPLIT" => SplitNode(k) = Null \/ SplitNode(k) = Fit(Op(k).outs[j])
         /\ Op(k).kind = "TOPK_V2" => TopKNode(k, j) = Null \/ TopKNode(k, j) = Fit(Op(k).outs[j])
<1>1. RawNode(k, 0) = Fit(In(k, 0)) /\ InputNode(k, 0).scale = Real
  BY ReadsInRange, InputReal DEF TypeOK, Node
<1>2. ASSUME Op(k).kind = "QUANTIZE"
      PROVE  QuantizeNode(InputNode(k, 0), Op(k).outs[1], "u8") = Fit(Op(k).outs[1])
  <2> DEFINE o == Op(k).outs[1]
  <2>1. Operand(o).type = "TENSOR_QUANT8_ASYMM"
    BY <1>2 DEF Defective, SignedAsUnsigned
  <2>2. IsQuantized(o)
    BY <2>1 DEF IsQuantized, QuantizedTypes
  <2>3. Element(Operand(o).type) = "u8"
    BY <2>1 DEF Element, PerChannel
  <2>4. QED
    BY <1>1, <2>2, <2>3, QuantizeFits
<1>3. ASSUME Op(k).kind = "SPLIT"
      PROVE  SplitNode(k) = Null \/ SplitNode(k) = Fit(Op(k).outs[j])
  <2> DEFINE i == In(k, 0)
             o == Op(k).outs[j]
  <2>1. Operand(o).type = Operand(i).type /\ Operand(o).scale = Operand(i).scale
    BY <1>3, ResultOf DEF TypeOK
  <2>2. Operand(i).type # "TENSOR_QUANT8_ASYMM_SIGNED"
    BY <1>3 DEF Defective, SignedAsUnsigned
  <2>3. SplitNode(k) = Null \/ SplitNode(k) = Node(Element(Operand(i).type), Fit(i).scale)
    BY <1>1, <2>2 DEF SplitNode
  <2>4. QED
    BY <2>1, <2>3 DEF Fit, Node, IsQuantized
<1>4. ASSUME Op(k).kind = "TOPK_V2"
      PROVE  TopKNode(k, j) = Null \/ TopKNode(k, j) = Fit(Op(k).outs[j])
  <2> DEFINE o == Op(k).outs[j]
             n == Node(Element(Operand(o).type), IF j = 1 THEN InputNode(k, 0).scale ELSE Real)
  <2>1. n.scale = Real /\ n.elem = Element(Operand(o).type)
        /\ n = Node(Element(Operand(o).type), Real)
    BY <1>1 DEF Node
  <2>2. IsQuantized(o) => QuantizeNode(n, o, n.elem) = Fit(o)
    BY <2>1, QuantizeFits
  <2>3. ~IsQuantized(o) => n = Fit(o)
    BY <2>1 DEF Fit
  <2>4. TopKNode(k, j) \in {Null, IF IsQuantized(o) THEN QuantizeNode(n, o, n.elem) ELSE n}
    BY DEF TopKNode
  <2>5. QED
    BY <2>2, <2>3, <2>4
<1>5. QED
  BY <1>2, <1>3, <1>4

\* One node is set for the operations that are not among these.
LEMMA OneOut ==
  ASSUME Admitted(model), NEW k \in Ops,
         Op(k).kind \notin Recurrent \cup {"TOPK_V2", "SPLIT"}
  PROVE  DOMAIN Op(k).outs = {1}
<1>1. Op(k).outs \in Seq(Nat \ {0}) /\ Typed(model, k)
  BY OpTypes
<1>2. Len(Op(k).outs) = 1
  BY <1>1 DEF Typed, Op
<1>3. QED
  BY <1>1, <1>2

\* The results of a recurrent network are floating-point numbers, like its input.
LEMMA RecurrentFits ==
  ASSUME TypeOK, FitOK, NEW k \in Ops, ~Faulty(k), NEW j \in DOMAIN Op(k).outs,
         Op(k).kind \in Recurrent
  PROVE  Computed(k) = Fit(Op(k).outs[j])
<1> DEFINE i == In(k, 0)
           o == Op(k).outs[j]
<1>1. Typed(model, k)
  BY OpTypes DEF TypeOK
<1>2. Operand(o).type = Operand(i).type
  BY <1>1 DEF Typed, Op, Operand, In, Comparisons, Recurrent
<1>3. Operand(i).type \in {"TENSOR_FLOAT32", "TENSOR_FLOAT16"}
  BY <1>1 DEF Typed, Op, Operand, In
<1>4. ~IsQuantized(i) /\ ~IsQuantized(o)
  BY <1>2, <1>3 DEF IsQuantized, QuantizedTypes, PerChannel
<1>5. Op(k).kind \notin SelfTyped /\ ~Borrowed(k) /\ Carrier(k) = 0
  BY DEF Recurrent, SelfTyped, Comparisons, Borrowed, BorrowsScale, Convolutions, Carrier
<1>6. Computed(k) = Node(Element(Operand(i).type), Real)
  BY <1>4, <1>5, ComputedReal
<1>7. QED
  BY <1>2, <1>4, <1>6 DEF Fit

LEMMA OutputFits ==
  ASSUME TypeOK, FitOK, NEW k \in Ops, ~Faulty(k), ~Defective(k), NEW j \in DOMAIN Op(k).outs,
         Op(k).kind # "CAST"
  PROVE  OutputNode(k, j) = Null \/ OutputNode(k, j) = Fit(Op(k).outs[j])
<1>1. CASE Op(k).kind = "QUANTIZE"
  <2>1. j = 1
    BY <1>1, OneOut DEF TypeOK, Recurrent
  <2>2. QED
    BY <1>1, <2>1, OwnFits DEF OutputNode, Recurrent
<1>2. CASE Op(k).kind \in {"SPLIT", "TOPK_V2"}
  BY <1>2, OwnFits DEF OutputNode, Recurrent
<1>3. CASE Op(k).kind \in Recurrent
  <2>1. OutputNode(k, j) = Computed(k)
    BY <1>3 DEF OutputNode, Recurrent
  <2>2. QED
    BY <1>3, <2>1, RecurrentFits
<1>4. CASE Op(k).kind \notin Recurrent \cup {"QUANTIZE", "SPLIT", "TOPK_V2"}
  <2>1. j = 1
    BY <1>4, OneOut DEF TypeOK
  <2>2. OutputNode(k, j) = BaseNode(k)
    BY <1>4 DEF OutputNode
  <2>3. BaseNode(k) = Fit(Op(k).outs[1])
    <3>1. CASE Op(k).kind \in Comparisons \cup {"ARGMAX", "ARGMIN", "DEQUANTIZE"}
      BY <3>1, SelfTypedFits
    <3>2. CASE Op(k).kind \notin Comparisons \cup {"ARGMAX", "ARGMIN", "DEQUANTIZE"}
      <4>1. Op(k).kind \notin SelfTyped
        BY <1>4, <3>2 DEF SelfTyped
      <4>2. ~Borrowed(k)
        BY DEF Defective
      <4>3. QED
        BY <4>1, <4>2, BaseFits
    <3>3. QED
      BY <3>1, <3>2
  <2>4. QED
    BY <2>1, <2>2, <2>3
<1>5. QED
  BY <1>1, <1>2, <1>3, <1>4

LEMMA CastFits ==
  ASSUME TypeOK, FitOK, NEW k \in Ops, Op(k).kind = "CAST", ~Defective(k), NEW same \in SameType(k)
  PROVE  CastNode(k, same) = Null \/ CastNode(k, same) = Fit(Op(k).outs[1])
<1> DEFINE i == In(k, 0)
           o == Op(k).outs[1]
           n == RawNode(k, 0)
<1>1. i \in Operands /\ n \in NodeType \cup {Null} /\ Operand(i).scale \in Scales
  BY ReadsInRange, RawTypes, FitTypes DEF TypeOK, NodesTyped
<1>2. n = Null \/ n = Fit(i)
  <2>1. Source(i) = Fit(i) \/ Source(i) = Null
    BY DEF Source
  <2>2. nodes[i] # Null => nodes[i] = Fit(i)
    BY <1>1 DEF FitOK
  <2>3. n \in {Source(i), nodes[i]}
    BY DEF RawNode
  <2>4. QED
    BY <2>1, <2>2, <2>3
<1>3. Fit(i).scale # Wrong /\ Fit(i).elem = Element(Operand(i).type)
  BY <1>1, SentinelsAssumption DEF Fit, Node
<1>4. same \in BOOLEAN
  BY DEF SameType
<1>5. same => Element(Operand(i).type) = Fit(o).elem
  BY <1>4 DEF Defective, Miscast, Fit, Node
<1>6. QED
  BY <1>2, <1>3, <1>5 DEF CastNode

-----------------------------------------------------------------------------
(* NodesFitOperands.                                                       *)

Harmless == \A k \in Ops : ~Defective(k)

FInv == TypeOK /\ (Harmless => FitOK)

LEMMA SameModel ==
  ASSUME model' = model
  PROVE  /\ Operands' = Operands /\ Ops' = Ops
         /\ Harmless' <=> Harmless
         /\ \A i : Fit(i)' = Fit(i)
<1>1. /\ Operands' = Operands /\ Ops' = Ops
      /\ \A i : Operand(i)' = Operand(i)
      /\ \A k : Op(k)' = Op(k)
      /\ \A k, p : In(k, p)' = In(k, p)
  BY DEF Operands, Ops, Operand, Op, In
<1>2. \A k : Borrowed(k)' <=> Borrowed(k)
  BY <1>1 DEF Borrowed, BorrowsScale, BorrowedRight
<1>3. \A k : SignedAsUnsigned(k)' <=> SignedAsUnsigned(k)
  BY <1>1 DEF SignedAsUnsigned
<1>4. \A k : Miscast(k)' <=> Miscast(k)
  BY <1>1 DEF Miscast, SameType, Compared
<1>5. Harmless' <=> Harmless
  BY <1>1, <1>2, <1>3, <1>4 DEF Harmless, Defective
<1>6. QED
  BY <1>1, <1>5 DEF Fit, IsQuantized

LEMMA FInvInit ==
  ASSUME Init
  PROVE  FitOK
BY DEF Init, FitOK

\* An operation sets the nodes of its results.
LEMMA ConnectFits ==
  ASSUME TypeOK, FitOK, NEW k \in Ops, NEW made, Connect(k, made),
         \A j \in DOMAIN Op(k).outs : made[j] = Null \/ made[j] = Fit(Op(k).outs[j])
  PROVE  FitOK'
<1>1. model' = model
  BY DEF Connect
<1>2. Operands' = Operands /\ \A i : Fit(i)' = Fit(i)
  BY <1>1, SameModel
<1>3. ASSUME NEW i \in Operands, nodes'[i] # Null
      PROVE  nodes'[i] = Fit(i)
  <2> DEFINE J == {j \in DOMAIN Op(k).outs : Op(k).outs[j] = i}
  <2>1. CASE \E j \in DOMAIN Op(k).outs : Op(k).outs[j] = i
    <3> DEFINE c == CHOOSE j \in DOMAIN Op(k).outs : Op(k).outs[j] = i
    <3>1. c \in DOMAIN Op(k).outs /\ Op(k).outs[c] = i
      BY <2>1
    <3>2. nodes'[i] = made[c]
      BY <1>3, <2>1 DEF Connect
    <3>3. QED
      BY <1>3, <3>1, <3>2
  <2>2. CASE ~\E j \in DOMAIN Op(k).outs : Op(k).outs[j] = i
    <3>1. nodes'[i] = nodes[i]
      BY <1>3, <2>2 DEF Connect
    <3>2. QED
      BY <1>3, <3>1 DEF FitOK
  <2>3. QED
    BY <2>1, <2>2
<1>4. QED
  BY <1>2, <1>3 DEF FitOK

LEMMA InputsFit ==
  ASSUME TypeOK, CreateInputParams
  PROVE  FitOK'
<1>1. model' = model
  BY DEF CreateInputParams
<1>2. Operands' = Operands /\ \A i : Fit(i)' = Fit(i)
  BY <1>1, SameModel
<1>3. ASSUME NEW i \in Operands, nodes'[i] # Null
      PROVE  nodes'[i] = Fit(i)
  <2>1. nodes'[i] \in {Source(i), Null}
    BY <1>3 DEF CreateInputParams
  <2>2. QED
    BY <1>3, <2>1 DEF Source
<1>4. QED
  BY <1>2, <1>3 DEF FitOK

LEMMA SameNodes ==
  ASSUME FitOK, UNCHANGED <<model, nodes>>
  PROVE  FitOK'
<1>1. Operands' = Operands /\ \A i : Fit(i)' = Fit(i)
  BY SameModel
<1>2. QED
  BY <1>1 DEF FitOK

LEMMA ConnectOperationFits ==
  ASSUME TypeOK, FitOK, Harmless, ConnectOperation
  PROVE  FitOK'
<1>1. PICK k \in Ops : k = at.k
  BY DEF TypeOK
<1>2. CASE ~Faulty(k) /\ Connect(k, [j \in DOMAIN Op(k).outs |-> OutputNode(k, j)])
  <2> DEFINE made == [j \in DOMAIN Op(k).outs |-> OutputNode(k, j)]
  <2>1. ~Defective(k)
    BY DEF Harmless
  <2>2. Op(k).kind # "CAST"
    BY <1>1 DEF ConnectOperation
  <2>3. \A j \in DOMAIN Op(k).outs : made[j] = Null \/ made[j] = Fit(Op(k).outs[j])
    BY <1>2, <2>1, <2>2, OutputFits
  <2>4. Connect(k, made)
    BY <1>2
  <2>5. QED
    BY <2>3, <2>4, ConnectFits
<1>3. CASE Refuse \/ Down
  BY <1>3, SameNodes DEF Refuse, Down
<1>4. QED
  BY <1>1, <1>2, <1>3 DEF ConnectOperation

LEMMA ConnectCastFits ==
  ASSUME TypeOK, FitOK, Harmless, ConnectCast
  PROVE  FitOK'
<1>1. PICK k \in Ops : k = at.k
  BY DEF TypeOK
<1>2. ASSUME NEW same \in SameType(k), Connect(k, <<CastNode(k, same)>>)
      PROVE  FitOK'
  <2> DEFINE made == <<CastNode(k, same)>>
  <2>1. ~Defective(k)
    BY DEF Harmless
  <2>2. Op(k).kind = "CAST"
    BY <1>1 DEF ConnectCast
  <2>3. made[1] = Null \/ made[1] = Fit(Op(k).outs[1])
    BY <2>1, <2>2, CastFits
  <2>4. DOMAIN Op(k).outs = {1}
    BY <2>2, OneOut DEF TypeOK, Recurrent
  <2>5. \A j \in DOMAIN Op(k).outs : made[j] = Null \/ made[j] = Fit(Op(k).outs[j])
    BY <2>3, <2>4
  <2>6. Connect(k, made)
    BY <1>2
  <2>7. QED
    BY <2>5, <2>6, ConnectFits
<1>3. CASE Refuse \/ Down
  BY <1>3, SameNodes DEF Refuse, Down
<1>4. QED
  BY <1>1, <1>2, <1>3 DEF ConnectCast

\* A step keeps the model, so harmless models stay harmless.
LEMMA FInvNext ==
  ASSUME TypeOK, TypeOK', FInv, [Next]_vars
  PROVE  FInv'
<1>1. model' = model
  BY DEF Next, Validate, CreateInputParams, ConnectOperation, ConnectCast, Finished, Connect,
     Refuse, Down, vars
<1>2. Harmless' <=> Harmless
  BY <1>1, SameModel
<1>3. ASSUME Harmless
      PROVE  FitOK'
  <2>1. FitOK
    BY <1>3 DEF FInv
  <2>2. CASE Validate
    BY <2>1, <2>2, SameNodes DEF Validate, Refuse, Down
  <2>3. CASE CreateInputParams
    BY <2>3, InputsFit
  <2>4. CASE ConnectOperation
    BY <1>3, <2>1, <2>4, ConnectOperationFits
  <2>5. CASE ConnectCast
    BY <1>3, <2>1, <2>5, ConnectCastFits
  <2>6. CASE Finished \/ UNCHANGED vars
    BY <2>1, <2>6, SameNodes DEF Finished, vars
  <2>7. QED
    BY <2>2, <2>3, <2>4, <2>5, <2>6 DEF Next
<1>4. QED
  BY <1>2, <1>3 DEF FInv

\* In a model without the three defects, whatever its operations, every node has the
\* element type of its operand and stands for the operand's numbers: NodesFitOperands.
THEOREM NodesFit == Spec => []NodesFitOperands
<1>1. Init => TypeOK /\ FInv
  BY InitTypes, FInvInit DEF FInv
<1>2. FInv /\ TypeOK' /\ [Next]_vars => FInv'
  BY FInvNext DEF FInv
<1>3. FInv => NodesFitOperands
  BY DEF FInv, Harmless, FitOK, NodesFitOperands
<1>4. QED
  BY <1>1, <1>2, <1>3, TypeCorrect, PTL DEF Spec

-----------------------------------------------------------------------------
(* The arguments of convolutions and pools.                                *)

\* Where the arguments of an operation begin, and how many stand for its padding and
\* follow its strides.
FirstAt(k) ==
    IF Op(k).kind \in Pools THEN 1
    ELSE IF Op(k).kind = "TRANSPOSE_CONV_2D" /\ ~NnapiExplicit(k) THEN 4 ELSE 3
Paddings(k) == IF NnapiExplicit(k) THEN 4 ELSE 1
Extra(k) ==
    CASE Op(k).kind \in Pools -> 2
      [] Op(k).kind \in {"DEPTHWISE_CONV_2D", "GROUPED_CONV_2D"} -> 1
      [] OTHER -> 0

ArgumentNames ==
    {"padding_left", "padding_right", "padding_top", "padding_bottom", "stride_width",
     "stride_height", "multiplier", "groups", "activation", "layout", "dilation_width",
     "dilation_height"}
NamesOf(k) ==
    ArgumentNames \cup (IF NnapiExplicit(k) THEN {} ELSE {"padding_scheme"})
        \cup (IF Op(k).kind \in Pools THEN {"filter_width", "filter_height"} ELSE {})

\* From position p on, NNAPI has these names.
Run(k, p, names) ==
    /\ names \in Seq(NamesOf(k))
    /\ \A j \in 1 .. Len(names) : NnapiPosition(k, names[j]) = p + j - 1

LEMMA Positions ==
  ASSUME NEW k
  PROVE  /\ FirstAt(k) \in Nat /\ Paddings(k) \in Nat /\ Extra(k) \in Nat
         /\ NnapiPosition(k, "padding_left") = FirstAt(k)
         /\ NnapiPosition(k, "padding_right") = FirstAt(k) + 1
         /\ NnapiPosition(k, "padding_top") = FirstAt(k) + 2
         /\ NnapiPosition(k, "padding_bottom") = FirstAt(k) + 3
         /\ NnapiPosition(k, "padding_scheme") = FirstAt(k)
         /\ NnapiPosition(k, "stride_width") = FirstAt(k) + Paddings(k)
         /\ NnapiPosition(k, "stride_height") = FirstAt(k) + Paddings(k) + 1
         /\ NnapiPosition(k, "filter_width") = FirstAt(k) + Paddings(k) + 2
         /\ NnapiPosition(k, "multiplier") = FirstAt(k) + Paddings(k) + 2
         /\ NnapiPosition(k, "groups") = FirstAt(k) + Paddings(k) + 2
         /\ NnapiPosition(k, "filter_height") = FirstAt(k) + Paddings(k) + 3
         /\ NnapiPosition(k, "activation") = FirstAt(k) + Paddings(k) + 2 + Extra(k)
         /\ NnapiPosition(k, "layout") = FirstAt(k) + Paddings(k) + 3 + Extra(k)
         /\ NnapiPosition(k, "dilation_width") = FirstAt(k) + Paddings(k) + 4 + Extra(k)
         /\ NnapiPosition(k, "dilation_height") = FirstAt(k) + Paddings(k) + 5 + Extra(k)
BY SMT DEF NnapiPosition, FirstAt, Paddings, Extra

\* Short lists of names.
LEMMA One ==
  ASSUME NEW k, NEW p \in Nat, NEW x \in NamesOf(k), NnapiPosition(k, x) = p
  PROVE  Run(k, p, <<x>>) /\ Len(<<x>>) = 1
<1>1. <<x>> \in Seq(NamesOf(k)) /\ Len(<<x>>) = 1 /\ <<x>>[1] = x
  OBVIOUS
<1>2. ASSUME NEW j \in 1 .. 1
      PROVE  NnapiPosition(k, <<x>>[j]) = p + j - 1
  <2>1. j = 1 /\ p + j - 1 = p
    BY SMT
  <2>2. QED
    BY <1>1, <2>1, Zenon
<1>3. QED
  BY <1>1, <1>2, Zenon DEF Run

LEMMA Two ==
  ASSUME NEW k, NEW p \in Nat, NEW x \in NamesOf(k), NEW y \in NamesOf(k),
         NnapiPosition(k, x) = p, NnapiPosition(k, y) = p + 1
  PROVE  Run(k, p, <<x, y>>) /\ Len(<<x, y>>) = 2
<1> DEFINE s == <<x, y>>
<1>1. s \in Seq(NamesOf(k)) /\ Len(s) = 2 /\ s[1] = x /\ s[2] = y
  OBVIOUS
<1> HIDE DEF s
<1>2. ASSUME NEW j \in 1 .. 2
      PROVE  NnapiPosition(k, s[j]) = p + j - 1
  <2>1. \/ j = 1 /\ p + j - 1 = p
        \/ j = 2 /\ p + j - 1 = p + 1
    BY SMT
  <2>2. QED
    BY <1>1, <2>1, Zenon
<1>3. QED
  BY <1>1, <1>2, Zenon DEF Run, s

LEMMA Four ==
  ASSUME NEW k, NEW p \in Nat, NEW u \in NamesOf(k), NEW v \in NamesOf(k),
         NEW x \in NamesOf(k), NEW y \in NamesOf(k),
         NnapiPosition(k, u) = p, NnapiPosition(k, v) = p + 1,
         NnapiPosition(k, x) = p + 2, NnapiPosition(k, y) = p + 3
  PROVE  Run(k, p, <<u, v, x, y>>) /\ Len(<<u, v, x, y>>) = 4
<1> DEFINE s == <<u, v, x, y>>
<1>1. s \in Seq(NamesOf(k)) /\ Len(s) = 4 /\ s[1] = u /\ s[2] = v /\ s[3] = x /\ s[4] = y
  OBVIOUS
<1> HIDE DEF s
<1>2. ASSUME NEW j \in 1 .. 4
      PROVE  NnapiPosition(k, s[j]) = p + j - 1
  <2>1. \/ j = 1 /\ p + j - 1 = p
        \/ j = 2 /\ p + j - 1 = p + 1
        \/ j = 3 /\ p + j - 1 = p + 2
        \/ j = 4 /\ p + j - 1 = p + 3
    BY SMT
  <2>2. QED
    BY <1>1, <2>1, Zenon
<1>3. QED
  BY <1>1, <1>2, Zenon DEF Run, s

\* The names of the code, one list after the other.
LEMMA Lists ==
  ASSUME NEW k
  PROVE  /\ Run(k, FirstAt(k), Padding) /\ Len(Padding) = 4
         /\ ~NnapiExplicit(k) => Run(k, FirstAt(k), Scheme)
         /\ Len(Scheme) = 1
         /\ Run(k, FirstAt(k) + Paddings(k), Strides) /\ Len(Strides) = 2
         /\ Run(k, FirstAt(k) + Paddings(k) + 2, <<"multiplier">>)
         /\ Run(k, FirstAt(k) + Paddings(k) + 2, <<"groups">>)
         /\ Len(<<"multiplier">>) = 1 /\ Len(<<"groups">>) = 1
         /\ Op(k).kind \in Pools =>
               Run(k, FirstAt(k) + Paddings(k) + 2, Filter) /\ Len(Filter) = 2
         /\ Run(k, FirstAt(k) + Paddings(k) + 2 + Extra(k), Layout) /\ Len(Layout) = 2
         /\ Run(k, FirstAt(k) + Paddings(k) + 4 + Extra(k), Dilations) /\ Len(Dilations) = 2
<1>1. Run(k, FirstAt(k), Padding) /\ Len(Padding) = 4
  <2>1. PICK p \in Nat : p = FirstAt(k)
    BY Positions
  <2>2. /\ NnapiPosition(k, "padding_left") = p
        /\ NnapiPosition(k, "padding_right") = p + 1
        /\ NnapiPosition(k, "padding_top") = p + 2
        /\ NnapiPosition(k, "padding_bottom") = p + 3
    BY <2>1, Positions
  <2>3. /\ "padding_left" \in NamesOf(k) /\ "padding_right" \in NamesOf(k)
        /\ "padding_top" \in NamesOf(k) /\ "padding_bottom" \in NamesOf(k)
    BY Zenon DEF NamesOf, ArgumentNames
  <2>4. QED
    BY <2>1, <2>2, <2>3, Four, Zenon DEF Padding
<1>2. ~NnapiExplicit(k) => Run(k, FirstAt(k), Scheme)
  BY Positions, One DEF Scheme, NamesOf
<1>13. Len(Scheme) = 1
  BY DEF Scheme
<1>3. PICK q \in Nat : q = FirstAt(k) + Paddings(k)
  BY Positions
<1>4. Run(k, q, Strides) /\ Len(Strides) = 2
  BY <1>3, Positions, Two DEF Strides, NamesOf, ArgumentNames
<1>5. PICK r \in Nat : r = q + 2
  OBVIOUS
<1>6. /\ NnapiPosition(k, "multiplier") = r /\ NnapiPosition(k, "groups") = r
      /\ NnapiPosition(k, "filter_width") = r /\ NnapiPosition(k, "filter_height") = r + 1
      /\ NnapiPosition(k, "activation") = r + Extra(k)
      /\ NnapiPosition(k, "layout") = r + Extra(k) + 1
      /\ NnapiPosition(k, "dilation_width") = r + 2 + Extra(k)
      /\ NnapiPosition(k, "dilation_height") = r + 2 + Extra(k) + 1
      /\ r + Extra(k) \in Nat /\ r + 2 + Extra(k) \in Nat
  BY <1>3, <1>5, Positions
<1>7. /\ Run(k, r, <<"multiplier">>) /\ Run(k, r, <<"groups">>)
      /\ Len(<<"multiplier">>) = 1 /\ Len(<<"groups">>) = 1
  BY <1>6, One DEF NamesOf, ArgumentNames
<1>8. Op(k).kind \in Pools => Run(k, r, Filter) /\ Len(Filter) = 2
  BY <1>6, Two DEF Filter, NamesOf
<1>9. Run(k, r + Extra(k), Layout) /\ Len(Layout) = 2
  BY <1>6, Two DEF Layout, NamesOf, ArgumentNames
<1>10. Run(k, r + 2 + Extra(k), Dilations) /\ Len(Dilations) = 2
  BY <1>6, Two DEF Dilations, NamesOf, ArgumentNames
<1>11. /\ FirstAt(k) + Paddings(k) + 2 = r
       /\ FirstAt(k) + Paddings(k) + 2 + Extra(k) = r + Extra(k)
       /\ FirstAt(k) + Paddings(k) + 4 + Extra(k) = r + 2 + Extra(k)
  BY <1>3, <1>5, Positions
<1>12. QED
  BY <1>1, <1>2, <1>3, <1>4, <1>7, <1>8, <1>9, <1>10, <1>11, <1>13, Zenon

LEMMA Runs ==
  ASSUME NEW k, NEW p \in Nat, NEW q \in Nat, NEW s, NEW t,
         Run(k, p, s), Run(k, q, t), q = p + Len(s)
  PROVE  Run(k, p, s \o t) /\ Len(s \o t) = Len(s) + Len(t)
<1>1. s \in Seq(NamesOf(k)) /\ t \in Seq(NamesOf(k)) /\ Len(s) \in Nat /\ Len(t) \in Nat
  BY DEF Run
<1>2. s \o t \in Seq(NamesOf(k)) /\ Len(s \o t) = Len(s) + Len(t)
  BY <1>1
<1>3. ASSUME NEW j \in 1 .. Len(s) + Len(t)
      PROVE  NnapiPosition(k, (s \o t)[j]) = p + j - 1
  <2>1. CASE j <= Len(s)
    BY <1>1, <2>1 DEF Run
  <2>2. CASE j > Len(s)
    <3>1. (s \o t)[j] = t[j - Len(s)] /\ j - Len(s) \in 1 .. Len(t)
      BY <1>1, <2>2
    <3>2. NnapiPosition(k, t[j - Len(s)]) = q + (j - Len(s)) - 1
      BY <3>1, Zenon DEF Run
    <3>3. QED
      BY <1>1, <3>1, <3>2
  <2>3. QED
    BY <1>1, <2>1, <2>2
<1>4. QED
  BY <1>2, <1>3 DEF Run

\* The function From() makes of such names has them at the positions of NNAPI.
LEMMA FromAgrees ==
  ASSUME NEW k, NEW a, Len(a) \in Nat, NEW p \in Nat, p < Len(a), NEW names,
         Run(k, p, names), Len(names) > 0
  PROVE  LET given == From(a, p, names) IN
         /\ \A name \in DOMAIN given :
               given[name] = NnapiPosition(k, name) /\ given[name] \in 0..(Len(a) - 1)
         /\ DOMAIN given # {} /\ DOMAIN given \subseteq NamesOf(k)
<1> DEFINE given == {j \in DOMAIN names : p + j - 1 < Len(a)}
           of(n) == CHOOSE j \in given : names[j] = n
<1>1. /\ DOMAIN names = 1 .. Len(names) /\ Len(names) \in Nat
      /\ \A j \in 1 .. Len(names) : NnapiPosition(k, names[j]) = p + j - 1
  BY DEF Run
<1>2. From(a, p, names) = [n \in {names[j] : j \in given} |-> p + of(n) - 1]
  BY Zenon DEF From
<1>3. ASSUME NEW n \in {names[j] : j \in given}
      PROVE  p + of(n) - 1 = NnapiPosition(k, n) /\ p + of(n) - 1 \in 0..(Len(a) - 1)
  <2>1. \E j \in given : names[j] = n
    OBVIOUS
  <2>2. of(n) \in given /\ names[of(n)] = n
    BY <2>1, Zenon
  <2>3. p + of(n) - 1 = NnapiPosition(k, n)
    BY <1>1, <2>2, Zenon
  <2>4. PICK j : j = of(n) /\ j \in given
    BY <2>2
  <2>5. p + j - 1 \in 0..(Len(a) - 1)
    BY <1>1, <2>4
  <2>6. QED
    BY <2>3, <2>4, <2>5
<1>4. 1 \in given
  BY <1>1, SMT
<1>5. names[1] \in DOMAIN From(a, p, names)
  <2>1. names[1] \in {names[j] : j \in given}
    BY <1>4
  <2>2. QED
    BY <1>2, <2>1, Zenon
<1>6. DOMAIN From(a, p, names) \subseteq NamesOf(k)
  <2>1. \A j \in 1 .. Len(names) : names[j] \in NamesOf(k)
    BY DEF Run
  <2>2. {names[j] : j \in given} \subseteq NamesOf(k)
    BY <1>1, <2>1
  <2>3. QED
    BY <1>2, <2>2, Zenon
<1> HIDE DEF given, of
<1>7. ASSUME NEW n \in DOMAIN From(a, p, names)
      PROVE  /\ From(a, p, names)[n] = NnapiPosition(k, n)
             /\ From(a, p, names)[n] \in 0..(Len(a) - 1)
  BY <1>2, <1>3
<1>8. QED
  BY <1>5, <1>6, <1>7

\* One list after another, by their lengths.
LEMMA Joined ==
  ASSUME NEW k, NEW p \in Nat, NEW s, NEW t, Run(k, p, s), Run(k, p + Len(s), t)
  PROVE  Run(k, p, s \o t) /\ Len(s \o t) = Len(s) + Len(t)
<1>1. Len(s) \in Nat
  BY DEF Run
<1>2. PICK q \in Nat : q = p + Len(s)
  BY <1>1
<1>3. QED
  BY <1>2, Runs

\* The lists of the code, each with the padding of the operation's form.
LEMMA NamesAgree ==
  ASSUME NEW k, NEW head, Run(k, FirstAt(k), head), Len(head) = Paddings(k)
  PROVE  /\ Extra(k) = 0 =>
              /\ Run(k, FirstAt(k), head \o Strides \o Layout \o Dilations)
              /\ Len(head \o Strides \o Layout \o Dilations) > 0
              /\ Run(k, FirstAt(k), head \o Strides \o Layout)
              /\ Len(head \o Strides \o Layout) > 0
              /\ Run(k, FirstAt(k), head \o Strides)
              /\ Len(head \o Strides) > 0
         /\ Extra(k) = 1 =>
              /\ Run(k, FirstAt(k), head \o Strides \o <<"multiplier">> \o Layout \o Dilations)
              /\ Len(head \o Strides \o <<"multiplier">> \o Layout \o Dilations) > 0
              /\ Run(k, FirstAt(k), head \o Strides \o <<"groups">> \o Layout)
              /\ Len(head \o Strides \o <<"groups">> \o Layout) > 0
         /\ Extra(k) = 2 =>
              /\ Run(k, FirstAt(k), head \o Strides \o Filter \o Layout)
              /\ Len(head \o Strides \o Filter \o Layout) > 0
<1>1. PICK f \in Nat, p \in Nat, x \in Nat : f = FirstAt(k) /\ p = Paddings(k) /\ x = Extra(k)
  BY Positions
<1>2. PICK g \in Nat, h \in Nat : g = f + p /\ h = g + 2
  OBVIOUS
<1>3. PICK l \in Nat, d \in Nat : l = h + x /\ d = l + 2
  OBVIOUS
<1>4. f + p = g /\ f + p + 2 = h /\ f + p + 2 + x = l /\ f + p + 4 + x = d
  BY <1>2, <1>3
<1>5. /\ Run(k, f, head) /\ Len(head) = p
      /\ Run(k, f + p, Strides) /\ Len(Strides) = 2
      /\ Run(k, f + p + 2, <<"multiplier">>) /\ Len(<<"multiplier">>) = 1
      /\ Run(k, f + p + 2, <<"groups">>) /\ Len(<<"groups">>) = 1
      /\ Op(k).kind \in Pools => Run(k, f + p + 2, Filter) /\ Len(Filter) = 2
      /\ Run(k, f + p + 2 + x, Layout) /\ Len(Layout) = 2
      /\ Run(k, f + p + 4 + x, Dilations) /\ Len(Dilations) = 2
  BY <1>1, Lists, Zenon
<1>6. /\ Run(k, g, Strides) /\ Run(k, h, <<"multiplier">>) /\ Run(k, h, <<"groups">>)
      /\ Op(k).kind \in Pools => Run(k, h, Filter)
      /\ Run(k, l, Layout) /\ Run(k, d, Dilations)
  BY <1>4, <1>5, Zenon
<1>7. PICK n2 \in Nat, n3 \in Nat, n4 \in Nat, n5 \in Nat :
          n2 = p + 2 /\ n3 = p + 3 /\ n4 = p + 4 /\ n5 = p + 5
  OBVIOUS
<1>8. /\ h = f + n2
      /\ x = 0 => l = f + n2 /\ d = f + n4
      /\ x = 1 => l = f + n3 /\ d = f + n5
      /\ x = 2 => l = f + n4
  BY <1>2, <1>3, <1>7
<1>9. /\ n2 + 2 = n4 /\ n2 + 1 = n3 /\ n3 + 2 = n5
      /\ n4 + 2 > 0 /\ n5 + 2 > 0 /\ n2 > 0 /\ n4 > 0 /\ n5 > 0
  BY <1>7
<1>10. 1 \in Nat /\ 2 \in Nat
  OBVIOUS
<1> DEFINE s == head \o Strides
<1>11. Run(k, f, s) /\ Len(s) = n2
  <2>1. Run(k, f, s) /\ Len(s) = p + 2
    <3>1. Run(k, f, head) /\ Run(k, f + Len(head), Strides)
      BY <1>2, <1>5, <1>6, <1>10, Zenon
    <3>2. Run(k, f, s) /\ Len(s) = Len(head) + Len(Strides)
      BY <3>1, <1>1, Joined
    <3>3. QED
      BY <1>2, <1>5, <1>6, <1>10, <3>2, Zenon
  <2>2. QED
    BY <1>7, <2>1, Zenon
<1> HIDE DEF s
<1>12. CASE x = 0
  <2> DEFINE u == s \o Layout
             v == u \o Dilations
  <2>1. l = f + n2 /\ d = f + n4
    BY <1>12, <1>8
  <2>2. Run(k, f, u) /\ Len(u) = n2 + 2
    <3>1. Run(k, f, s) /\ Run(k, f + Len(s), Layout)
      BY <1>5, <1>6, <1>11, <1>10, <2>1, Zenon
    <3>2. Run(k, f, u) /\ Len(u) = Len(s) + Len(Layout)
      BY <3>1, <1>1, Joined
    <3>3. QED
      BY <1>5, <1>6, <1>11, <1>10, <2>1, <3>2, Zenon
  <2>3. Run(k, f, u) /\ Len(u) = n4
    BY <1>9, <2>2, Zenon
  <2> HIDE DEF u
  <2>4. Run(k, f, v) /\ Len(v) = n4 + 2
    <3>1. Run(k, f, u) /\ Run(k, f + Len(u), Dilations)
      BY <1>5, <1>6, <1>10, <2>1, <2>3, Zenon
    <3>2. Run(k, f, v) /\ Len(v) = Len(u) + Len(Dilations)
      BY <3>1, <1>1, Joined
    <3>3. QED
      BY <1>5, <1>6, <1>10, <2>1, <2>3, <3>2, Zenon
  <2> HIDE DEF v
  <2>5. Extra(k) = 0 /\ 0 # 1 /\ 0 # 2
    BY <1>1, <1>12
  <2>6. QED
    BY <1>1, <1>11, <1>9, <2>3, <2>4, <2>5, Zenon DEF s, u, v
<1>13. CASE x = 1
  <2> DEFINE u == s \o <<"multiplier">>
             w == u \o Layout
             v == s \o <<"groups">>
             y == v \o Layout
             z == w \o Dilations
  <2>1. l = f + n3 /\ d = f + n5
    BY <1>13, <1>8
  <2>2. Run(k, f, u) /\ Len(u) = n2 + 1
    <3>1. Run(k, f, s) /\ Run(k, f + Len(s), <<"multiplier">>)
      BY <1>5, <1>6, <1>11, <1>8, <1>10, Zenon
    <3>2. Run(k, f, u) /\ Len(u) = Len(s) + Len(<<"multiplier">>)
      BY <3>1, <1>1, Joined
    <3>3. QED
      BY <1>5, <1>6, <1>11, <1>8, <1>10, <3>2, Zenon
  <2>3. Run(k, f, v) /\ Len(v) = n2 + 1
    <3>1. Run(k, f, s) /\ Run(k, f + Len(s), <<"groups">>)
      BY <1>5, <1>6, <1>11, <1>8, <1>10, Zenon
    <3>2. Run(k, f, v) /\ Len(v) = Len(s) + Len(<<"groups">>)
      BY <3>1, <1>1, Joined
    <3>3. QED
      BY <1>5, <1>6, <1>11, <1>8, <1>10, <3>2, Zenon
  <2>4. Run(k, f, u) /\ Len(u) = n3 /\ Run(k, f, v) /\ Len(v) = n3
    BY <1>9, <2>2, <2>3, Zenon
  <2> HIDE DEF u, v
  <2>5. Run(k, f, w) /\ Len(w) = n3 + 2
    <3>1. Run(k, f, u) /\ Run(k, f + Len(u), Layout)
      BY <1>5, <1>6, <1>10, <2>1, <2>4, Zenon
    <3>2. Run(k, f, w) /\ Len(w) = Len(u) + Len(Layout)
      BY <3>1, <1>1, Joined
    <3>3. QED
      BY <1>5, <1>6, <1>10, <2>1, <2>4, <3>2, Zenon
  <2>6. Run(k, f, y) /\ Len(y) = n3 + 2
    <3>1. Run(k, f, v) /\ Run(k, f + Len(v), Layout)
      BY <1>5, <1>6, <1>10, <2>1, <2>4, Zenon
    <3>2. Run(k, f, y) /\ Len(y) = Len(v) + Len(Layout)
      BY <3>1, <1>1, Joined
    <3>3. QED
      BY <1>5, <1>6, <1>10, <2>1, <2>4, <3>2, Zenon
  <2>7. Run(k, f, w) /\ Len(w) = n5 /\ Run(k, f, y) /\ Len(y) = n5
    BY <1>9, <2>5, <2>6, Zenon
  <2> HIDE DEF w, y
  <2>8. Run(k, f, z) /\ Len(z) = n5 + 2
    <3>1. Run(k, f, w) /\ Run(k, f + Len(w), Dilations)
      BY <1>5, <1>6, <1>10, <2>1, <2>7, Zenon
    <3>2. Run(k, f, z) /\ Len(z) = Len(w) + Len(Dilations)
      BY <3>1, <1>1, Joined
    <3>3. QED
      BY <1>5, <1>6, <1>10, <2>1, <2>7, <3>2, Zenon
  <2> HIDE DEF z
  <2>9. Extra(k) = 1 /\ 0 # 1 /\ 1 # 2
    BY <1>1, <1>13
  <2>10. QED
    BY <1>1, <1>9, <2>7, <2>8, <2>9, Zenon DEF s, u, v, w, y, z
<1>14. CASE x = 2
  <2> DEFINE u == s \o Filter
             v == u \o Layout
  <2>1. l = f + n4 /\ Op(k).kind \in Pools
    BY <1>1, <1>14, <1>8, SMT DEF Extra
  <2>2. Run(k, f, u) /\ Len(u) = n2 + 2
    <3>1. Run(k, f, s) /\ Run(k, f + Len(s), Filter)
      BY <1>5, <1>6, <1>11, <1>8, <1>10, <2>1, Zenon
    <3>2. Run(k, f, u) /\ Len(u) = Len(s) + Len(Filter)
      BY <3>1, <1>1, Joined
    <3>3. QED
      BY <1>5, <1>6, <1>11, <1>8, <1>10, <2>1, <3>2, Zenon
  <2>3. Run(k, f, u) /\ Len(u) = n4
    BY <1>9, <2>2, Zenon
  <2> HIDE DEF u
  <2>4. Run(k, f, v) /\ Len(v) = n4 + 2
    <3>1. Run(k, f, u) /\ Run(k, f + Len(u), Layout)
      BY <1>5, <1>6, <1>10, <2>1, <2>3, Zenon
    <3>2. Run(k, f, v) /\ Len(v) = Len(u) + Len(Layout)
      BY <3>1, <1>1, Joined
    <3>3. QED
      BY <1>5, <1>6, <1>10, <2>1, <2>3, <3>2, Zenon
  <2> HIDE DEF v
  <2>5. Extra(k) = 2 /\ 0 # 2 /\ 1 # 2
    BY <1>1, <1>14
  <2>6. QED
    BY <1>1, <1>9, <2>4, <2>5, Zenon DEF s, u, v
<1>15. Extra(k) \in {0, 1, 2}
  BY SMT DEF Extra
<1>16. QED
  BY <1>1, <1>12, <1>13, <1>14, <1>15, Zenon

\* The arguments that createNode() reads are those NNAPI has under their names.
Named(k) ==
    LET given == ArgumentsOf(k) IN
    /\ \A name \in DOMAIN given :
          given[name] = NnapiPosition(k, name) /\ given[name] \in 0..(Len(Arguments(k)) - 1)
    /\ DOMAIN given # {} /\ DOMAIN given \subseteq NamesOf(k)

LEMMA FormAgrees ==
  ASSUME NEW k, Len(Arguments(k)) \in Nat, FirstAt(k) < Len(Arguments(k)), NEW names,
         Run(k, FirstAt(k), names), Len(names) > 0,
         ArgumentsOf(k) = From(Arguments(k), FirstAt(k), names)
  PROVE  Named(k)
<1> DEFINE a == Arguments(k)
<1>1. FirstAt(k) \in Nat
  BY Positions
<1>2. PICK p \in Nat : p = FirstAt(k)
  BY <1>1
<1>3. LET given == From(a, p, names) IN
      /\ \A name \in DOMAIN given :
            given[name] = NnapiPosition(k, name) /\ given[name] \in 0..(Len(a) - 1)
      /\ DOMAIN given # {} /\ DOMAIN given \subseteq NamesOf(k)
  <2>1. p < Len(a) /\ Run(k, p, names)
    BY <1>2, Zenon
  <2>2. QED
    BY <2>1, FromAgrees
<1>4. QED
  BY <1>2, <1>3, Zenon DEF Named

\* Which of the two paddings an operation begins with.
LEMMA HeadAgrees ==
  ASSUME NEW k
  PROVE  /\ NnapiExplicit(k) => Run(k, FirstAt(k), Padding) /\ Len(Padding) = Paddings(k)
         /\ ~NnapiExplicit(k) => Run(k, FirstAt(k), Scheme) /\ Len(Scheme) = Paddings(k)
BY Lists, Zenon DEF Paddings

LEMMA GivenTypes ==
  ASSUME Admitted(model), NEW k \in Ops
  PROVE  /\ Len(Arguments(k)) = Len(Op(k).ins) /\ Len(Arguments(k)) \in Nat
         /\ \A p \in Nat : p < Len(Arguments(k)) =>
               Input(Arguments(k), p) = model.operands[Op(k).ins[p + 1]]
<1>1. /\ Len(Arguments(k)) = Len(Op(k).ins) /\ Len(Arguments(k)) \in Nat
      /\ DOMAIN Op(k).ins = 1..Len(Op(k).ins)
  BY InRange, Zenon
<1>2. ASSUME NEW p \in Nat, p < Len(Arguments(k))
      PROVE  Input(Arguments(k), p) = model.operands[Op(k).ins[p + 1]]
  <2>1. p + 1 \in DOMAIN Op(k).ins
    BY <1>1, <1>2
  <2>2. QED
    BY <2>1, Zenon DEF Input, Arguments, Operand
<1>3. QED
  BY <1>1, <1>2

LEMMA ConvAgrees ==
  ASSUME Admitted(model), Formed(model), NEW k \in Ops, Op(k).kind = "CONV_2D"
  PROVE  Named(k)
<1> DEFINE a == Arguments(k)
           given == model.operands[Op(k).ins[7 + 1]].type
<1>1. PICK n \in Nat : n = Len(a) /\ n = Len(Op(k).ins)
  BY GivenTypes
<1>2. PICK t : t = Input(a, 7).type
  OBVIOUS
<1>3. /\ FirstAt(k) = 3 /\ Extra(k) = 0
      /\ NnapiExplicit(k) <=> n >= 10 /\ t = "INT32"
  BY <1>1, <1>2, SMT DEF FirstAt, Extra, Pools, NnapiExplicit
<1>4. ArgumentsOf(k) = Conv2dArguments(a)
  BY SMT DEF ArgumentsOf, Pools
<1>5. \/ n \in 10..13 /\ given = "INT32"
      \/ n \in 7..10 /\ (n >= 8 => given = "BOOL")
  BY <1>1, Zenon DEF Formed, Op, Ops
<1>6. n > 7 => t = given
  BY <1>1, <1>2, GivenTypes
<1> HIDE DEF given, a
<1>7. \/ n \in 10..13 /\ t = "INT32"
      \/ n \in 7..10 /\ (n >= 8 => t = "BOOL")
  BY <1>5, <1>6
<1>8. CASE n \in 10..13 /\ t = "INT32"
  <2>1. NnapiExplicit(k) /\ 3 < n
    BY <1>3, <1>8
  <2>2. ArgumentsOf(k) = From(a, 3, Padding \o Strides \o Layout \o Dilations)
    <3>1. n \in 10..13 /\ ~(t = "BOOL")
      BY <1>8
    <3>2. QED
      BY <1>1, <1>2, <1>4, <3>1, Zenon DEF Conv2dArguments, InputType
  <2>3. QED
    BY <1>1, <1>3, <2>1, <2>2, HeadAgrees, NamesAgree, FormAgrees DEF a
<1>9. CASE n \in 7..10 /\ (n >= 8 => t = "BOOL")
  <2>1. ~NnapiExplicit(k) /\ 3 < n
    BY <1>3, <1>9
  <2>2. ArgumentsOf(k) = From(a, 3, Scheme \o Strides \o Layout \o Dilations)
    <3>1. ~(n \in 10..13 /\ ~(t = "BOOL")) /\ n \in 7..10
      BY <1>9
    <3>2. QED
      BY <1>1, <1>2, <1>4, <3>1, Zenon DEF Conv2dArguments, InputType
  <2>3. QED
    BY <1>1, <1>3, <2>1, <2>2, HeadAgrees, NamesAgree, FormAgrees DEF a
<1>10. QED
  BY <1>7, <1>8, <1>9

LEMMA DepthwiseAgrees ==
  ASSUME Admitted(model), Formed(model), NEW k \in Ops, Op(k).kind = "DEPTHWISE_CONV_2D"
  PROVE  Named(k)
<1> DEFINE a == Arguments(k)
           given == model.operands[Op(k).ins[8 + 1]].type
<1>1. PICK n \in Nat : n = Len(a) /\ n = Len(Op(k).ins)
  BY GivenTypes
<1>2. PICK t : t = Input(a, 8).type
  OBVIOUS
<1>3. /\ FirstAt(k) = 3 /\ Extra(k) = 1
      /\ NnapiExplicit(k) <=> n >= 11 /\ t = "INT32"
  BY <1>1, <1>2, SMT DEF FirstAt, Extra, Pools, NnapiExplicit
<1>4. ArgumentsOf(k) = DepthwiseArguments(a)
  BY SMT DEF ArgumentsOf, Pools
<1>5. \/ n \in 11..14 /\ given = "INT32"
      \/ n \in 8..11 /\ (n >= 9 => given = "BOOL")
  BY <1>1, Zenon DEF Formed, Op, Ops
<1>6. n > 8 => t = given
  BY <1>1, <1>2, GivenTypes
<1> HIDE DEF given, a
<1>7. \/ n \in 11..14 /\ t = "INT32"
      \/ n \in 8..11 /\ (n >= 9 => t = "BOOL")
  BY <1>5, <1>6
<1>8. CASE n \in 11..14 /\ t = "INT32"
  <2>1. NnapiExplicit(k) /\ 3 < n
    BY <1>3, <1>8
  <2>2. ArgumentsOf(k) = From(a, 3, Padding \o Strides \o <<"multiplier">> \o Layout \o Dilations)
    <3>1. n \in 11..14 /\ ~(t = "BOOL")
      BY <1>8
    <3>2. QED
      BY <1>1, <1>2, <1>4, <3>1, Zenon DEF DepthwiseArguments, InputType
  <2>3. QED
    BY <1>1, <1>3, <2>1, <2>2, HeadAgrees, NamesAgree, FormAgrees DEF a
<1>9. CASE n \in 8..11 /\ (n >= 9 => t = "BOOL")
  <2>1. ~NnapiExplicit(k) /\ 3 < n
    BY <1>3, <1>9
  <2>2. ArgumentsOf(k) = From(a, 3, Scheme \o Strides \o <<"multiplier">> \o Layout \o Dilations)
    <3>1. ~(n \in 11..14 /\ ~(t = "BOOL")) /\ n \in 8..11
      BY <1>9
    <3>2. QED
      BY <1>1, <1>2, <1>4, <3>1, Zenon DEF DepthwiseArguments, InputType
  <2>3. QED
    BY <1>1, <1>3, <2>1, <2>2, HeadAgrees, NamesAgree, FormAgrees DEF a
<1>10. QED
  BY <1>7, <1>8, <1>9

LEMMA GroupedAgrees ==
  ASSUME Admitted(model), Formed(model), NEW k \in Ops, Op(k).kind = "GROUPED_CONV_2D"
  PROVE  Named(k)
<1> DEFINE a == Arguments(k)
           given == model.operands[Op(k).ins[8 + 1]].type
<1>1. PICK n \in Nat : n = Len(a) /\ n = Len(Op(k).ins)
  BY GivenTypes
<1>2. PICK t : t = Input(a, 8).type
  OBVIOUS
<1>3. /\ FirstAt(k) = 3 /\ Extra(k) = 1
      /\ NnapiExplicit(k) <=> n >= 11 /\ t = "INT32"
  BY <1>1, <1>2, SMT DEF FirstAt, Extra, Pools, NnapiExplicit
<1>4. ArgumentsOf(k) = GroupedArguments(a)
  BY SMT DEF ArgumentsOf, Pools
<1>5. \/ n = 12 /\ given = "INT32"
      \/ n = 9 /\ given = "BOOL"
  BY <1>1, Zenon DEF Formed, Op, Ops
<1>6. n > 8 => t = given
  BY <1>1, <1>2, GivenTypes
<1> HIDE DEF given, a
<1>7. \/ n = 12 /\ t = "INT32"
      \/ n = 9 /\ t = "BOOL"
  BY <1>5, <1>6
<1>8. CASE n = 12 /\ t = "INT32"
  <2>1. NnapiExplicit(k) /\ 3 < n
    BY <1>3, <1>8
  <2>2. ArgumentsOf(k) = From(a, 3, Padding \o Strides \o <<"groups">> \o Layout)
    <3>1. n \in 11..12 /\ ~(t = "BOOL")
      BY <1>8
    <3>2. QED
      BY <1>1, <1>2, <1>4, <3>1, Zenon DEF GroupedArguments, InputType
  <2>3. QED
    BY <1>1, <1>3, <2>1, <2>2, HeadAgrees, NamesAgree, FormAgrees DEF a
<1>9. CASE n = 9 /\ t = "BOOL"
  <2>1. ~NnapiExplicit(k) /\ 3 < n
    BY <1>3, <1>9
  <2>2. ArgumentsOf(k) = From(a, 3, Scheme \o Strides \o <<"groups">> \o Layout)
    <3>1. ~(n \in 11..12 /\ ~(t = "BOOL")) /\ n \in 8..9
      BY <1>9
    <3>2. QED
      BY <1>1, <1>2, <1>4, <3>1, Zenon DEF GroupedArguments, InputType
  <2>3. QED
    BY <1>1, <1>3, <2>1, <2>2, HeadAgrees, NamesAgree, FormAgrees DEF a
<1>10. QED
  BY <1>7, <1>8, <1>9

LEMMA TransposeAgrees ==
  ASSUME Admitted(model), Formed(model), NEW k \in Ops, Op(k).kind = "TRANSPOSE_CONV_2D"
  PROVE  Named(k)
<1> DEFINE a == Arguments(k)
<1>1. PICK n \in Nat : n = Len(a) /\ n = Len(Op(k).ins)
  BY GivenTypes
<1>2. n \in {9, 11}
  BY <1>1, Zenon DEF Formed, Op, Ops
<1>3. /\ FirstAt(k) = (IF n >= 10 THEN 3 ELSE 4) /\ Extra(k) = 0
      /\ NnapiExplicit(k) <=> n >= 10
  BY <1>1, SMT DEF FirstAt, Extra, Pools, NnapiExplicit
<1>4. ArgumentsOf(k) = TransposeConvArguments(a)
  BY SMT DEF ArgumentsOf, Pools
<1> HIDE DEF a
<1>5. CASE n = 11
  <2>1. NnapiExplicit(k) /\ FirstAt(k) = 3 /\ 3 < n
    BY <1>3, <1>5
  <2>2. ArgumentsOf(k) = From(a, 3, Padding \o Strides \o Layout)
    <3>1. n # 9
      BY <1>5
    <3>2. QED
      BY <1>1, <1>4, <1>5, <3>1, Zenon DEF TransposeConvArguments
  <2>3. QED
    BY <1>1, <1>3, <2>1, <2>2, HeadAgrees, NamesAgree, FormAgrees DEF a
<1>6. CASE n = 9
  <2>1. ~NnapiExplicit(k) /\ FirstAt(k) = 4 /\ 4 < n
    BY <1>3, <1>6
  <2>2. ArgumentsOf(k) = From(a, 4, Scheme \o Strides \o Layout)
    <3>1. n # 11
      BY <1>6
    <3>2. QED
      BY <1>1, <1>4, <1>6, <3>1, Zenon DEF TransposeConvArguments
  <2>3. QED
    BY <1>1, <1>3, <2>1, <2>2, HeadAgrees, NamesAgree, FormAgrees DEF a
<1>7. QED
  BY <1>2, <1>5, <1>6

LEMMA PoolAgrees ==
  ASSUME Admitted(model), Formed(model), NEW k \in Ops, Op(k).kind \in Pools
  PROVE  Named(k)
<1> DEFINE a == Arguments(k)
<1>1. PICK n \in Nat : n = Len(a) /\ n = Len(Op(k).ins)
  BY GivenTypes
<1>2. n \in {7, 8, 10, 11}
  BY <1>1, Zenon DEF Formed, Op, Ops
<1>3. /\ FirstAt(k) = 1 /\ Extra(k) = 2
      /\ NnapiExplicit(k) <=> n >= 10
  BY <1>1, SMT DEF FirstAt, Extra, Pools, NnapiExplicit
<1>4. ArgumentsOf(k) = PoolArguments(a)
  BY SMT DEF ArgumentsOf, Pools
<1> HIDE DEF a
<1>5. CASE n \in 10..11
  <2>1. NnapiExplicit(k) /\ 1 < n
    BY <1>3, <1>5
  <2>2. ArgumentsOf(k) = From(a, 1, Padding \o Strides \o Filter \o Layout)
    <3>1. n \notin 7..8
      BY <1>5
    <3>2. QED
      BY <1>1, <1>4, <1>5, <3>1, Zenon DEF PoolArguments
  <2>3. QED
    BY <1>1, <1>3, <2>1, <2>2, HeadAgrees, NamesAgree, FormAgrees DEF a
<1>6. CASE n \in 7..8
  <2>1. ~NnapiExplicit(k) /\ 1 < n
    BY <1>3, <1>6
  <2>2. ArgumentsOf(k) = From(a, 1, Scheme \o Strides \o Filter \o Layout)
    <3>1. n \notin 10..11
      BY <1>6
    <3>2. QED
      BY <1>1, <1>4, <1>6, <3>1, Zenon DEF PoolArguments
  <2>3. QED
    BY <1>1, <1>3, <2>1, <2>2, HeadAgrees, NamesAgree, FormAgrees DEF a
<1>7. QED
  BY <1>2, <1>5, <1>6

\* The axes of data and filters, and back.
LEMMA DataAgree ==
  ASSUME NEW k, Op(k).nchw \in BOOLEAN
  PROVE  DataAxes(k) = NCHW /\ ResultAxes(k) = (IF Op(k).nchw THEN NCHW ELSE NHWC)
<1>1. Transposed("NHWC_NCHW", NHWC) = NCHW
  <2>1. Transposed("NHWC_NCHW", NHWC) = [j \in 1..4 |-> NHWC[<<0, 3, 1, 2>>[j] + 1]]
    BY DEF Transposed
  <2>2. QED
    BY <2>1 DEF NHWC, NCHW
<1>2. Transposed("NCHW_NHWC", NCHW) = NHWC
  <2>1. Transposed("NCHW_NHWC", NCHW) = [j \in 1..4 |-> NCHW[<<0, 2, 3, 1>>[j] + 1]]
    BY DEF Transposed
  <2>2. QED
    BY <2>1 DEF NHWC, NCHW
<1>3. DataAxes(k) = NCHW
  BY <1>1, Zenon DEF DataAxes
<1>4. QED
  BY <1>2, <1>3, Zenon DEF ResultAxes

LEMMA FiltersAgree ==
  ASSUME NEW k, Op(k).kind \in Convolutions
  PROVE  FilterAxes(k, NnapiFilter(k)) = NgraphFilter(k)
<1>1. Transposed("OHWI_OIHW", <<"O", "H", "W", "I">>) = <<"O", "I", "H", "W">>
  <2>1. Transposed("OHWI_OIHW", <<"O", "H", "W", "I">>) =
           [j \in 1..4 |-> <<"O", "H", "W", "I">>[<<0, 3, 1, 2>>[j] + 1]]
    BY DEF Transposed
  <2>2. QED
    BY <2>1
<1>2. Transposed("IHWO_OIHW", <<"O", "H", "W", "I">>) = <<"I", "O", "H", "W">>
  <2>1. Transposed("IHWO_OIHW", <<"O", "H", "W", "I">>) =
           [j \in 1..4 |-> <<"O", "H", "W", "I">>[<<3, 0, 1, 2>>[j] + 1]]
    BY DEF Transposed
  <2>2. QED
    BY <2>1
<1>3. Transposed("IHWO_OIHW", <<"I", "H", "W", "O">>) = <<"O", "I", "H", "W">>
  <2>1. Transposed("IHWO_OIHW", <<"I", "H", "W", "O">>) =
           [j \in 1..4 |-> <<"I", "H", "W", "O">>[<<3, 0, 1, 2>>[j] + 1]]
    BY DEF Transposed
  <2>2. QED
    BY <2>1
<1>4. Op(k).kind \in {"CONV_2D", "DEPTHWISE_CONV_2D", "GROUPED_CONV_2D", "TRANSPOSE_CONV_2D"}
  BY DEF Convolutions
<1>5. QED
  BY <1>1, <1>2, <1>3, <1>4 DEF FilterAxes, NnapiFilter, NgraphFilter

\* Data, filters and attributes of every operation are translated as AxesAgree says,
\* whatever the model and its optional arguments.
THEOREM AxesStayAgreed == Spec => []AxesAgree
<1>1. Init => model \in Models
  BY DEF Init
<1>2. model \in Models /\ [Next]_vars => (model \in Models)'
  BY ModelKept
<1>3. model \in Models /\ TypeOK => AxesAgree
  <2> SUFFICES ASSUME Formed(model), TypeOK, NEW k \in Connected
               PROVE  /\ Op(k).kind \in SpatialKinds =>
                           /\ DataAxes(k) = NCHW
                           /\ ResultAxes(k) = (IF Op(k).nchw THEN NCHW ELSE NHWC)
                      /\ Op(k).kind \in Convolutions =>
                           FilterAxes(k, NnapiFilter(k)) = NgraphFilter(k)
                      /\ Op(k).kind \in Convolutions \cup Pools =>
                           /\ Named(k)
                           /\ \A attribute \in DOMAIN NgraphAttributes :
                                 \/ AttributesPassed(k)[attribute] = NgraphAttributes[attribute]
                                 \/ Op(k).kind = "GROUPED_CONV_2D"
    BY FormsAssumption, Zenon DEF AxesAgree, Named
  <2>1. Admitted(model) /\ k \in Ops
    BY DEF TypeOK, Connected
  <2>2. Op(k).nchw \in BOOLEAN
    <3>1. model.ops \in Seq(OpType)
      BY <2>1 DEF Admitted, ModelType
    <3>2. model.ops[k] \in OpType
      BY <2>1, <3>1 DEF Ops
    <3>3. QED
      BY <3>2 DEF OpType, Op
  <2>3. ASSUME Op(k).kind \in Convolutions \cup Pools
        PROVE  Named(k)
    BY <2>1, <2>3, ConvAgrees, DepthwiseAgrees, GroupedAgrees, TransposeAgrees, PoolAgrees
       DEF Convolutions
  <2>4. Op(k).kind = "GROUPED_CONV_2D" \/ AttributesPassed(k) = NgraphAttributes
    BY Zenon DEF AttributesPassed, HeightFirst, NgraphAttributes
  <2>5. DataAxes(k) = NCHW /\ ResultAxes(k) = (IF Op(k).nchw THEN NCHW ELSE NHWC)
    BY <2>2, DataAgree
  <2>6. Op(k).kind \in Convolutions => FilterAxes(k, NnapiFilter(k)) = NgraphFilter(k)
    BY FiltersAgree, Zenon
  <2>7. QED
    BY <2>3, <2>4, <2>5, <2>6, Zenon
<1>4. QED
  BY <1>1, <1>2, <1>3, TypeCorrect, PTL DEF Spec

-----------------------------------------------------------------------------
(* What is read of arguments.                                              *)

\* The arguments of an operation have the types NNAPI gives them.
Given(k) ==
    LET a == Arguments(k) IN
    \A p \in 0..(Len(a) - 1) :
        /\ Input(a, p) = Operand(In(k, p)) /\ In(k, p) \in Operands
        /\ Input(a, p).type \in
              TypesAt(Op(k).kind, Len(a), p, Input(a, 0).type = "TENSOR_FLOAT16")
        /\ Input(a, p).rank = 0 \/ Input(a, p).rank >= RankAt(Op(k).kind, p)

\* A scalar has the width it is read with.
Wide(a, r) ==
    /\ r.at \in 0..(Len(a) - 1)
    /\ Input(a, r.at).type \in ScalarTypes /\ Size(Input(a, r.at).type) = r.bytes

LEMMA WordsWide ==
  ASSUME NEW a, Len(a) \in Nat, NEW S \in SUBSET Nat,
         \A p \in S : p < Len(a) => Input(a, p).type \in {"INT32", "FLOAT32"}
  PROVE  \A r \in Words(a, S) : Wide(a, r)
<1> SUFFICES ASSUME NEW r \in Words(a, S)
             PROVE  Wide(a, r)
  OBVIOUS
<1>1. PICK p \in S : p < Len(a) /\ r = [at |-> p, bytes |-> 4]
  BY DEF Words, Parse
<1>2. PICK t : t = Input(a, p).type
  OBVIOUS
<1>3. t \in {"INT32", "FLOAT32"} /\ r.at = p /\ r.bytes = 4
  BY <1>1, <1>2
<1>4. Size(t) = 4 /\ t \in ScalarTypes
  BY <1>3 DEF Size, ScalarTypes
<1>5. p \in 0..(Len(a) - 1)
  BY <1>1
<1>6. QED
  BY <1>2, <1>3, <1>4, <1>5, Zenon DEF Wide

LEMMA HalvesWide ==
  ASSUME NEW a, Len(a) \in Nat, NEW S \in SUBSET Nat,
         \A p \in S : p < Len(a) => Input(a, p).type = "FLOAT16"
  PROVE  \A r \in Halves(a, S) : Wide(a, r)
<1> SUFFICES ASSUME NEW r \in Halves(a, S)
             PROVE  Wide(a, r)
  OBVIOUS
<1>1. PICK p \in S : p < Len(a) /\ r = [at |-> p, bytes |-> 2]
  BY DEF Halves, Parse
<1>2. Input(a, p).type = "FLOAT16" /\ r.at = p /\ r.bytes = 2
  BY <1>1
<1>3. Size("FLOAT16") = 2 /\ "FLOAT16" \in ScalarTypes
  BY DEF Size, ScalarTypes
<1>4. p \in 0..(Len(a) - 1)
  BY <1>1
<1>5. QED
  BY <1>2, <1>3, <1>4, Zenon DEF Wide

LEMMA BytesWide ==
  ASSUME NEW a, Len(a) \in Nat, NEW S \in SUBSET Nat,
         \A p \in S : p < Len(a) => Input(a, p).type = "BOOL"
  PROVE  \A r \in Bytes(a, S) : Wide(a, r)
<1> SUFFICES ASSUME NEW r \in Bytes(a, S)
             PROVE  Wide(a, r)
  OBVIOUS
<1>1. PICK p \in S : p < Len(a) /\ r = [at |-> p, bytes |-> 1]
  BY DEF Bytes, Parse
<1>2. Input(a, p).type = "BOOL" /\ r.at = p /\ r.bytes = 1
  BY <1>1
<1>3. Size("BOOL") = 1 /\ "BOOL" \in ScalarTypes
  BY DEF Size, ScalarTypes
<1>4. p \in 0..(Len(a) - 1)
  BY <1>1
<1>5. QED
  BY <1>2, <1>3, <1>4, Zenon DEF Wide

\* Scalars, by the operations that read them alike.
AllWide(k) == \A r \in ReadsOf(k).scalars : Wide(Arguments(k), r)

Scalarless ==
    Unary \cup Comparisons \cup Binary \cup
    {"SELECT", "EMBEDDING_LOOKUP", "TRANSPOSE", "SQUEEZE", "PAD", "RESHAPE", "CAST", "DEQUANTIZE",
     "QUANTIZE"}

LEMMA NoneWide ==
  ASSUME NEW k, Op(k).kind \in Scalarless
  PROVE  AllWide(k)
<1>1. CASE Op(k).kind \in Unary \cup Comparisons \cup Binary
  <2>1. ReadsOf(k).scalars = {}
    BY <1>1 DEF ReadsOf, Unary, Comparisons, Binary, Arithmetic, Reductions, Resizes, Reads, Abs,
       Equal
  <2>2. QED
    BY <2>1, Zenon DEF AllWide
<1>2. CASE Op(k).kind \in {"SELECT", "EMBEDDING_LOOKUP", "TRANSPOSE", "SQUEEZE", "PAD", "RESHAPE", "CAST",
                          "DEQUANTIZE", "QUANTIZE"}
  <2>1. ReadsOf(k).scalars = {}
    BY <1>2 DEF ReadsOf, Unary, Comparisons, Binary, Arithmetic, Reductions, Resizes, Reads, Select,
       EmbeddingLookup, Transpose, Squeeze, Pad, Reshape, Cast, Dequantize, Quantize
  <2>2. QED
    BY <2>1, Zenon DEF AllWide
<1>3. QED
  BY <1>1, <1>2 DEF Scalarless

WordReaders ==
    Arithmetic \cup
    {"MEAN", "ARGMAX", "ARGMIN", "GATHER", "EXPAND_DIMS", "TOPK_V2", "SPLIT", "CHANNEL_SHUFFLE",
     "STRIDED_SLICE", "RNN", "UNIDIRECTIONAL_SEQUENCE_RNN", "FULLY_CONNECTED"}

\* Words that are INT32.
LEMMA IntsWide ==
  ASSUME NEW k, Given(k), Len(Arguments(k)) \in Nat, NEW S \in SUBSET Nat,
         \A p \in S : \A half \in BOOLEAN :
            TypesAt(Op(k).kind, Len(Arguments(k)), p, half) = {"INT32"},
         ReadsOf(k).scalars = Words(Arguments(k), S)
  PROVE  AllWide(k)
<1>1. ASSUME NEW p \in S, p < Len(Arguments(k))
      PROVE  Input(Arguments(k), p).type \in {"INT32", "FLOAT32"}
  <2>1. p \in 0..(Len(Arguments(k)) - 1)
    BY <1>1
  <2>2. (Input(Arguments(k), 0).type = "TENSOR_FLOAT16") \in BOOLEAN
    OBVIOUS
  <2>3. Input(Arguments(k), p).type \in {"INT32"}
    BY <2>1, <2>2, Zenon DEF Given
  <2>4. QED
    BY <2>3
<1>2. \A r \in Words(Arguments(k), S) : Wide(Arguments(k), r)
  BY <1>1, WordsWide
<1>3. QED
  BY <1>2, Zenon DEF AllWide

LEMMA WordReadersWide ==
  ASSUME NEW k, Given(k), Len(Arguments(k)) \in Nat, Op(k).kind \in WordReaders
  PROVE  AllWide(k)
<1> DEFINE kind == Op(k).kind
           n == Len(Arguments(k))
<1>1. CASE kind \in Arithmetic
  <2>1. ReadsOf(k).scalars = Words(Arguments(k), {2})
    BY <1>1 DEF ReadsOf, Unary, Comparisons, Binary, Arithmetic, Reductions, Resizes, Reads, Add
  <2>2. \A p \in {2} : \A half \in BOOLEAN : TypesAt(kind, n, p, half) = {"INT32"}
    BY <1>1 DEF TypesAt, Tensors, Flags, Open, Numbers, Unary, Comparisons, Binary, Arithmetic,
       Reductions, Recurrent, Pools, Resizes
  <2>3. {2} \in SUBSET Nat
    OBVIOUS
  <2>4. QED
    BY <2>1, <2>2, <2>3, IntsWide
<1>2. CASE kind = "MEAN"
  <2>1. ReadsOf(k).scalars = Words(Arguments(k), {2})
    BY <1>2 DEF ReadsOf, Unary, Comparisons, Binary, Arithmetic, Reductions, Resizes, Reads, Mean
  <2>2. \A p \in {2} : \A half \in BOOLEAN : TypesAt(kind, n, p, half) = {"INT32"}
    BY <1>2 DEF TypesAt, Tensors, Flags, Open, Numbers, Unary, Comparisons, Binary, Arithmetic,
       Reductions, Recurrent, Pools, Resizes
  <2>3. {2} \in SUBSET Nat
    OBVIOUS
  <2>4. QED
    BY <2>1, <2>2, <2>3, IntsWide
<1>3. CASE kind \in {"ARGMAX", "ARGMIN"}
  <2>1. ReadsOf(k).scalars = Words(Arguments(k), {1})
    BY <1>3 DEF ReadsOf, Unary, Comparisons, Binary, Arithmetic, Reductions, Resizes, Reads, Argmax
  <2>2. \A p \in {1} : \A half \in BOOLEAN : TypesAt(kind, n, p, half) = {"INT32"}
    BY <1>3 DEF TypesAt, Tensors, Flags, Open, Numbers, Unary, Comparisons, Binary, Arithmetic,
       Reductions, Recurrent, Pools, Resizes
  <2>3. {1} \in SUBSET Nat
    OBVIOUS
  <2>4. QED
    BY <2>1, <2>2, <2>3, IntsWide
<1>4. CASE kind = "GATHER"
  <2>1. ReadsOf(k).scalars = Words(Arguments(k), {1})
    BY <1>4 DEF ReadsOf, Unary, Comparisons, Binary, Arithmetic, Reductions, Resizes, Reads, Gather
  <2>2. \A p \in {1} : \A half \in BOOLEAN : TypesAt(kind, n, p, half) = {"INT32"}
    BY <1>4 DEF TypesAt, Tensors, Flags, Open, Numbers, Unary, Comparisons, Binary, Arithmetic,
       Reductions, Recurrent, Pools, Resizes
  <2>3. {1} \in SUBSET Nat
    OBVIOUS
  <2>4. QED
    BY <2>1, <2>2, <2>3, IntsWide
<1>5. CASE kind = "EXPAND_DIMS"
  <2>1. ReadsOf(k).scalars = Words(Arguments(k), {1})
    BY <1>5 DEF ReadsOf, Unary, Comparisons, Binary, Arithmetic, Reductions, Resizes, Reads,
       ExpandDims
  <2>2. \A p \in {1} : \A half \in BOOLEAN : TypesAt(kind, n, p, half) = {"INT32"}
    BY <1>5 DEF TypesAt, Tensors, Flags, Open, Numbers, Unary, Comparisons, Binary, Arithmetic,
       Reductions, Recurrent, Pools, Resizes
  <2>3. {1} \in SUBSET Nat
    OBVIOUS
  <2>4. QED
    BY <2>1, <2>2, <2>3, IntsWide
<1>6. CASE kind = "TOPK_V2"
  <2>1. ReadsOf(k).scalars = Words(Arguments(k), {1})
    BY <1>6 DEF ReadsOf, Unary, Comparisons, Binary, Arithmetic, Reductions, Resizes, Reads, TopkV2
  <2>2. \A p \in {1} : \A half \in BOOLEAN : TypesAt(kind, n, p, half) = {"INT32"}
    BY <1>6 DEF TypesAt, Tensors, Flags, Open, Numbers, Unary, Comparisons, Binary, Arithmetic,
       Reductions, Recurrent, Pools, Resizes
  <2>3. {1} \in SUBSET Nat
    OBVIOUS
  <2>4. QED
    BY <2>1, <2>2, <2>3, IntsWide
<1>7. CASE kind = "SPLIT"
  <2>1. ReadsOf(k).scalars = Words(Arguments(k), {1, 2})
    BY <1>7 DEF ReadsOf, Unary, Comparisons, Binary, Arithmetic, Reductions, Resizes, Reads, Split
  <2>2. \A p \in {1, 2} : \A half \in BOOLEAN : TypesAt(kind, n, p, half) = {"INT32"}
    BY <1>7 DEF TypesAt, Tensors, Flags, Open, Numbers, Unary, Comparisons, Binary, Arithmetic,
       Reductions, Recurrent, Pools, Resizes
  <2>3. {1, 2} \in SUBSET Nat
    OBVIOUS
  <2>4. QED
    BY <2>1, <2>2, <2>3, IntsWide
<1>8. CASE kind = "CHANNEL_SHUFFLE"
  <2>1. ReadsOf(k).scalars = Words(Arguments(k), {1, 2})
    BY <1>8 DEF ReadsOf, Unary, Comparisons, Binary, Arithmetic, Reductions, Resizes, Reads,
       ChannelShuffle
  <2>2. \A p \in {1, 2} : \A half \in BOOLEAN : TypesAt(kind, n, p, half) = {"INT32"}
    BY <1>8 DEF TypesAt, Tensors, Flags, Open, Numbers, Unary, Comparisons, Binary, Arithmetic,
       Reductions, Recurrent, Pools, Resizes
  <2>3. {1, 2} \in SUBSET Nat
    OBVIOUS
  <2>4. QED
    BY <2>1, <2>2, <2>3, IntsWide
<1>9. CASE kind = "STRIDED_SLICE"
  <2>1. ReadsOf(k).scalars = Words(Arguments(k), {4, 5, 6})
    BY <1>9 DEF ReadsOf, Unary, Comparisons, Binary, Arithmetic, Reductions, Resizes, Reads,
       StridedSlice
  <2>2. \A p \in {4, 5, 6} : \A half \in BOOLEAN : TypesAt(kind, n, p, half) = {"INT32"}
    BY <1>9 DEF TypesAt, Tensors, Flags, Open, Numbers, Unary, Comparisons, Binary, Arithmetic,
       Reductions, Recurrent, Pools, Resizes
  <2>3. {4, 5, 6} \in SUBSET Nat
    OBVIOUS
  <2>4. QED
    BY <2>1, <2>2, <2>3, IntsWide
<1>10. CASE kind = "RNN"
  <2>1. ReadsOf(k).scalars = Words(Arguments(k), {5})
    BY <1>10 DEF ReadsOf, Unary, Comparisons, Binary, Arithmetic, Reductions, Resizes, Reads, RNN
  <2>2. \A p \in {5} : \A half \in BOOLEAN : TypesAt(kind, n, p, half) = {"INT32"}
    BY <1>10 DEF TypesAt, Tensors, Flags, Open, Numbers, Unary, Comparisons, Binary, Arithmetic,
       Reductions, Recurrent, Pools, Resizes
  <2>3. {5} \in SUBSET Nat
    OBVIOUS
  <2>4. QED
    BY <2>1, <2>2, <2>3, IntsWide
<1>11. CASE kind = "UNIDIRECTIONAL_SEQUENCE_RNN"
  <2>1. ReadsOf(k).scalars = Words(Arguments(k), {5, 6})
    BY <1>11 DEF ReadsOf, Unary, Comparisons, Binary, Arithmetic, Reductions, Resizes, Reads,
       UnidirectionalSequenceRNN
  <2>2. \A p \in {5, 6} : \A half \in BOOLEAN : TypesAt(kind, n, p, half) = {"INT32"}
    BY <1>11 DEF TypesAt, Tensors, Flags, Open, Numbers, Unary, Comparisons, Binary, Arithmetic,
       Reductions, Recurrent, Pools, Resizes
  <2>3. {5, 6} \in SUBSET Nat
    OBVIOUS
  <2>4. QED
    BY <2>1, <2>2, <2>3, IntsWide
<1>12. CASE kind = "FULLY_CONNECTED"
  <2>1. ReadsOf(k).scalars = Words(Arguments(k), {3})
    BY <1>12 DEF ReadsOf, Unary, Comparisons, Binary, Arithmetic, Reductions, Resizes, Reads,
       FullyConnected
  <2>2. \A p \in {3} : \A half \in BOOLEAN : TypesAt(kind, n, p, half) = {"INT32"}
    BY <1>12 DEF TypesAt, Tensors, Flags, Open, Numbers, Unary, Comparisons, Binary, Arithmetic,
       Reductions, Recurrent, Pools, Resizes
  <2>3. {3} \in SUBSET Nat
    OBVIOUS
  <2>4. QED
    BY <2>1, <2>2, <2>3, IntsWide
<1>13. QED
  BY <1>1, <1>2, <1>3, <1>4, <1>5, <1>6, <1>7, <1>8, <1>9, <1>10, <1>11, <1>12 DEF WordReaders

\* Words and bytes, and halves.
LEMMA MixedWide ==
  ASSUME NEW k, Len(Arguments(k)) \in Nat,
         NEW W \in SUBSET Nat, NEW H \in SUBSET Nat, NEW B \in SUBSET Nat,
         \A p \in W : p < Len(Arguments(k)) =>
            Input(Arguments(k), p).type \in {"INT32", "FLOAT32"},
         \A p \in H : p < Len(Arguments(k)) => Input(Arguments(k), p).type = "FLOAT16",
         \A p \in B : p < Len(Arguments(k)) => Input(Arguments(k), p).type = "BOOL",
         ReadsOf(k).scalars \subseteq
            Words(Arguments(k), W) \cup Halves(Arguments(k), H) \cup Bytes(Arguments(k), B)
  PROVE  AllWide(k)
<1>1. \A r \in Words(Arguments(k), W) : Wide(Arguments(k), r)
  BY WordsWide
<1>2. \A r \in Halves(Arguments(k), H) : Wide(Arguments(k), r)
  BY HalvesWide
<1>3. \A r \in Bytes(Arguments(k), B) : Wide(Arguments(k), r)
  BY BytesWide
<1>4. QED
  BY <1>1, <1>2, <1>3, Zenon DEF AllWide

LEMMA GivenType ==
  ASSUME NEW k, Given(k), Len(Arguments(k)) \in Nat, NEW p \in Nat, p < Len(Arguments(k)),
         NEW T, NEW half \in BOOLEAN, half = (Input(Arguments(k), 0).type = "TENSOR_FLOAT16"),
         TypesAt(Op(k).kind, Len(Arguments(k)), p, half) \subseteq T
  PROVE  Input(Arguments(k), p).type \in T
<1>1. p \in 0..(Len(Arguments(k)) - 1)
  OBVIOUS
<1>2. QED
  BY <1>1, Zenon DEF Given

\* Words and bytes whatever the first argument is.
LEMMA FixedWide ==
  ASSUME NEW k, Given(k), Len(Arguments(k)) \in Nat, NEW W \in SUBSET Nat, NEW B \in SUBSET Nat,
         \A p \in W : \A half \in BOOLEAN :
            TypesAt(Op(k).kind, Len(Arguments(k)), p, half) \subseteq {"INT32", "FLOAT32"},
         \A p \in B : \A half \in BOOLEAN :
            TypesAt(Op(k).kind, Len(Arguments(k)), p, half) \subseteq {"BOOL"},
         ReadsOf(k).scalars \subseteq Words(Arguments(k), W) \cup Bytes(Arguments(k), B)
  PROVE  AllWide(k)
<1>1. PICK half \in BOOLEAN : half = (Input(Arguments(k), 0).type = "TENSOR_FLOAT16")
  OBVIOUS
<1>2. ASSUME NEW p \in W, p < Len(Arguments(k))
      PROVE  Input(Arguments(k), p).type \in {"INT32", "FLOAT32"}
  <2>1. TypesAt(Op(k).kind, Len(Arguments(k)), p, half) \subseteq {"INT32", "FLOAT32"}
    BY Zenon
  <2>2. p \in Nat
    OBVIOUS
  <2>3. QED
    BY <1>1, <1>2, <2>1, <2>2, GivenType, Zenon
<1>3. ASSUME NEW p \in B, p < Len(Arguments(k))
      PROVE  Input(Arguments(k), p).type = "BOOL"
  <2>1. TypesAt(Op(k).kind, Len(Arguments(k)), p, half) \subseteq {"BOOL"}
    BY Zenon
  <2>2. p \in Nat
    OBVIOUS
  <2>3. Input(Arguments(k), p).type \in {"BOOL"}
    BY <1>1, <1>3, <2>1, <2>2, GivenType, Zenon
  <2>4. QED
    BY <2>3
<1>4. {} \in SUBSET Nat /\ \A p \in {} : Input(Arguments(k), p).type = "FLOAT16"
  OBVIOUS
<1>5. ReadsOf(k).scalars \subseteq
         Words(Arguments(k), W) \cup Halves(Arguments(k), {}) \cup Bytes(Arguments(k), B)
  OBVIOUS
<1>6. QED
  BY <1>2, <1>3, <1>4, <1>5, MixedWide

FlagReaders ==
    Reductions \cup
    {"CONCATENATION", "L2_NORMALIZATION", "DEPTH_TO_SPACE", "SPACE_TO_DEPTH", "BATCH_TO_SPACE_ND",
     "SPACE_TO_BATCH_ND"}

LEMMA FlagReadersWide ==
  ASSUME NEW k, Given(k), Len(Arguments(k)) \in Nat, Len(Arguments(k)) >= 1,
         Op(k).kind \in FlagReaders
  PROVE  AllWide(k)
<1> DEFINE kind == Op(k).kind
           n == Len(Arguments(k))
<1>1. CASE kind \in Reductions
  <2>1. ReadsOf(k).scalars \subseteq Words(Arguments(k), {}) \cup Bytes(Arguments(k), {2})
    BY <1>1 DEF ReadsOf, Unary, Comparisons, Binary, Arithmetic, Reductions, Resizes, Reads,
       ReduceSum
  <2>2. /\ \A p \in {} : \A half \in BOOLEAN :
              TypesAt(kind, n, p, half) \subseteq {"INT32", "FLOAT32"}
        /\ \A p \in {2} : \A half \in BOOLEAN : TypesAt(kind, n, p, half) \subseteq {"BOOL"}
    BY <1>1 DEF TypesAt, Tensors, Flags, Open, Numbers, Unary, Comparisons, Binary, Arithmetic,
       Reductions, Recurrent, Pools, Resizes
  <2>3. {} \in SUBSET Nat /\ {2} \in SUBSET Nat
    OBVIOUS
  <2>4. QED
    BY <2>1, <2>2, <2>3, FixedWide, Zenon
<1>2. CASE kind = "CONCATENATION"
  <2>1. ReadsOf(k).scalars \subseteq Words(Arguments(k), {n - 1}) \cup Bytes(Arguments(k), {})
    BY <1>2 DEF ReadsOf, Unary, Comparisons, Binary, Arithmetic, Reductions, Resizes, Reads, Concat
  <2>2. /\ \A p \in {n - 1} : \A half \in BOOLEAN :
              TypesAt(kind, n, p, half) \subseteq {"INT32", "FLOAT32"}
        /\ \A p \in {} : \A half \in BOOLEAN : TypesAt(kind, n, p, half) \subseteq {"BOOL"}
    BY <1>2 DEF TypesAt, Tensors, Flags, Open, Numbers, Unary, Comparisons, Binary, Arithmetic,
       Reductions, Recurrent, Pools, Resizes
  <2>3. {n - 1} \in SUBSET Nat /\ {} \in SUBSET Nat
    OBVIOUS
  <2>4. QED
    BY <2>1, <2>2, <2>3, FixedWide, Zenon
<1>3. CASE kind = "L2_NORMALIZATION"
  <2>1. ReadsOf(k).scalars \subseteq Words(Arguments(k), {1}) \cup Bytes(Arguments(k), {})
    BY <1>3 DEF ReadsOf, Unary, Comparisons, Binary, Arithmetic, Reductions, Resizes, Reads,
       L2Normalization
  <2>2. /\ \A p \in {1} : \A half \in BOOLEAN :
              TypesAt(kind, n, p, half) \subseteq {"INT32", "FLOAT32"}
        /\ \A p \in {} : \A half \in BOOLEAN : TypesAt(kind, n, p, half) \subseteq {"BOOL"}
    BY <1>3 DEF TypesAt, Tensors, Flags, Open, Numbers, Unary, Comparisons, Binary, Arithmetic,
       Reductions, Recurrent, Pools, Resizes
  <2>3. {1} \in SUBSET Nat /\ {} \in SUBSET Nat
    OBVIOUS
  <2>4. QED
    BY <2>1, <2>2, <2>3, FixedWide, Zenon
<1>4. CASE kind \in {"DEPTH_TO_SPACE", "SPACE_TO_DEPTH"}
  <2>1. ReadsOf(k).scalars \subseteq Words(Arguments(k), {1}) \cup Bytes(Arguments(k), {2})
    <3>1. ReadsOf(k) = DepthToSpace(Arguments(k))
      BY <1>4 DEF ReadsOf, Unary, Comparisons, Binary, Arithmetic, Reductions, Resizes, SpaceToDepth
    <3>2. DepthToSpace(Arguments(k)).scalars \subseteq
             Words(Arguments(k), {1}) \cup Bytes(Arguments(k), {2})
      BY DEF DepthToSpace, Reads
    <3>3. QED
      BY <3>1, <3>2
  <2>2. /\ \A p \in {1} : \A half \in BOOLEAN :
              TypesAt(kind, n, p, half) \subseteq {"INT32", "FLOAT32"}
        /\ \A p \in {2} : \A half \in BOOLEAN : TypesAt(kind, n, p, half) \subseteq {"BOOL"}
    BY <1>4 DEF TypesAt, Tensors, Flags, Open, Numbers, Unary, Comparisons, Binary, Arithmetic,
       Reductions, Recurrent, Pools, Resizes
  <2>3. {1} \in SUBSET Nat /\ {2} \in SUBSET Nat
    OBVIOUS
  <2>4. PICK W \in SUBSET Nat, B \in SUBSET Nat : W = {1} /\ B = {2}
    BY <2>3
  <2>5. /\ \A p \in W : \A half \in BOOLEAN :
              TypesAt(Op(k).kind, Len(Arguments(k)), p, half) \subseteq {"INT32", "FLOAT32"}
        /\ \A p \in B : \A half \in BOOLEAN :
              TypesAt(Op(k).kind, Len(Arguments(k)), p, half) \subseteq {"BOOL"}
        /\ ReadsOf(k).scalars \subseteq Words(Arguments(k), W) \cup Bytes(Arguments(k), B)
    BY <2>1, <2>2, <2>4, Zenon
  <2>6. QED
    BY <2>5, FixedWide, Zenon
<1>5. CASE kind = "BATCH_TO_SPACE_ND"
  <2>1. ReadsOf(k).scalars \subseteq Words(Arguments(k), {}) \cup Bytes(Arguments(k), {2})
    BY <1>5 DEF ReadsOf, Unary, Comparisons, Binary, Arithmetic, Reductions, Resizes, Reads,
       BatchToSpace
  <2>2. /\ \A p \in {} : \A half \in BOOLEAN :
              TypesAt(kind, n, p, half) \subseteq {"INT32", "FLOAT32"}
        /\ \A p \in {2} : \A half \in BOOLEAN : TypesAt(kind, n, p, half) \subseteq {"BOOL"}
    BY <1>5 DEF TypesAt, Tensors, Flags, Open, Numbers, Unary, Comparisons, Binary, Arithmetic,
       Reductions, Recurrent, Pools, Resizes
  <2>3. {} \in SUBSET Nat /\ {2} \in SUBSET Nat
    OBVIOUS
  <2>4. QED
    BY <2>1, <2>2, <2>3, FixedWide, Zenon
<1>6. CASE kind = "SPACE_TO_BATCH_ND"
  <2>1. ReadsOf(k).scalars \subseteq Words(Arguments(k), {}) \cup Bytes(Arguments(k), {3})
    BY <1>6 DEF ReadsOf, Unary, Comparisons, Binary, Arithmetic, Reductions, Resizes, Reads,
       SpaceToBatch
  <2>2. /\ \A p \in {} : \A half \in BOOLEAN :
              TypesAt(kind, n, p, half) \subseteq {"INT32", "FLOAT32"}
        /\ \A p \in {3} : \A half \in BOOLEAN : TypesAt(kind, n, p, half) \subseteq {"BOOL"}
    BY <1>6 DEF TypesAt, Tensors, Flags, Open, Numbers, Unary, Comparisons, Binary, Arithmetic,
       Reductions, Recurrent, Pools, Resizes
  <2>3. {} \in SUBSET Nat /\ {3} \in SUBSET Nat
    OBVIOUS
  <2>4. QED
    BY <2>1, <2>2, <2>3, FixedWide, Zenon
<1>7. QED
  BY <1>1, <1>2, <1>3, <1>4, <1>5, <1>6 DEF FlagReaders

\* Numbers that are halves beside halves.
NumberReaders == {"SOFTMAX", "LOG_SOFTMAX", "PAD_V2"}

LEMMA NumberReadersWide ==
  ASSUME NEW k, Given(k), Len(Arguments(k)) \in Nat, Op(k).kind \in NumberReaders
  PROVE  AllWide(k)
<1> DEFINE kind == Op(k).kind
           n == Len(Arguments(k))
           place == IF kind = "PAD_V2" THEN 2 ELSE 1
           W == IF kind = "PAD_V2" THEN {} ELSE {2}
<1>1. PICK half \in BOOLEAN : half = (Input(Arguments(k), 0).type = "TENSOR_FLOAT16")
  OBVIOUS
<1>2. ReadsOf(k).scalars \subseteq
         (IF half THEN Halves(Arguments(k), {place}) ELSE Words(Arguments(k), {place}))
         \cup Words(Arguments(k), W)
  BY <1>1 DEF NumberReaders, ReadsOf, Unary, Comparisons, Binary, Arithmetic, Reductions,
     Resizes, Reads, Softmax, LogSoftmax, PadV2, InputType
<1>3. /\ TypesAt(kind, n, place, half) = IF half THEN {"FLOAT16"} ELSE {"FLOAT32", "INT32"}
      /\ \A p \in W : TypesAt(kind, n, p, half) = {"INT32"}
  BY DEF NumberReaders, TypesAt, Tensors, Flags, Open, Numbers, Unary, Comparisons, Binary,
     Arithmetic, Reductions, Recurrent, Pools, Resizes
<1>4. place \in Nat /\ W \in SUBSET Nat
  OBVIOUS
<1> HIDE DEF place, W
<1>5. place < n => Input(Arguments(k), place).type \in IF half THEN {"FLOAT16"} ELSE {"FLOAT32", "INT32"}
  BY <1>1, <1>3, <1>4, GivenType
<1>6. \A p \in W : p < n => Input(Arguments(k), p).type \in {"INT32"}
  BY <1>1, <1>3, <1>4, GivenType
<1>7. \A r \in Words(Arguments(k), W) : Wide(Arguments(k), r)
  BY <1>4, <1>6, WordsWide
<1>8. CASE half
  <2>1. \A r \in Halves(Arguments(k), {place}) : Wide(Arguments(k), r)
    BY <1>4, <1>5, <1>8, HalvesWide
  <2>2. QED
    BY <1>2, <1>7, <1>8, <2>1, Zenon DEF AllWide
<1>9. CASE ~half
  <2>1. \A r \in Words(Arguments(k), {place}) : Wide(Arguments(k), r)
    BY <1>4, <1>5, <1>9, WordsWide
  <2>2. QED
    BY <1>2, <1>7, <1>9, <2>1, Zenon DEF AllWide
<1>10. QED
  BY <1>8, <1>9

\* Operations that refuse halves.
FloatReaders == {"INSTANCE_NORMALIZATION", "ROI_ALIGN", "ROI_POOLING"}

LEMMA FloatReadersWide ==
  ASSUME NEW k, Given(k), Len(Arguments(k)) \in Nat, Op(k).kind \in FloatReaders,
         Input(Arguments(k), 0).type = "TENSOR_FLOAT32"
  PROVE  AllWide(k)
<1> DEFINE kind == Op(k).kind
           n == Len(Arguments(k))
           W == IF kind = "INSTANCE_NORMALIZATION" THEN {1, 2, 3} ELSE {3, 4, 5, 7} \ Flags(kind, n)
           B == Flags(kind, n)
<1>1. FALSE = (Input(Arguments(k), 0).type = "TENSOR_FLOAT16")
  OBVIOUS
<1>2. ReadsOf(k).scalars \subseteq Words(Arguments(k), W) \cup Bytes(Arguments(k), B)
  <2>1. CASE kind = "INSTANCE_NORMALIZATION"
    BY <2>1 DEF Flags, ReadsOf, Unary, Comparisons, Binary, Arithmetic, Reductions,
       Resizes, Pools, Reads, InstanceNormalization
  <2>2. CASE kind = "ROI_ALIGN"
    <3>1. B = {9} /\ W = {3, 4, 5, 7}
      BY <2>2 DEF Flags, Reductions, Resizes, Pools
    <3>2. ReadsOf(k).scalars = Words(Arguments(k), {3, 4, 5, 7}) \cup Bytes(Arguments(k), {9})
      BY <2>2 DEF ReadsOf, Unary, Comparisons, Binary, Arithmetic, Reductions, Resizes, Reads,
         ROIAlign
    <3>3. QED
      BY <3>1, <3>2, Zenon
  <2>3. CASE kind = "ROI_POOLING"
    <3>1. B = {7} /\ W = {3, 4, 5}
      BY <2>3 DEF Flags, Reductions, Resizes, Pools
    <3>2. ReadsOf(k).scalars = Words(Arguments(k), {3, 4, 5}) \cup Bytes(Arguments(k), {7})
      BY <2>3 DEF ReadsOf, Unary, Comparisons, Binary, Arithmetic, Reductions, Resizes, Reads,
         ROIPooling
    <3>3. QED
      BY <3>1, <3>2, Zenon
  <2>4. QED
    BY <2>1, <2>2, <2>3 DEF FloatReaders
<1>3. /\ \A p \in W : TypesAt(kind, n, p, FALSE) \subseteq {"INT32", "FLOAT32"}
      /\ \A p \in B : TypesAt(kind, n, p, FALSE) \subseteq {"BOOL"}
  BY DEF FloatReaders, TypesAt, Tensors, Flags, Open, Numbers, Unary, Comparisons, Binary,
     Arithmetic, Reductions, Recurrent, Pools, Resizes
<1>4. W \in SUBSET Nat /\ B \in SUBSET Nat
  BY DEF FloatReaders, Flags, Reductions, Resizes, Pools
<1> HIDE DEF W, B
<1>5. \A p \in W : p < n => Input(Arguments(k), p).type \in {"INT32", "FLOAT32"}
  BY <1>1, <1>3, <1>4, GivenType
<1>6. \A p \in B : p < n => Input(Arguments(k), p).type \in {"BOOL"}
  BY <1>1, <1>3, <1>4, GivenType
<1>7. \A p \in B : p < n => Input(Arguments(k), p).type = "BOOL"
  BY <1>6
<1>8. \A r \in Words(Arguments(k), W) : Wide(Arguments(k), r)
  BY <1>4, <1>5, WordsWide
<1>9. \A r \in Bytes(Arguments(k), B) : Wide(Arguments(k), r)
  BY <1>4, <1>7, BytesWide
<1>10. QED
  BY <1>2, <1>8, <1>9, Zenon DEF AllWide

\* Sizes or scales, both of them halves or none.
LEMMA ResizesWide ==
  ASSUME NEW k, Given(k), Len(Arguments(k)) \in Nat, Op(k).kind \in Resizes,
         Input(Arguments(k), 1).type = Input(Arguments(k), 2).type,
         Input(Arguments(k), 1).type \in {"INT32", "FLOAT16", "FLOAT32"}
  PROVE  AllWide(k)
<1>1. PICK half \in BOOLEAN : half = (Input(Arguments(k), 0).type = "TENSOR_FLOAT16")
  OBVIOUS
<1>2. PICK t \in {"INT32", "FLOAT16", "FLOAT32"} :
         \A p \in {1, 2} : Input(Arguments(k), p).type = t
  OBVIOUS
<1>3. ReadsOf(k).scalars =
         (IF t = "FLOAT16" THEN Halves(Arguments(k), {1, 2}) ELSE Words(Arguments(k), {1, 2}))
         \cup Bytes(Arguments(k), {3, 4, 5})
  BY <1>2 DEF ReadsOf, Unary, Comparisons, Binary, Arithmetic, Reductions, Resizes, Reads,
     ResizeBilinear, ResizeNearestNeighbor, InputType
<1>4. \A p \in {3, 4, 5} : TypesAt(Op(k).kind, Len(Arguments(k)), p, half) \subseteq {"BOOL"}
  BY DEF TypesAt, Tensors, Flags, Comparisons, Binary, Arithmetic, Reductions, Recurrent,
     Pools, Resizes
<1>5. {3, 4, 5} \in SUBSET Nat /\ {1, 2} \in SUBSET Nat
  OBVIOUS
<1>6. \A p \in {3, 4, 5} : p < Len(Arguments(k)) => Input(Arguments(k), p).type \in {"BOOL"}
  BY <1>1, <1>4, <1>5, GivenType
<1>7. \A r \in Bytes(Arguments(k), {3, 4, 5}) : Wide(Arguments(k), r)
  BY <1>5, <1>6, BytesWide
<1>8. CASE t = "FLOAT16"
  <2>1. \A r \in Halves(Arguments(k), {1, 2}) : Wide(Arguments(k), r)
    BY <1>2, <1>5, <1>8, HalvesWide
  <2>2. QED
    BY <1>3, <1>7, <1>8, <2>1, Zenon DEF AllWide
<1>9. CASE ~(t = "FLOAT16")
  <2>1. \A r \in Words(Arguments(k), {1, 2}) : Wide(Arguments(k), r)
    BY <1>2, <1>5, <1>9, WordsWide
  <2>2. QED
    BY <1>3, <1>7, <1>9, <2>1, Zenon DEF AllWide
<1>10. QED
  BY <1>8, <1>9

\* Where a convolution or a pool has its numbers, all but the layout.
Places(k) ==
    LET q == FirstAt(k) + Paddings(k) IN
    FirstAt(k)..(FirstAt(k) + 3)
        \cup {q, q + 1, q + 2, q + 2 + Extra(k), q + 4 + Extra(k), q + 5 + Extra(k)}
        \cup IF Op(k).kind \in Pools THEN {q + 3} ELSE {}

LEMMA PlacesNamed ==
  ASSUME NEW k
  PROVE  /\ \A name \in NamesOf(k) : name # "layout" => NnapiPosition(k, name) \in Places(k)
         /\ Places(k) \subseteq Nat
         /\ NnapiPosition(k, "layout") = FirstAt(k) + Paddings(k) + 3 + Extra(k)
         /\ NnapiPosition(k, "layout") \in Nat
<1>1. PICK f \in Nat, p \in Nat, x \in Nat : f = FirstAt(k) /\ p = Paddings(k) /\ x = Extra(k)
  BY Positions
<1>2. NnapiPosition(k, "layout") = f + p + 3 + x
  BY <1>1, Positions
<1>3. PICK P : P = Places(k)
  OBVIOUS
<1>4. P = f..(f + 3) \cup {f + p, f + p + 1, f + p + 2, f + p + 2 + x, f + p + 4 + x, f + p + 5 + x}
            \cup IF Op(k).kind \in Pools THEN {f + p + 3} ELSE {}
  BY <1>1, <1>3, Zenon DEF Places
<1>5. ASSUME NEW name \in NamesOf(k), name # "layout"
      PROVE  NnapiPosition(k, name) \in P
  <2>1. CASE name \in {"filter_width", "filter_height"}
    BY <1>1, <1>4, <1>5, <2>1, Positions DEF NamesOf, ArgumentNames
  <2>2. CASE name \in {"padding_left", "padding_right", "padding_top", "padding_bottom",
                       "padding_scheme"}
    <3>1. {f, f + 1, f + 2, f + 3} \subseteq P
      BY <1>4
    <3>2. NnapiPosition(k, name) \in {f, f + 1, f + 2, f + 3}
      BY <1>1, <2>2, Positions
    <3>3. QED
      BY <3>1, <3>2, Zenon
  <2>3. CASE name \in {"stride_width", "stride_height", "multiplier", "groups", "activation",
                       "dilation_width", "dilation_height"}
    <3>1. {f + p, f + p + 1, f + p + 2, f + p + 2 + x, f + p + 4 + x, f + p + 5 + x} \subseteq P
      BY <1>4, Zenon
    <3>2. NnapiPosition(k, name) \in
             {f + p, f + p + 1, f + p + 2, f + p + 2 + x, f + p + 4 + x, f + p + 5 + x}
      BY <1>1, <2>3, Positions
    <3>3. QED
      BY <3>1, <3>2, Zenon
  <2>4. QED
    BY <1>5, <2>1, <2>2, <2>3 DEF NamesOf, ArgumentNames
<1>6. P \subseteq Nat
  BY <1>4
<1>7. QED
  BY <1>1, <1>2, <1>3, <1>5, <1>6

\* The layout is a truth value, and the others are numbers.
Windowed(k) ==
    LET a == Arguments(k) IN
    /\ \A p \in Places(k) : p < Len(a) => Input(a, p).type = "INT32"
    /\ NnapiPosition(k, "layout") < Len(a) =>
          Input(a, NnapiPosition(k, "layout")).type = "BOOL"

\* A form, with its places and where its flag is.
FormOf(k, n, P, l) ==
    /\ n \in Nat /\ n = Len(Arguments(k)) /\ P \subseteq Nat /\ l \in Nat
    /\ Places(k) \subseteq P /\ l = NnapiPosition(k, "layout")
    /\ \A p \in P : p < n =>
          \/ Input(Arguments(k), p).type = "INT32"
          \/ \A half \in BOOLEAN : TypesAt(Op(k).kind, n, p, half) = {"INT32"}
    /\ l < n => \/ Input(Arguments(k), l).type = "BOOL"
                \/ \A half \in BOOLEAN : TypesAt(Op(k).kind, n, l, half) = {"BOOL"}

LEMMA FormWindowed ==
  ASSUME NEW k, Given(k), NEW n, NEW P, NEW l, FormOf(k, n, P, l)
  PROVE  Windowed(k)
<1>1. PICK half \in BOOLEAN : half = (Input(Arguments(k), 0).type = "TENSOR_FLOAT16")
  OBVIOUS
<1>2. /\ n \in Nat /\ n = Len(Arguments(k)) /\ P \subseteq Nat /\ l \in Nat
      /\ Places(k) \subseteq P /\ l = NnapiPosition(k, "layout")
  BY Zenon DEF FormOf
<1>3. \A p \in Nat : p < n =>
         Input(Arguments(k), p).type \in TypesAt(Op(k).kind, n, p, half)
  <2>1. ASSUME NEW p \in Nat, p < n
        PROVE  Input(Arguments(k), p).type \in TypesAt(Op(k).kind, n, p, half)
    <3>1. p \in 0..(n - 1)
      BY <1>2, <2>1
    <3>2. QED
      BY <1>1, <1>2, <3>1, Zenon DEF Given
  <2>2. QED
    BY <2>1
<1>4. ASSUME NEW p \in P, p < n
      PROVE  Input(Arguments(k), p).type = "INT32"
  <2>1. p \in Nat
    BY <1>2, <1>4
  <2>2. Input(Arguments(k), p).type \in TypesAt(Op(k).kind, n, p, half)
    BY <1>3, <1>4, <2>1
  <2>3. \/ Input(Arguments(k), p).type = "INT32"
        \/ TypesAt(Op(k).kind, n, p, half) = {"INT32"}
    BY <1>4, Zenon DEF FormOf
  <2>4. QED
    BY <2>2, <2>3
<1>5. ASSUME l < n
      PROVE  Input(Arguments(k), l).type = "BOOL"
  <2>1. Input(Arguments(k), l).type \in TypesAt(Op(k).kind, n, l, half)
    BY <1>2, <1>3, <1>5
  <2>2. \/ Input(Arguments(k), l).type = "BOOL"
        \/ TypesAt(Op(k).kind, n, l, half) = {"BOOL"}
    BY <1>5, Zenon DEF FormOf
  <2>3. QED
    BY <2>1, <2>2
<1>6. QED
  BY <1>2, <1>4, <1>5, Zenon DEF Windowed

LEMMA ConvWindowed ==
  ASSUME Admitted(model), Formed(model), NEW k \in Ops, Given(k), Op(k).kind = "CONV_2D"
  PROVE  Windowed(k)
<1> DEFINE a == Arguments(k)
           given == model.operands[Op(k).ins[7 + 1]].type
<1>1. PICK n \in Nat : n = Len(a) /\ n = Len(Op(k).ins)
  BY GivenTypes
<1>2. PICK t : t = Input(a, 7).type
  OBVIOUS
<1>3. /\ FirstAt(k) = 3 /\ Extra(k) = 0 /\ Op(k).kind \notin Pools
      /\ NnapiExplicit(k) <=> n >= 10 /\ t = "INT32"
  BY <1>1, <1>2, SMT DEF FirstAt, Extra, Pools, NnapiExplicit
<1>4. \/ n \in 10..13 /\ given = "INT32"
      \/ n \in 7..10 /\ (n >= 8 => given = "BOOL")
  BY <1>1, Zenon DEF Formed, Op, Ops
<1>5. n > 7 => t = given
  BY <1>1, <1>2, GivenTypes
<1> HIDE DEF given, a
<1>6. \/ n \in 10..13 /\ t = "INT32"
      \/ n \in 7..10 /\ (n >= 8 => t = "BOOL")
  BY <1>4, <1>5
<1>7. CASE n \in 10..13 /\ t = "INT32"
  <2>1. FirstAt(k) = 3 /\ Paddings(k) = 4 /\ Extra(k) = 0
    BY <1>3, <1>7 DEF Paddings
  <2>2. Places(k) \subseteq {3, 4, 5, 6, 7, 8, 9, 11, 12} /\ NnapiPosition(k, "layout") = 10
    BY <1>3, <2>1, PlacesNamed DEF Places
  <2>3. PICK P, l :
           /\ P = {3, 4, 5, 6, 7, 8, 9, 11, 12} /\ l = 10
           /\ Places(k) \subseteq P /\ l = NnapiPosition(k, "layout")
    BY <2>2, Zenon
  <2>4. \A half \in BOOLEAN : \A p \in {3, 4, 5, 6, 8, 9, 11, 12} :
           p < n => TypesAt("CONV_2D", n, p, half) = {"INT32"}
    BY <1>7 DEF TypesAt, Tensors, Flags, Open, Numbers, Comparisons, Binary, Arithmetic,
       Reductions, Recurrent, Pools, Resizes
  <2>5. \A half \in BOOLEAN : TypesAt("CONV_2D", n, 10, half) = {"BOOL"}
    BY <1>7 DEF TypesAt, Tensors, Flags, Open, Numbers, Comparisons, Binary, Arithmetic,
       Reductions, Recurrent, Pools, Resizes
  <2>6. Input(Arguments(k), 7).type = "INT32"
    BY <1>2, <1>7 DEF a
  <2>7. \A p \in P : p < n =>
            \/ Input(Arguments(k), p).type = "INT32"
            \/ \A half \in BOOLEAN : TypesAt(Op(k).kind, n, p, half) = {"INT32"}
    BY <2>3, <2>4, <2>6
  <2>8. l < n => \/ Input(Arguments(k), l).type = "BOOL"
                  \/ \A half \in BOOLEAN : TypesAt(Op(k).kind, n, l, half) = {"BOOL"}
    BY <2>3, <2>5
  <2>9. n = Len(Arguments(k))
    BY <1>1 DEF a
  <2>10. P \subseteq Nat /\ l \in Nat /\ n \in Nat
    BY <2>3, <1>1
  <2>11. FormOf(k, n, P, l)
    BY <2>3, <2>7, <2>8, <2>9, <2>10, Zenon DEF FormOf
  <2>12. QED
    BY <2>11, FormWindowed, Zenon
<1>8. CASE n \in 7..10 /\ (n >= 8 => t = "BOOL")
  <2>1. FirstAt(k) = 3 /\ Paddings(k) = 1 /\ Extra(k) = 0
    BY <1>3, <1>8 DEF Paddings
  <2>2. Places(k) \subseteq {3, 4, 5, 6, 8, 9} /\ NnapiPosition(k, "layout") = 7
    BY <1>3, <2>1, PlacesNamed DEF Places
  <2>3. PICK P, l :
           /\ P = {3, 4, 5, 6, 8, 9} /\ l = 7
           /\ Places(k) \subseteq P /\ l = NnapiPosition(k, "layout")
    BY <2>2, Zenon
  <2>4. \A half \in BOOLEAN : \A p \in {3, 4, 5, 6, 8, 9} :
           p < n => TypesAt("CONV_2D", n, p, half) = {"INT32"}
    BY <1>8 DEF TypesAt, Tensors, Flags, Open, Numbers, Comparisons, Binary, Arithmetic,
       Reductions, Recurrent, Pools, Resizes
  <2>5. 7 < n => Input(Arguments(k), 7).type = "BOOL"
    BY <1>2, <1>8 DEF a
  <2>6. \A p \in P : p < n =>
            \/ Input(Arguments(k), p).type = "INT32"
            \/ \A half \in BOOLEAN : TypesAt(Op(k).kind, n, p, half) = {"INT32"}
    BY <2>3, <2>4
  <2>7. l < n => \/ Input(Arguments(k), l).type = "BOOL"
                  \/ \A half \in BOOLEAN : TypesAt(Op(k).kind, n, l, half) = {"BOOL"}
    BY <2>3, <2>5
  <2>8. n = Len(Arguments(k))
    BY <1>1 DEF a
  <2>9. P \subseteq Nat /\ l \in Nat /\ n \in Nat
    BY <2>3, <1>1
  <2>10. FormOf(k, n, P, l)
    BY <2>3, <2>6, <2>7, <2>8, <2>9, Zenon DEF FormOf
  <2>11. QED
    BY <2>10, FormWindowed, Zenon
<1>9. QED
  BY <1>6, <1>7, <1>8

LEMMA DepthwiseWindowed ==
  ASSUME Admitted(model), Formed(model), NEW k \in Ops, Given(k), Op(k).kind = "DEPTHWISE_CONV_2D"
  PROVE  Windowed(k)
<1> DEFINE a == Arguments(k)
           given == model.operands[Op(k).ins[8 + 1]].type
<1>1. PICK n \in Nat : n = Len(a) /\ n = Len(Op(k).ins)
  BY GivenTypes
<1>2. PICK t : t = Input(a, 8).type
  OBVIOUS
<1>3. /\ FirstAt(k) = 3 /\ Extra(k) = 1 /\ Op(k).kind \notin Pools
      /\ NnapiExplicit(k) <=> n >= 11 /\ t = "INT32"
  BY <1>1, <1>2, SMT DEF FirstAt, Extra, Pools, NnapiExplicit
<1>4. \/ n \in 11..14 /\ given = "INT32"
      \/ n \in 8..11 /\ (n >= 9 => given = "BOOL")
  BY <1>1, Zenon DEF Formed, Op, Ops
<1>5. n > 8 => t = given
  BY <1>1, <1>2, GivenTypes
<1> HIDE DEF given, a
<1>6. \/ n \in 11..14 /\ t = "INT32"
      \/ n \in 8..11 /\ (n >= 9 => t = "BOOL")
  BY <1>4, <1>5
<1>7. CASE n \in 11..14 /\ t = "INT32"
  <2>1. FirstAt(k) = 3 /\ Paddings(k) = 4 /\ Extra(k) = 1
    BY <1>3, <1>7 DEF Paddings
  <2>2. Places(k) \subseteq {3, 4, 5, 6, 7, 8, 9, 10, 12, 13} /\ NnapiPosition(k, "layout") = 11
    BY <1>3, <2>1, PlacesNamed DEF Places
  <2>3. PICK P, l :
           /\ P = {3, 4, 5, 6, 7, 8, 9, 10, 12, 13} /\ l = 11
           /\ Places(k) \subseteq P /\ l = NnapiPosition(k, "layout")
    BY <2>2, Zenon
  <2>4. \A half \in BOOLEAN : \A p \in {3, 4, 5, 6, 7, 9, 10, 12, 13} :
           p < n => TypesAt("DEPTHWISE_CONV_2D", n, p, half) = {"INT32"}
    BY <1>7 DEF TypesAt, Tensors, Flags, Open, Numbers, Comparisons, Binary, Arithmetic,
       Reductions, Recurrent, Pools, Resizes
  <2>5. \A half \in BOOLEAN : TypesAt("DEPTHWISE_CONV_2D", n, 11, half) = {"BOOL"}
    BY <1>7 DEF TypesAt, Tensors, Flags, Open, Numbers, Comparisons, Binary, Arithmetic,
       Reductions, Recurrent, Pools, Resizes
  <2>6. Input(Arguments(k), 8).type = "INT32"
    BY <1>2, <1>7 DEF a
  <2>7. \A p \in P : p < n =>
            \/ Input(Arguments(k), p).type = "INT32"
            \/ \A half \in BOOLEAN : TypesAt(Op(k).kind, n, p, half) = {"INT32"}
    BY <2>3, <2>4, <2>6
  <2>8. l < n => \/ Input(Arguments(k), l).type = "BOOL"
                  \/ \A half \in BOOLEAN : TypesAt(Op(k).kind, n, l, half) = {"BOOL"}
    BY <2>3, <2>5
  <2>9. n = Len(Arguments(k))
    BY <1>1 DEF a
  <2>10. P \subseteq Nat /\ l \in Nat /\ n \in Nat
    BY <2>3, <1>1
  <2>11. FormOf(k, n, P, l)
    BY <2>3, <2>7, <2>8, <2>9, <2>10, Zenon DEF FormOf
  <2>12. QED
    BY <2>11, FormWindowed, Zenon
<1>8. CASE n \in 8..11 /\ (n >= 9 => t = "BOOL")
  <2>1. FirstAt(k) = 3 /\ Paddings(k) = 1 /\ Extra(k) = 1
    BY <1>3, <1>8 DEF Paddings
  <2>2. Places(k) \subseteq {3, 4, 5, 6, 7, 9, 10} /\ NnapiPosition(k, "layout") = 8
    BY <1>3, <2>1, PlacesNamed DEF Places
  <2>3. PICK P, l :
           /\ P = {3, 4, 5, 6, 7, 9, 10} /\ l = 8
           /\ Places(k) \subseteq P /\ l = NnapiPosition(k, "layout")
    BY <2>2, Zenon
  <2>4. \A half \in BOOLEAN : \A p \in {3, 4, 5, 6, 7, 9, 10} :
           p < n => TypesAt("DEPTHWISE_CONV_2D", n, p, half) = {"INT32"}
    BY <1>8 DEF TypesAt, Tensors, Flags, Open, Numbers, Comparisons, Binary, Arithmetic,
       Reductions, Recurrent, Pools, Resizes
  <2>5. 8 < n => Input(Arguments(k), 8).type = "BOOL"
    BY <1>2, <1>8 DEF a
  <2>6. \A p \in P : p < n =>
            \/ Input(Arguments(k), p).type = "INT32"
            \/ \A half \in BOOLEAN : TypesAt(Op(k).kind, n, p, half) = {"INT32"}
    BY <2>3, <2>4
  <2>7. l < n => \/ Input(Arguments(k), l).type = "BOOL"
                  \/ \A half \in BOOLEAN : TypesAt(Op(k).kind, n, l, half) = {"BOOL"}
    BY <2>3, <2>5
  <2>8. n = Len(Arguments(k))
    BY <1>1 DEF a
  <2>9. P \subseteq Nat /\ l \in Nat /\ n \in Nat
    BY <2>3, <1>1
  <2>10. FormOf(k, n, P, l)
    BY <2>3, <2>6, <2>7, <2>8, <2>9, Zenon DEF FormOf
  <2>11. QED
    BY <2>10, FormWindowed, Zenon
<1>9. QED
  BY <1>6, <1>7, <1>8

LEMMA GroupedWindowed ==
  ASSUME Admitted(model), Formed(model), NEW k \in Ops, Given(k), Op(k).kind = "GROUPED_CONV_2D"
  PROVE  Windowed(k)
<1> DEFINE a == Arguments(k)
           given == model.operands[Op(k).ins[8 + 1]].type
<1>1. PICK n \in Nat : n = Len(a) /\ n = Len(Op(k).ins)
  BY GivenTypes
<1>2. PICK t : t = Input(a, 8).type
  OBVIOUS
<1>3. /\ FirstAt(k) = 3 /\ Extra(k) = 1 /\ Op(k).kind \notin Pools
      /\ NnapiExplicit(k) <=> n >= 11 /\ t = "INT32"
  BY <1>1, <1>2, SMT DEF FirstAt, Extra, Pools, NnapiExplicit
<1>4. \/ n = 12 /\ given = "INT32"
      \/ n = 9 /\ given = "BOOL"
  BY <1>1, Zenon DEF Formed, Op, Ops
<1>5. n > 8 => t = given
  BY <1>1, <1>2, GivenTypes
<1> HIDE DEF given, a
<1>6. \/ n = 12 /\ t = "INT32"
      \/ n = 9 /\ t = "BOOL"
  BY <1>4, <1>5
<1>7. CASE n = 12 /\ t = "INT32"
  <2>1. FirstAt(k) = 3 /\ Paddings(k) = 4 /\ Extra(k) = 1
    BY <1>3, <1>7 DEF Paddings
  <2>2. Places(k) \subseteq {3, 4, 5, 6, 7, 8, 9, 10, 12, 13} /\ NnapiPosition(k, "layout") = 11
    BY <1>3, <2>1, PlacesNamed DEF Places
  <2>3. PICK P, l :
           /\ P = {3, 4, 5, 6, 7, 8, 9, 10, 12, 13} /\ l = 11
           /\ Places(k) \subseteq P /\ l = NnapiPosition(k, "layout")
    BY <2>2, Zenon
  <2>4. \A half \in BOOLEAN : \A p \in {3, 4, 5, 6, 7, 9, 10, 12, 13} :
           p < n => TypesAt("GROUPED_CONV_2D", n, p, half) = {"INT32"}
    BY <1>7 DEF TypesAt, Tensors, Flags, Open, Numbers, Comparisons, Binary, Arithmetic,
       Reductions, Recurrent, Pools, Resizes
  <2>5. \A half \in BOOLEAN : TypesAt("GROUPED_CONV_2D", n, 11, half) = {"BOOL"}
    BY <1>7 DEF TypesAt, Tensors, Flags, Open, Numbers, Comparisons, Binary, Arithmetic,
       Reductions, Recurrent, Pools, Resizes
  <2>6. Input(Arguments(k), 8).type = "INT32"
    BY <1>2, <1>7 DEF a
  <2>7. \A p \in P : p < n =>
            \/ Input(Arguments(k), p).type = "INT32"
            \/ \A half \in BOOLEAN : TypesAt(Op(k).kind, n, p, half) = {"INT32"}
    BY <2>3, <2>4, <2>6
  <2>8. l < n => \/ Input(Arguments(k), l).type = "BOOL"
                  \/ \A half \in BOOLEAN : TypesAt(Op(k).kind, n, l, half) = {"BOOL"}
    BY <2>3, <2>5
  <2>9. n = Len(Arguments(k))
    BY <1>1 DEF a
  <2>10. P \subseteq Nat /\ l \in Nat /\ n \in Nat
    BY <2>3, <1>1
  <2>11. FormOf(k, n, P, l)
    BY <2>3, <2>7, <2>8, <2>9, <2>10, Zenon DEF FormOf
  <2>12. QED
    BY <2>11, FormWindowed, Zenon
<1>8. CASE n = 9 /\ t = "BOOL"
  <2>1. FirstAt(k) = 3 /\ Paddings(k) = 1 /\ Extra(k) = 1
    BY <1>3, <1>8 DEF Paddings
  <2>2. Places(k) \subseteq {3, 4, 5, 6, 7, 9, 10} /\ NnapiPosition(k, "layout") = 8
    BY <1>3, <2>1, PlacesNamed DEF Places
  <2>3. PICK P, l :
           /\ P = {3, 4, 5, 6, 7, 9, 10} /\ l = 8
           /\ Places(k) \subseteq P /\ l = NnapiPosition(k, "layout")
    BY <2>2, Zenon
  <2>4. \A half \in BOOLEAN : \A p \in {3, 4, 5, 6, 7, 9, 10} :
           p < n => TypesAt("GROUPED_CONV_2D", n, p, half) = {"INT32"}
    BY <1>8 DEF TypesAt, Tensors, Flags, Open, Numbers, Comparisons, Binary, Arithmetic,
       Reductions, Recurrent, Pools, Resizes
  <2>5. 8 < n => Input(Arguments(k), 8).type = "BOOL"
    BY <1>2, <1>8 DEF a
  <2>6. \A p \in P : p < n =>
            \/ Input(Arguments(k), p).type = "INT32"
            \/ \A half \in BOOLEAN : TypesAt(Op(k).kind, n, p, half) = {"INT32"}
    BY <2>3, <2>4
  <2>7. l < n => \/ Input(Arguments(k), l).type = "BOOL"
                  \/ \A half \in BOOLEAN : TypesAt(Op(k).kind, n, l, half) = {"BOOL"}
    BY <2>3, <2>5
  <2>8. n = Len(Arguments(k))
    BY <1>1 DEF a
  <2>9. P \subseteq Nat /\ l \in Nat /\ n \in Nat
    BY <2>3, <1>1
  <2>10. FormOf(k, n, P, l)
    BY <2>3, <2>6, <2>7, <2>8, <2>9, Zenon DEF FormOf
  <2>11. QED
    BY <2>10, FormWindowed, Zenon
<1>9. QED
  BY <1>6, <1>7, <1>8

LEMMA TransposeWindowed ==
  ASSUME Admitted(model), Formed(model), NEW k \in Ops, Given(k), Op(k).kind = "TRANSPOSE_CONV_2D"
  PROVE  Windowed(k)
<1>1. PICK n \in Nat : n = Len(Arguments(k)) /\ n = Len(Op(k).ins)
  BY GivenTypes
<1>2. n \in {9, 11}
  BY <1>1, Zenon DEF Formed, Op, Ops
<1>3. /\ FirstAt(k) = (IF n >= 10 THEN 3 ELSE 4) /\ Extra(k) = 0
      /\ NnapiExplicit(k) <=> n >= 10
  BY <1>1, SMT DEF FirstAt, Extra, Pools, NnapiExplicit
<1>4. CASE n = 11
  <2>1. FirstAt(k) = 3 /\ Paddings(k) = 4 /\ Extra(k) = 0
    BY <1>3, <1>4 DEF Paddings
  <2>2. Places(k) \subseteq {3, 4, 5, 6, 7, 8, 9, 11, 12} /\ NnapiPosition(k, "layout") = 10
    BY <2>1, PlacesNamed DEF Places, Pools
  <2>3. PICK P, l :
           /\ P = {3, 4, 5, 6, 7, 8, 9, 11, 12} /\ l = 10
           /\ Places(k) \subseteq P /\ l = NnapiPosition(k, "layout")
    BY <2>2, Zenon
  <2>4. \A half \in BOOLEAN : \A p \in {3, 4, 5, 6, 7, 8, 9, 11, 12} :
           p < n => TypesAt(Op(k).kind, n, p, half) = {"INT32"}
    BY <1>4 DEF TypesAt, Tensors, Flags, Open, Numbers, Comparisons, Binary, Arithmetic,
       Reductions, Recurrent, Pools, Resizes
  <2>5. \A half \in BOOLEAN : TypesAt(Op(k).kind, n, 10, half) = {"BOOL"}
    BY <1>4 DEF TypesAt, Tensors, Flags, Open, Numbers, Comparisons, Binary, Arithmetic,
       Reductions, Recurrent, Pools, Resizes
  <2>6. \A p \in P : p < n =>
            \/ Input(Arguments(k), p).type = "INT32"
            \/ \A half \in BOOLEAN : TypesAt(Op(k).kind, n, p, half) = {"INT32"}
    BY <2>3, <2>4
  <2>7. l < n => \/ Input(Arguments(k), l).type = "BOOL"
                  \/ \A half \in BOOLEAN : TypesAt(Op(k).kind, n, l, half) = {"BOOL"}
    BY <2>3, <2>5
  <2>8. n = Len(Arguments(k))
    BY <1>1
  <2>9. P \subseteq Nat /\ l \in Nat /\ n \in Nat
    BY <2>3, <1>1
  <2>10. FormOf(k, n, P, l)
    BY <2>3, <2>6, <2>7, <2>8, <2>9, Zenon DEF FormOf
  <2>11. QED
    BY <2>10, FormWindowed, Zenon
<1>5. CASE n = 9
  <2>1. FirstAt(k) = 4 /\ Paddings(k) = 1 /\ Extra(k) = 0
    BY <1>3, <1>5 DEF Paddings
  <2>2. Places(k) \subseteq {4, 5, 6, 7, 9, 10} /\ NnapiPosition(k, "layout") = 8
    BY <2>1, PlacesNamed DEF Places, Pools
  <2>3. PICK P, l :
           /\ P = {4, 5, 6, 7, 9, 10} /\ l = 8
           /\ Places(k) \subseteq P /\ l = NnapiPosition(k, "layout")
    BY <2>2, Zenon
  <2>4. \A half \in BOOLEAN : \A p \in {4, 5, 6, 7, 9, 10} :
           p < n => TypesAt(Op(k).kind, n, p, half) = {"INT32"}
    BY <1>5 DEF TypesAt, Tensors, Flags, Open, Numbers, Comparisons, Binary, Arithmetic,
       Reductions, Recurrent, Pools, Resizes
  <2>5. \A half \in BOOLEAN : TypesAt(Op(k).kind, n, 8, half) = {"BOOL"}
    BY <1>5 DEF TypesAt, Tensors, Flags, Open, Numbers, Comparisons, Binary, Arithmetic,
       Reductions, Recurrent, Pools, Resizes
  <2>6. \A p \in P : p < n =>
            \/ Input(Arguments(k), p).type = "INT32"
            \/ \A half \in BOOLEAN : TypesAt(Op(k).kind, n, p, half) = {"INT32"}
    BY <2>3, <2>4
  <2>7. l < n => \/ Input(Arguments(k), l).type = "BOOL"
                  \/ \A half \in BOOLEAN : TypesAt(Op(k).kind, n, l, half) = {"BOOL"}
    BY <2>3, <2>5
  <2>8. n = Len(Arguments(k))
    BY <1>1
  <2>9. P \subseteq Nat /\ l \in Nat /\ n \in Nat
    BY <2>3, <1>1
  <2>10. FormOf(k, n, P, l)
    BY <2>3, <2>6, <2>7, <2>8, <2>9, Zenon DEF FormOf
  <2>11. QED
    BY <2>10, FormWindowed, Zenon
<1>6. QED
  BY <1>2, <1>4, <1>5

LEMMA PoolWindowed ==
  ASSUME Admitted(model), Formed(model), NEW k \in Ops, Given(k), Op(k).kind \in Pools
  PROVE  Windowed(k)
<1>1. PICK n \in Nat : n = Len(Arguments(k)) /\ n = Len(Op(k).ins)
  BY GivenTypes
<1>2. n \in {7, 8, 10, 11}
  BY <1>1, Zenon DEF Formed, Op, Ops
<1>3. /\ FirstAt(k) = 1 /\ Extra(k) = 2
      /\ NnapiExplicit(k) <=> n >= 10
  BY <1>1, SMT DEF FirstAt, Extra, Pools, NnapiExplicit
<1>4. CASE n \in 10..11
  <2>1. FirstAt(k) = 1 /\ Paddings(k) = 4 /\ Extra(k) = 2
    BY <1>3, <1>4 DEF Paddings
  <2>2. Places(k) \subseteq {1, 2, 3, 4, 5, 6, 7, 8, 9, 11, 12} /\ NnapiPosition(k, "layout") = 10
    BY <2>1, PlacesNamed DEF Places
  <2>3. PICK P, l :
           /\ P = {1, 2, 3, 4, 5, 6, 7, 8, 9, 11, 12} /\ l = 10
           /\ Places(k) \subseteq P /\ l = NnapiPosition(k, "layout")
    BY <2>2, Zenon
  <2>4. \A half \in BOOLEAN : \A p \in {1, 2, 3, 4, 5, 6, 7, 8, 9, 11, 12} :
           p < n => TypesAt(Op(k).kind, n, p, half) = {"INT32"}
    BY <1>4 DEF TypesAt, Tensors, Flags, Open, Numbers, Comparisons, Binary, Arithmetic,
       Reductions, Recurrent, Pools, Resizes
  <2>5. \A half \in BOOLEAN : TypesAt(Op(k).kind, n, 10, half) = {"BOOL"}
    BY <1>4 DEF TypesAt, Tensors, Flags, Open, Numbers, Comparisons, Binary, Arithmetic,
       Reductions, Recurrent, Pools, Resizes
  <2>6. \A p \in P : p < n =>
            \/ Input(Arguments(k), p).type = "INT32"
            \/ \A half \in BOOLEAN : TypesAt(Op(k).kind, n, p, half) = {"INT32"}
    BY <2>3, <2>4
  <2>7. l < n => \/ Input(Arguments(k), l).type = "BOOL"
                  \/ \A half \in BOOLEAN : TypesAt(Op(k).kind, n, l, half) = {"BOOL"}
    BY <2>3, <2>5
  <2>8. n = Len(Arguments(k))
    BY <1>1
  <2>9. P \subseteq Nat /\ l \in Nat /\ n \in Nat
    BY <2>3, <1>1
  <2>10. FormOf(k, n, P, l)
    BY <2>3, <2>6, <2>7, <2>8, <2>9, Zenon DEF FormOf
  <2>11. QED
    BY <2>10, FormWindowed, Zenon
<1>5. CASE n \in 7..8
  <2>1. FirstAt(k) = 1 /\ Paddings(k) = 1 /\ Extra(k) = 2
    BY <1>3, <1>5 DEF Paddings
  <2>2. Places(k) \subseteq {1, 2, 3, 4, 5, 6, 8, 9} /\ NnapiPosition(k, "layout") = 7
    BY <2>1, PlacesNamed DEF Places
  <2>3. PICK P, l :
           /\ P = {1, 2, 3, 4, 5, 6, 8, 9} /\ l = 7
           /\ Places(k) \subseteq P /\ l = NnapiPosition(k, "layout")
    BY <2>2, Zenon
  <2>4. \A half \in BOOLEAN : \A p \in {1, 2, 3, 4, 5, 6, 8, 9} :
           p < n => TypesAt(Op(k).kind, n, p, half) = {"INT32"}
    BY <1>5 DEF TypesAt, Tensors, Flags, Open, Numbers, Comparisons, Binary, Arithmetic,
       Reductions, Recurrent, Pools, Resizes
  <2>5. \A half \in BOOLEAN : TypesAt(Op(k).kind, n, 7, half) = {"BOOL"}
    BY <1>5 DEF TypesAt, Tensors, Flags, Open, Numbers, Comparisons, Binary, Arithmetic,
       Reductions, Recurrent, Pools, Resizes
  <2>6. \A p \in P : p < n =>
            \/ Input(Arguments(k), p).type = "INT32"
            \/ \A half \in BOOLEAN : TypesAt(Op(k).kind, n, p, half) = {"INT32"}
    BY <2>3, <2>4
  <2>7. l < n => \/ Input(Arguments(k), l).type = "BOOL"
                  \/ \A half \in BOOLEAN : TypesAt(Op(k).kind, n, l, half) = {"BOOL"}
    BY <2>3, <2>5
  <2>8. n = Len(Arguments(k))
    BY <1>1
  <2>9. P \subseteq Nat /\ l \in Nat /\ n \in Nat
    BY <2>3, <1>1
  <2>10. FormOf(k, n, P, l)
    BY <2>3, <2>6, <2>7, <2>8, <2>9, Zenon DEF FormOf
  <2>11. QED
    BY <2>10, FormWindowed, Zenon
<1>6. QED
  BY <1>2, <1>4, <1>5

LEMMA WindowedWide ==
  ASSUME NEW k, Len(Arguments(k)) \in Nat, Op(k).kind \in Convolutions \cup Pools, Windowed(k),
         Named(k)
  PROVE  AllWide(k)
<1> DEFINE a == Arguments(k)
<1>1. PICK g : g = ArgumentsOf(k)
  OBVIOUS
<1>2. ReadsOf(k).scalars = Scalars(a, g)
  BY <1>1 DEF ReadsOf, ArgumentsOf, Unary, Comparisons, Binary, Arithmetic, Reductions, Resizes,
     Convolutions, Pools, Reads, Convolution, Padded, Conv2d, DepthwiseConv2d, GroupedConv2d,
     TransposeConv2D, Pool, MaxPool2d, AveragePool2D, L2Pooling2D
<1>3. PICK W, B : /\ W = {g[n] : n \in DOMAIN g \ {"layout"}}
                  /\ B = {g[n] : n \in DOMAIN g \cap {"layout"}}
  OBVIOUS
<1>4. /\ \A name \in DOMAIN g : g[name] = NnapiPosition(k, name)
      /\ DOMAIN g \subseteq NamesOf(k)
  BY <1>1, Zenon DEF Named
<1>5. W \subseteq Places(k) /\ W \in SUBSET Nat
  BY <1>3, <1>4, PlacesNamed
<1>6. B \subseteq {NnapiPosition(k, "layout")} /\ B \in SUBSET Nat
  BY <1>3, <1>4, PlacesNamed
<1>7. \A p \in W : p < Len(a) => Input(a, p).type \in {"INT32", "FLOAT32"}
  BY <1>5 DEF Windowed
<1>8. \A p \in B : p < Len(a) => Input(a, p).type = "BOOL"
  BY <1>6, Zenon DEF Windowed
<1>9. \A r \in Words(a, W) : Wide(a, r)
  BY <1>5, <1>7, WordsWide
<1>10. \A r \in Bytes(a, B) : Wide(a, r)
  BY <1>6, <1>8, BytesWide
<1>11. Scalars(a, g) = Words(a, W) \cup Bytes(a, B)
  BY <1>3, Zenon DEF Scalars
<1>12. QED
  BY <1>2, <1>9, <1>10, <1>11, Zenon DEF AllWide

-----------------------------------------------------------------------------
(* What validate() reads, and what createNode() reads after it.            *)

CheckReaders == {"STRIDED_SLICE", "CHANNEL_SHUFFLE", "ROI_POOLING", "ROI_ALIGN"}

LEMMA FewChecksRead ==
  ASSUME NEW k, Op(k).kind \notin CheckReaders
  PROVE  Checks(k).reads = {}
  BY DEF CheckReaders, Checks, Conv2dCheck, DepthwiseConv2dCheck, GroupedConv2dCheck,
     TransposeConv2DCheck, AveragePool2DCheck, ResizeCheck, AddCheck, MeanCheck, SqueezeCheck,
     TransposeCheck, ConcatCheck, PReluCheck, EmbeddingLookupCheck, ExpandDimsCheck,
     L2NormalizationCheck, ReshapeCheck, FullyConnectedCheck, PadCheck, PadV2Check,
     BatchToSpaceCheck, SpaceToBatchCheck, InstanceNormalizationCheck, Accepts, Requires, Check

\* What the checks that read something say.
LEMMA ChecksOfReaders ==
  ASSUME NEW k
  PROVE  /\ Op(k).kind = "STRIDED_SLICE" => Checks(k).reads = Words(Arguments(k), {6})
         /\ Op(k).kind = "CHANNEL_SHUFFLE" => Checks(k).reads = Words(Arguments(k), {2})
         /\ Op(k).kind \in {"ROI_POOLING", "ROI_ALIGN"} =>
               /\ Checks(k).reads = Words(Arguments(k), {5, 6})
               /\ Checks(k).holds => Input(Arguments(k), 0).type = "TENSOR_FLOAT32"
         /\ Op(k).kind = "INSTANCE_NORMALIZATION" =>
               (Checks(k).holds => Input(Arguments(k), 0).type = "TENSOR_FLOAT32")
<1>1. CASE Op(k).kind = "STRIDED_SLICE"
  BY <1>1 DEF Checks, StridedSliceCheck, Check, Resizes
<1>2. CASE Op(k).kind = "CHANNEL_SHUFFLE"
  BY <1>2 DEF Checks, ChannelShuffleCheck, Check, Resizes
<1>3. CASE Op(k).kind = "ROI_POOLING"
  BY <1>3 DEF Checks, ROIPoolingCheck, Check, Resizes, InputType
<1>4. CASE Op(k).kind = "ROI_ALIGN"
  BY <1>4 DEF Checks, ROIAlignCheck, ROIPoolingCheck, Check, Resizes, InputType
<1>5. CASE Op(k).kind = "INSTANCE_NORMALIZATION"
  BY <1>5 DEF Checks, InstanceNormalizationCheck, Requires, Check, Resizes, InputType
<1>6. QED
  BY <1>1, <1>2, <1>3, <1>4, <1>5

LEMMA CheckReadsWide ==
  ASSUME NEW k, Given(k), Len(Arguments(k)) \in Nat, Checks(k).holds
  PROVE  \A r \in Checks(k).reads : Wide(Arguments(k), r)
<1> DEFINE a == Arguments(k)
           n == Len(Arguments(k))
<1>1. CASE Op(k).kind \notin CheckReaders
  BY <1>1, FewChecksRead
<1>2. ASSUME NEW S \in SUBSET Nat, NEW half \in BOOLEAN,
             half = (Input(a, 0).type = "TENSOR_FLOAT16"),
             \A p \in S : TypesAt(Op(k).kind, n, p, half) \subseteq {"INT32", "FLOAT32"},
             Checks(k).reads = Words(a, S)
      PROVE  \A r \in Checks(k).reads : Wide(a, r)
  <2>1. ASSUME NEW p \in S, p < n
        PROVE  Input(a, p).type \in {"INT32", "FLOAT32"}
    <3>1. TypesAt(Op(k).kind, n, p, half) \subseteq {"INT32", "FLOAT32"} /\ p \in Nat
      BY <1>2
    <3>2. QED
      BY <1>2, <2>1, <3>1, GivenType
  <2>2. \A r \in Words(a, S) : Wide(a, r)
    BY <2>1, WordsWide
  <2>3. QED
    BY <1>2, <2>2, Zenon
<1>3. PICK half \in BOOLEAN : half = (Input(a, 0).type = "TENSOR_FLOAT16")
  OBVIOUS
<1>4. CASE Op(k).kind = "STRIDED_SLICE"
  <2>1. \A p \in {6} : TypesAt(Op(k).kind, n, p, half) \subseteq {"INT32", "FLOAT32"}
    BY <1>4 DEF TypesAt, Tensors, Flags, Open, Numbers, Comparisons, Binary, Arithmetic,
       Reductions, Recurrent, Pools, Resizes
  <2>2. Checks(k).reads = Words(a, {6}) /\ {6} \in SUBSET Nat
    BY <1>4, ChecksOfReaders
  <2>3. QED
    BY <1>2, <1>3, <2>1, <2>2, Zenon
<1>5. CASE Op(k).kind = "CHANNEL_SHUFFLE"
  <2>1. \A p \in {2} : TypesAt(Op(k).kind, n, p, half) \subseteq {"INT32", "FLOAT32"}
    BY <1>5 DEF TypesAt, Tensors, Flags, Open, Numbers, Comparisons, Binary, Arithmetic,
       Reductions, Recurrent, Pools, Resizes
  <2>2. Checks(k).reads = Words(a, {2}) /\ {2} \in SUBSET Nat
    BY <1>5, ChecksOfReaders
  <2>3. QED
    BY <1>2, <1>3, <2>1, <2>2, Zenon
<1>6. CASE Op(k).kind \in {"ROI_POOLING", "ROI_ALIGN"}
  <2>1. /\ Checks(k).reads = Words(a, {5, 6}) /\ {5, 6} \in SUBSET Nat
        /\ Input(a, 0).type = "TENSOR_FLOAT32"
    BY <1>6, ChecksOfReaders
  <2>2. \A p \in {5, 6} : TypesAt(Op(k).kind, n, p, FALSE) \subseteq {"INT32", "FLOAT32"}
    BY <1>6 DEF TypesAt, Tensors, Flags, Open, Numbers, Comparisons, Binary, Arithmetic,
       Reductions, Recurrent, Pools, Resizes
  <2>3. (Input(a, 0).type = "TENSOR_FLOAT16") = FALSE
    BY <2>1
  <2>4. QED
    BY <1>2, <2>1, <2>2, <2>3, Zenon
<1>7. QED
  BY <1>1, <1>4, <1>5, <1>6 DEF CheckReaders

\* The arguments of a model that NNAPI lets through.
LEMMA CalledGiven ==
  ASSUME Admitted(model), Called(model), NEW k \in Ops
  PROVE  Given(k) /\ Len(Arguments(k)) \in Nat /\ Len(Arguments(k)) >= 1
<1> DEFINE a == Arguments(k)
<1>1. PICK n \in Nat : n = Len(a) /\ n = Len(Op(k).ins)
  BY GivenTypes
<1>2. n >= 1
  <2>1. 0 \in ReadsOf(k).nodes
    BY ReadsInRange
  <2>2. 0 < Len(Op(k).ins)
    BY <2>1, ReadsInRange, Zenon
  <2>3. QED
    BY <1>1, <2>2
<1>3. ASSUME NEW p \in Nat, p < n
      PROVE  Input(a, p) = Operand(In(k, p)) /\ In(k, p) \in Operands
  <2>1. Input(a, p) = model.operands[Op(k).ins[p + 1]]
    BY <1>1, <1>3, GivenTypes
  <2>2. In(k, p) \in Operands
    BY <1>1, <1>3, InRange
  <2>3. QED
    BY <2>1, <2>2, Zenon DEF Operand, In
<1>4. PICK half : half = (Input(a, 0).type = "TENSOR_FLOAT16")
  OBVIOUS
<1>5. half = (model.operands[Op(k).ins[0 + 1]].type = "TENSOR_FLOAT16")
  BY <1>1, <1>2, <1>4, GivenTypes
<1>6. \A p \in 0..(n - 1) :
         LET arg == model.operands[Op(k).ins[p + 1]] IN
         /\ arg.type \in TypesAt(Op(k).kind, n, p, half)
         /\ arg.rank = 0 \/ arg.rank >= RankAt(Op(k).kind, p)
  BY <1>1, <1>5, Zenon DEF Called, Op, Ops
<1>7. ASSUME NEW p \in 0..(n - 1)
      PROVE  /\ Input(a, p) = Operand(In(k, p)) /\ In(k, p) \in Operands
             /\ Input(a, p).type \in TypesAt(Op(k).kind, n, p, half)
             /\ Input(a, p).rank = 0 \/ Input(a, p).rank >= RankAt(Op(k).kind, p)
  <2>1. p \in Nat /\ p < n
    OBVIOUS
  <2>2. Input(a, p) = model.operands[Op(k).ins[p + 1]]
    BY <1>1, <2>1, GivenTypes
  <2>3. QED
    BY <1>3, <1>6, <2>1, <2>2, Zenon
<1>8. QED
  BY <1>1, <1>2, <1>4, <1>7, Zenon DEF Given

\* The forms of convolutions and pools.
LEMMA AllNamed ==
  ASSUME Admitted(model), Formed(model), NEW k \in Ops, Op(k).kind \in Convolutions \cup Pools
  PROVE  Named(k)
  BY ConvAgrees, DepthwiseAgrees, GroupedAgrees, TransposeAgrees, PoolAgrees DEF Convolutions

LEMMA AllWindowed ==
  ASSUME Admitted(model), Formed(model), NEW k \in Ops, Given(k),
         Op(k).kind \in Convolutions \cup Pools
  PROVE  Windowed(k)
  BY ConvWindowed, DepthwiseWindowed, GroupedWindowed, TransposeWindowed, PoolWindowed
     DEF Convolutions

\* Every scalar has the width createNode() reads it with, once validate() has let the
\* operation through.
LEMMA ScalarsWide ==
  ASSUME Admitted(model), Formed(model), Called(model), NEW k \in Ops, Checks(k).holds
  PROVE  AllWide(k)
<1>1. Given(k) /\ Len(Arguments(k)) \in Nat /\ Len(Arguments(k)) >= 1
  BY CalledGiven
<1>2. CASE Op(k).kind \in Scalarless
  BY <1>2, NoneWide
<1>3. CASE Op(k).kind \in WordReaders
  BY <1>1, <1>3, WordReadersWide
<1>4. CASE Op(k).kind \in FlagReaders
  BY <1>1, <1>4, FlagReadersWide
<1>5. CASE Op(k).kind \in NumberReaders
  BY <1>1, <1>5, NumberReadersWide
<1>6. CASE Op(k).kind \in FloatReaders
  <2>1. Input(Arguments(k), 0).type = "TENSOR_FLOAT32"
    BY <1>6, ChecksOfReaders DEF FloatReaders
  <2>2. QED
    BY <1>1, <1>6, <2>1, FloatReadersWide
<1>7. CASE Op(k).kind \in Resizes
  <2>1. Len(Arguments(k)) >= 3
    BY <1>7, InRange DEF LeastArguments, Unary, Comparisons, Binary, Arithmetic, Reductions, Resizes
  <2>2. /\ Input(Arguments(k), 1) = model.operands[Op(k).ins[1 + 1]]
        /\ Input(Arguments(k), 2) = model.operands[Op(k).ins[2 + 1]]
    BY <1>1, <2>1, GivenTypes
  <2>3. LET arg(p) == model.operands[Op(k).ins[p + 1]]
        IN  arg(1).type = arg(2).type /\ arg(1).type \in {"INT32", "FLOAT16", "FLOAT32"}
    BY <1>7, Zenon DEF Called, Op, Ops
  <2>4. /\ Input(Arguments(k), 1).type = Input(Arguments(k), 2).type
        /\ Input(Arguments(k), 1).type \in {"INT32", "FLOAT16", "FLOAT32"}
    BY <2>2, <2>3, Zenon
  <2>5. QED
    BY <1>1, <1>7, <2>4, ResizesWide
<1>8. CASE Op(k).kind \in Convolutions \cup Pools
  <2>1. Named(k) /\ Windowed(k)
    BY <1>1, <1>8, AllNamed, AllWindowed
  <2>2. QED
    BY <1>1, <1>8, <2>1, WindowedWide
<1>9. Op(k).kind \in Scalarless \cup WordReaders \cup FlagReaders \cup NumberReaders \cup FloatReaders
                     \cup Resizes \cup Convolutions \cup Pools
  BY OpTypes DEF Kinds, SpatialKinds, Scalarless, WordReaders, FlagReaders, NumberReaders,
     FloatReaders
<1>10. QED
  BY <1>2, <1>3, <1>4, <1>5, <1>6, <1>7, <1>8, <1>9

LEMMA LifeTypes ==
  ASSUME Admitted(model), NEW i \in Operands
  PROVE  /\ Operand(i).rank \in Nat
         /\ Operand(i).life \in {"input", "output", "temp", "const", "none"}
<1>1. model.operands \in Seq(ArgumentType(Scales))
  BY DEF Admitted, ModelType
<1>2. model.operands[i] \in ArgumentType(Scales)
  BY <1>1 DEF Operands
<1>3. QED
  BY <1>2 DEF ArgumentType, Operand

LEMMA RefusedInRange ==
  ASSUME Admitted(model), NEW k \in Ops, NEW q \in RefusedEmpty(k)
  PROVE  q \in 0..(Len(Arguments(k)) - 1)
<1>1. PICK n \in Nat : n = Len(Op(k).ins)
  BY InRange
<1>2. Len(Arguments(k)) = n /\ n >= LeastArguments(Op(k).kind)
  BY <1>1, InRange
<1>3. CASE Op(k).kind \in {"CONV_2D", "TRANSPOSE_CONV_2D", "ROI_ALIGN"}
  <2>1. q \in 0..2
    BY <1>3 DEF RefusedEmpty
  <2>2. LeastArguments(Op(k).kind) \in 3..10
    BY <1>3, LeastTriple DEF TripleReaders
  <2>3. QED
    BY <1>2, <2>1, <2>2
<1>4. CASE Op(k).kind \in {"L2_NORMALIZATION", "INSTANCE_NORMALIZATION"}
  <2>1. q = 0
    BY <1>4 DEF RefusedEmpty
  <2>2. LeastArguments(Op(k).kind) \in 1..8
    BY <1>4, LeastFirst DEF FirstReaders
  <2>3. QED
    BY <1>2, <2>1, <2>2
<1>5. CASE Op(k).kind = "FULLY_CONNECTED"
  <2>1. q = 0
    BY <1>5 DEF RefusedEmpty
  <2>2. LeastArguments(Op(k).kind) = 4
    BY <1>5, LeastOther DEF OtherReaders
  <2>3. QED
    BY <1>2, <2>1, <2>2
<1>6. CASE Op(k).kind = "CONCATENATION"
  <2>1. q \in 0..(n - 2)
    BY <1>1, <1>6 DEF RefusedEmpty
  <2>2. QED
    BY <1>2, <2>1
<1>7. CASE Op(k).kind \notin {"CONV_2D", "TRANSPOSE_CONV_2D", "ROI_ALIGN", "L2_NORMALIZATION",
                              "INSTANCE_NORMALIZATION", "FULLY_CONNECTED", "CONCATENATION"}
  BY <1>7 DEF RefusedEmpty
<1>8. QED
  BY <1>3, <1>4, <1>5, <1>6, <1>7

-----------------------------------------------------------------------------
(* An operation that was let through and is given what it asks for is not   *)
(* faulty.                                                                  *)

\* A tensor with elements along its first dimension.
Present(a, p) == Input(a, p).rank > 0 /\ 0 \notin Input(a, p).zeros

\* Nothing that a client may get wrong is wrong.
LEMMA NothingUnchecked ==
  ASSUME NEW k, ~Unchecked(k)
  PROVE  LET a == Arguments(k) IN
         /\ \A p \in 0..(Len(a) - 1) :
               /\ Input(a, p).type \in ScalarTypes => IsConst(a, p)
               /\ Input(a, p).type \in TensorTypes => p \in RefusedEmpty(k) \/ ~IsZeroSized(a, p)
               /\ Input(a, p).life # "none"
               /\ ~\E j \in 1..(k - 1) : Op(j).kind = "CAST" /\ Op(j).outs[1] = In(k, p)
         /\ Op(k).kind = "TRANSPOSE_CONV_2D" /\ Len(a) = 9 => IsConst(a, 3)
         /\ Op(k).kind = "ROI_POOLING" => ~IsConst(a, 1) /\ IsConst(a, 2)
         /\ Op(k).kind # "CAST" /\ ~OutOfRange(k)
  BY Zenon DEF Unchecked

\* What is refused without elements has some.
LEMMA RefusedValid ==
  ASSUME NEW k, Checks(k).holds, Len(Arguments(k)) = Len(Op(k).ins), Len(Arguments(k)) \in Nat,
         NEW p \in RefusedEmpty(k), \A q \in RefusedEmpty(k) : Input(Arguments(k), q).rank \in Nat
  PROVE  ~IsZeroSized(Arguments(k), p)
<1> DEFINE a == Arguments(k)
<1>1. CASE Op(k).kind \in {"CONV_2D", "TRANSPOSE_CONV_2D"}
  <2>1. /\ Conv2dCheck(a).holds => IsValidTensor(a, 0) /\ IsValidTensor(a, 1)
        /\ TransposeConv2DCheck(a).holds => IsValidTensor(a, 0) /\ IsValidTensor(a, 1)
    BY DEF Conv2dCheck, TransposeConv2DCheck, Check
  <2>2. Checks(k) \in {Conv2dCheck(a), TransposeConv2DCheck(a)}
    <3>1. CASE Op(k).kind = "CONV_2D"
      BY <3>1 DEF Checks, Resizes
    <3>2. CASE Op(k).kind = "TRANSPOSE_CONV_2D"
      BY <3>2 DEF Checks, Resizes
    <3>3. QED
      BY <1>1, <3>1, <3>2
  <2>3. p \in {0, 1}
    BY <1>1 DEF RefusedEmpty
  <2>4. QED
    BY <2>1, <2>2, <2>3 DEF IsZeroSized, IsValidTensor
<1>2. CASE Op(k).kind = "ROI_ALIGN"
  <2>1. Checks(k).holds => \A q \in 0..2 : ~IsZeroSized(a, q)
    BY <1>2 DEF Checks, ROIAlignCheck, ROIPoolingCheck, Check, Resizes
  <2>2. p \in 0..2 /\ Input(a, p).rank \in Nat
    BY <1>2 DEF RefusedEmpty
  <2>3. QED
    BY <2>1, <2>2 DEF IsZeroSized, IsValidTensor
<1>3. CASE Op(k).kind \in {"L2_NORMALIZATION", "INSTANCE_NORMALIZATION"}
  <2>1. /\ L2NormalizationCheck(a).holds => IsValidTensor(a, 0)
        /\ InstanceNormalizationCheck(a).holds => IsValidTensor(a, 0)
    BY DEF L2NormalizationCheck, InstanceNormalizationCheck, Requires, Check
  <2>2. Checks(k) \in {L2NormalizationCheck(a), InstanceNormalizationCheck(a)}
    <3>1. CASE Op(k).kind = "L2_NORMALIZATION"
      BY <3>1 DEF Checks, Resizes
    <3>2. CASE Op(k).kind = "INSTANCE_NORMALIZATION"
      BY <3>2 DEF Checks, Resizes
    <3>3. QED
      BY <1>3, <3>1, <3>2
  <2>3. p = 0
    BY <1>3 DEF RefusedEmpty
  <2>4. QED
    BY <2>1, <2>2, <2>3 DEF IsZeroSized, IsValidTensor
<1>4. CASE Op(k).kind = "FULLY_CONNECTED"
  <2>1. Checks(k).holds => ~IsZeroSized(a, 0)
    BY <1>4 DEF Checks, FullyConnectedCheck, Requires, Check, Resizes
  <2>2. p = 0 /\ Input(a, p).rank \in Nat
    BY <1>4 DEF RefusedEmpty
  <2>3. QED
    BY <2>1, <2>2 DEF IsZeroSized, IsValidTensor
<1>5. CASE Op(k).kind = "CONCATENATION"
  <2>1. Checks(k).holds => \A q \in 0..(Len(a) - 2) : IsValidTensor(a, q)
    BY <1>5 DEF Checks, ConcatCheck, Requires, Check, Resizes
  <2>2. p \in 0..(Len(a) - 2)
    BY <1>5 DEF RefusedEmpty
  <2>3. QED
    BY <2>1, <2>2 DEF IsZeroSized, IsValidTensor
<1>6. CASE Op(k).kind \notin {"CONV_2D", "TRANSPOSE_CONV_2D", "ROI_ALIGN", "L2_NORMALIZATION",
                              "INSTANCE_NORMALIZATION", "FULLY_CONNECTED", "CONCATENATION"}
  BY <1>6 DEF RefusedEmpty
<1>7. QED
  BY <1>1, <1>2, <1>3, <1>4, <1>5, <1>6

\* Tensor arguments have elements.
LEMMA TensorsValid ==
  ASSUME Admitted(model), Called(model), NEW k \in Ops, Checks(k).holds, ~Unchecked(k),
         NEW p \in Nat, p < Len(Arguments(k)), Input(Arguments(k), p).type \in TensorTypes
  PROVE  /\ Present(Arguments(k), p)
         /\ Input(Arguments(k), p) = Operand(In(k, p)) /\ In(k, p) \in Operands
         /\ Input(Arguments(k), p).life \in {"input", "output", "temp", "const"}
<1> DEFINE a == Arguments(k)
<1>1. Given(k) /\ Len(a) \in Nat /\ Len(a) = Len(Op(k).ins)
  BY CalledGiven, InRange
<1>2. p \in 0..(Len(a) - 1)
  BY <1>1
<1>3. Input(a, p) = Operand(In(k, p)) /\ In(k, p) \in Operands
  BY <1>1, <1>2, Zenon DEF Given
<1>4. Input(a, p).rank \in Nat /\ Input(a, p).life \in {"input", "output", "temp", "const", "none"}
  BY <1>3, LifeTypes
<1>5. /\ Input(a, p).type \in TensorTypes => p \in RefusedEmpty(k) \/ ~IsZeroSized(a, p)
      /\ Input(a, p).life # "none"
  BY <1>2, NothingUnchecked, Zenon
<1>6. ASSUME p \in RefusedEmpty(k)
      PROVE  ~IsZeroSized(a, p)
  <2>1. ASSUME NEW q \in RefusedEmpty(k)
        PROVE  Input(a, q).rank \in Nat
    <3>1. q \in 0..(Len(a) - 1)
      BY <1>1, RefusedInRange
    <3>2. Input(a, q) = Operand(In(k, q)) /\ In(k, q) \in Operands
      BY <1>1, <3>1, Zenon DEF Given
    <3>3. QED
      BY <3>2, LifeTypes
  <2>2. QED
    BY <1>1, <1>6, <2>1, RefusedValid
<1>7. QED
  BY <1>3, <1>4, <1>5, <1>6 DEF IsZeroSized, Present

LEMMA GivenTensor ==
  ASSUME NEW k, Given(k), Len(Arguments(k)) \in Nat, NEW p \in Nat, p < Len(Arguments(k)),
         p \in Tensors(Op(k).kind, Len(Arguments(k)))
  PROVE  Input(Arguments(k), p).type \in TensorTypes
<1>1. p \in 0..(Len(Arguments(k)) - 1)
  OBVIOUS
<1>2. TypesAt(Op(k).kind, Len(Arguments(k)), p, Input(Arguments(k), 0).type = "TENSOR_FLOAT16")
         = TensorTypes
  BY Zenon DEF TypesAt
<1>3. QED
  BY <1>1, <1>2, Zenon DEF Given

\* What is read as a node is a tensor.
LEMMA NodesAreTensors ==
  ASSUME Admitted(model), NEW k \in Ops, NEW p \in ReadsOf(k).nodes
  PROVE  p \in Tensors(Op(k).kind, Len(Arguments(k)))
<1> DEFINE kind == Op(k).kind
           n == Len(Arguments(k))
<1>1. CASE kind \in Unary \cup FirstReaders \cup Pools \cup Resizes
  <2>1. p = 0
    BY <1>1, ReadsFirst
  <2>2. CASE kind \in Unary \cup Pools \cup Resizes
    BY <2>1, <2>2 DEF Tensors, Unary, Pools, Resizes, Comparisons, Binary, Arithmetic, Reductions,
       Recurrent
  <2>3. CASE kind \in FirstReaders
    BY <2>1, <2>3 DEF Tensors, FirstReaders, Comparisons, Binary, Arithmetic, Reductions, Recurrent
  <2>4. QED
    BY <1>1, <2>2, <2>3
<1>2. CASE kind \in Comparisons \cup Binary \cup Arithmetic \cup Reductions \cup PairReaders
  <2>1. p \in 0..1
    BY <1>2, ReadsPair
  <2>2. Tensors(kind, n) = 0..1
    BY <1>2 DEF Tensors, PairReaders, Comparisons, Binary, Arithmetic, Reductions, Recurrent
  <2>3. QED
    BY <2>1, <2>2
<1>3. CASE kind \in TripleReaders
  <2>1. p \in 0..2
    BY <1>3, ReadsTriple
  <2>2. 0..2 \subseteq Tensors(kind, n)
    BY <1>3 DEF Tensors, TripleReaders, Comparisons, Binary, Arithmetic, Reductions, Recurrent
  <2>3. QED
    BY <2>1, <2>2
<1>4. CASE kind \in OtherReaders
  <2>1. CASE kind = "CONCATENATION"
    <3>1. ReadsOf(k).nodes = 0..(n - 2)
      BY <1>4, <2>1, ReadsOther
    <3>2. QED
      BY <2>1, <3>1 DEF Tensors, Recurrent, Comparisons, Binary, Arithmetic, Reductions
  <2>2. CASE kind = "FULLY_CONNECTED"
    <3>1. ReadsOf(k).nodes \subseteq {0, 1, 2}
      BY <1>4, <2>2, ReadsOther
    <3>2. QED
      BY <2>2, <3>1 DEF Tensors, Recurrent, Comparisons, Binary, Arithmetic, Reductions
  <2>3. CASE kind = "GATHER"
    <3>1. ReadsOf(k).nodes = {0, 2}
      BY <1>4, <2>3, ReadsOther
    <3>2. QED
      BY <2>3, <3>1 DEF Tensors, Recurrent, Comparisons, Binary, Arithmetic, Reductions
  <2>4. CASE kind \in {"RNN", "UNIDIRECTIONAL_SEQUENCE_RNN"}
    <3>1. ReadsOf(k).nodes = 0..4
      BY <1>4, <2>4, ReadsOther
    <3>2. QED
      BY <2>4, <3>1 DEF Tensors, Recurrent, Comparisons, Binary, Arithmetic, Reductions
  <2>5. CASE kind = "STRIDED_SLICE"
    <3>1. ReadsOf(k).nodes = {0, 1, 2, 3}
      BY <1>4, <2>5, ReadsOther
    <3>2. QED
      BY <2>5, <3>1 DEF Tensors, Recurrent, Comparisons, Binary, Arithmetic, Reductions
  <2>6. CASE kind = "TRANSPOSE"
    BY <2>6, ReadsOther DEF Tensors, OtherReaders, Comparisons, Binary, Arithmetic, Reductions,
       Recurrent
  <2>7. QED
    BY <1>4, <2>1, <2>2, <2>3, <2>4, <2>5, <2>6 DEF OtherReaders
<1>5. QED
  BY <1>1, <1>2, <1>3, <1>4, OpTypes, Readers

\* A tensor of a known layout has as many dimensions.
LEMMA KnownRank ==
  ASSUME NEW k, Given(k), Len(Arguments(k)) \in Nat, NEW p \in Nat, p < Len(Arguments(k)),
         Present(Arguments(k), p)
  PROVE  Input(Arguments(k), p).rank > 0 /\ Input(Arguments(k), p).rank >= RankAt(Op(k).kind, p)
<1>1. p \in 0..(Len(Arguments(k)) - 1)
  OBVIOUS
<1>2. Input(Arguments(k), p).rank = 0 \/ Input(Arguments(k), p).rank >= RankAt(Op(k).kind, p)
  BY <1>1, Zenon DEF Given
<1>3. QED
  BY <1>2 DEF Present

\* A scalar of the right width that is a constant is read.
LEMMA WideReadable ==
  ASSUME NEW k, Given(k), ~Unchecked(k), NEW r, Wide(Arguments(k), r)
  PROVE  Readable(k, r)
<1>1. r.at \in 0..(Len(Arguments(k)) - 1)
  BY Zenon DEF Wide
<1>2. Input(Arguments(k), r.at).life = "const"
  BY <1>1, NothingUnchecked, Zenon DEF Wide, IsConst
<1>3. Input(Arguments(k), r.at) = Operand(In(k, r.at))
  BY <1>1, Zenon DEF Given
<1>4. Size(Input(Arguments(k), r.at).type) = r.bytes
  BY Zenon DEF Wide
<1>5. QED
  BY <1>2, <1>3, <1>4, Zenon DEF Readable

\* What is read as it is.
LEMMA BareRead ==
  ASSUME NEW k, Op(k).kind \in Kinds
  PROVE  ReadsOf(k).bare = IF Op(k).kind = "ROI_POOLING" THEN {1} ELSE {}
<1>1. CASE Op(k).kind \in Unary \cup Comparisons \cup Binary \cup Arithmetic \cup Reductions
  BY <1>1 DEF ReadsOf, Unary, Comparisons, Binary, Arithmetic, Reductions, Reads, Abs, Equal, Add,
     ReduceSum
<1>2. CASE Op(k).kind \in Convolutions
  BY <1>2 DEF Convolutions, ReadsOf, Unary, Comparisons, Binary, Arithmetic, Reductions, Reads,
     Convolution, Padded, Conv2d, DepthwiseConv2d, GroupedConv2d, TransposeConv2D
<1>3. CASE Op(k).kind \in Pools \cup Resizes
  BY <1>3 DEF Pools, Resizes, ReadsOf, Unary, Comparisons, Binary, Arithmetic, Reductions, Reads,
     Pool, MaxPool2d, AveragePool2D, L2Pooling2D, ResizeBilinear, ResizeNearestNeighbor
<1>4. CASE Op(k).kind \in {"DEPTH_TO_SPACE", "SPACE_TO_DEPTH", "BATCH_TO_SPACE_ND",
                           "SPACE_TO_BATCH_ND", "INSTANCE_NORMALIZATION", "ROI_ALIGN", "ROI_POOLING"}
  BY <1>4 DEF ReadsOf, Unary, Comparisons, Binary, Arithmetic, Reductions, Reads, DepthToSpace,
     SpaceToDepth, BatchToSpace, SpaceToBatch, InstanceNormalization, ROIAlign, ROIPooling
<1>5. CASE Op(k).kind \in {"ARGMAX", "ARGMIN", "CAST", "CHANNEL_SHUFFLE", "CONCATENATION",
                           "DEQUANTIZE", "EMBEDDING_LOOKUP", "EXPAND_DIMS", "FULLY_CONNECTED",
                           "GATHER", "L2_NORMALIZATION", "LOG_SOFTMAX", "MEAN"}
  BY <1>5 DEF ReadsOf, Unary, Comparisons, Binary, Arithmetic, Reductions, Reads, Argmax, Cast,
     ChannelShuffle, Concat, Dequantize, EmbeddingLookup, ExpandDims, FullyConnected, Gather,
     L2Normalization, LogSoftmax, Softmax, Mean
<1>6. CASE Op(k).kind \in {"PAD", "PAD_V2", "QUANTIZE", "RESHAPE", "RNN", "SELECT", "SOFTMAX",
                           "SPLIT", "SQUEEZE", "STRIDED_SLICE", "TOPK_V2", "TRANSPOSE",
                           "UNIDIRECTIONAL_SEQUENCE_RNN"}
  BY <1>6 DEF ReadsOf, Unary, Comparisons, Binary, Arithmetic, Reductions, Reads, Pad, PadV2,
     Quantize, Reshape, RNN, Select, Softmax, Split, Squeeze, StridedSlice, TopkV2, Transpose,
     UnidirectionalSequenceRNN
<1>7. QED
  BY <1>1, <1>2, <1>3, <1>4, <1>5, <1>6 DEF Kinds, SpatialKinds

LEMMA VectorsRead ==
  ASSUME NEW k, Op(k).kind \in Kinds
  PROVE  ReadsOf(k).vectors =
            CASE Op(k).kind \in {"PAD", "PAD_V2", "BATCH_TO_SPACE_ND", "RESHAPE"} -> {1}
              [] Op(k).kind = "SPACE_TO_BATCH_ND" -> {1, 2}
              [] Op(k).kind = "ROI_POOLING" -> {2}
              [] Op(k).kind = "TRANSPOSE_CONV_2D" -> IF Len(Arguments(k)) = 9 THEN {3} ELSE {}
              [] OTHER -> {}
<1>1. CASE Op(k).kind \in Unary \cup Comparisons \cup Binary \cup Arithmetic \cup Reductions
  BY <1>1 DEF ReadsOf, Unary, Comparisons, Binary, Arithmetic, Reductions, Reads, Abs, Equal, Add,
     ReduceSum
<1>2. CASE Op(k).kind \in Convolutions
  BY <1>2 DEF Convolutions, ReadsOf, Unary, Comparisons, Binary, Arithmetic, Reductions, Reads,
     Convolution, Padded, Conv2d, DepthwiseConv2d, GroupedConv2d, TransposeConv2D
<1>3. CASE Op(k).kind \in Pools \cup Resizes
  BY <1>3 DEF Pools, Resizes, ReadsOf, Unary, Comparisons, Binary, Arithmetic, Reductions, Reads,
     Pool, MaxPool2d, AveragePool2D, L2Pooling2D, ResizeBilinear, ResizeNearestNeighbor
<1>4. CASE Op(k).kind \in {"DEPTH_TO_SPACE", "SPACE_TO_DEPTH", "BATCH_TO_SPACE_ND",
                           "SPACE_TO_BATCH_ND", "INSTANCE_NORMALIZATION", "ROI_ALIGN", "ROI_POOLING"}
  BY <1>4 DEF ReadsOf, Unary, Comparisons, Binary, Arithmetic, Reductions, Reads, DepthToSpace,
     SpaceToDepth, BatchToSpace, SpaceToBatch, InstanceNormalization, ROIAlign, ROIPooling
<1>5. CASE Op(k).kind \in {"ARGMAX", "ARGMIN", "CAST", "CHANNEL_SHUFFLE", "CONCATENATION",
                           "DEQUANTIZE", "EMBEDDING_LOOKUP", "EXPAND_DIMS", "FULLY_CONNECTED",
                           "GATHER", "L2_NORMALIZATION", "LOG_SOFTMAX", "MEAN"}
  BY <1>5 DEF ReadsOf, Unary, Comparisons, Binary, Arithmetic, Reductions, Reads, Argmax, Cast,
     ChannelShuffle, Concat, Dequantize, EmbeddingLookup, ExpandDims, FullyConnected, Gather,
     L2Normalization, LogSoftmax, Softmax, Mean
<1>6. CASE Op(k).kind \in {"PAD", "PAD_V2", "QUANTIZE", "RESHAPE", "RNN", "SELECT", "SOFTMAX",
                           "SPLIT", "SQUEEZE", "STRIDED_SLICE", "TOPK_V2", "TRANSPOSE",
                           "UNIDIRECTIONAL_SEQUENCE_RNN"}
  BY <1>6 DEF ReadsOf, Unary, Comparisons, Binary, Arithmetic, Reductions, Reads, Pad, PadV2,
     Quantize, Reshape, RNN, Select, Softmax, Split, Squeeze, StridedSlice, TopkV2, Transpose,
     UnidirectionalSequenceRNN
<1>7. QED
  BY <1>1, <1>2, <1>3, <1>4, <1>5, <1>6 DEF Kinds, SpatialKinds

LEMMA ShapesRead ==
  ASSUME NEW k, Op(k).kind \in Kinds
  PROVE  ReadsOf(k).shapes =
            CASE Op(k).kind \in Convolutions -> {Shape(2, 1)}
              [] Op(k).kind \in Pools -> {Shape(0, 4)}
              [] Op(k).kind = "FULLY_CONNECTED" -> {Shape(0, 2), Shape(1, 2)}
              [] Op(k).kind = "UNIDIRECTIONAL_SEQUENCE_RNN" -> {Shape(0, 2)}
              [] OTHER -> {}
<1>1. CASE Op(k).kind \in Unary \cup Comparisons \cup Binary \cup Arithmetic \cup Reductions
  BY <1>1 DEF ReadsOf, Unary, Comparisons, Binary, Arithmetic, Reductions, Reads, Abs, Equal, Add,
     ReduceSum, Convolutions, Pools
<1>2. CASE Op(k).kind \in Convolutions
  <2>1. \A a, names : Convolution(a, names).shapes = {Shape(2, 1)}
    BY DEF Convolution, Reads
  <2>2. \A a, nchw : /\ Conv2d(a).shapes = {Shape(2, 1)}
                     /\ DepthwiseConv2d(a, nchw).shapes = {Shape(2, 1)}
                     /\ GroupedConv2d(a).shapes = {Shape(2, 1)}
    BY DEF Conv2d, DepthwiseConv2d, GroupedConv2d, Padded, Convolution, Reads
  <2>3. \A a : TransposeConv2D(a).shapes = {Shape(2, 1)}
    BY DEF Convolution, Reads, TransposeConv2D
  <2>4. ReadsOf(k).shapes = {Shape(2, 1)}
    BY <1>2, <2>2, <2>3 DEF Convolutions, ReadsOf, Unary, Comparisons, Binary, Arithmetic,
       Reductions
  <2>5. QED
    BY <1>2, <2>4 DEF Convolutions, Pools
<1>3. CASE Op(k).kind \in Pools \cup Resizes
  BY <1>3 DEF Pools, Resizes, ReadsOf, Unary, Comparisons, Binary, Arithmetic, Reductions, Reads,
     Pool, MaxPool2d, AveragePool2D, L2Pooling2D, ResizeBilinear, ResizeNearestNeighbor, Convolutions
<1>4. CASE Op(k).kind \in {"DEPTH_TO_SPACE", "SPACE_TO_DEPTH", "BATCH_TO_SPACE_ND",
                           "SPACE_TO_BATCH_ND", "INSTANCE_NORMALIZATION", "ROI_ALIGN", "ROI_POOLING"}
  BY <1>4 DEF ReadsOf, Unary, Comparisons, Binary, Arithmetic, Reductions, Reads, DepthToSpace,
     SpaceToDepth, BatchToSpace, SpaceToBatch, InstanceNormalization, ROIAlign, ROIPooling,
     Convolutions, Pools
<1>5. CASE Op(k).kind \in {"ARGMAX", "ARGMIN", "CAST", "CHANNEL_SHUFFLE", "CONCATENATION",
                           "DEQUANTIZE", "EMBEDDING_LOOKUP", "EXPAND_DIMS", "FULLY_CONNECTED",
                           "GATHER", "L2_NORMALIZATION", "LOG_SOFTMAX", "MEAN"}
  BY <1>5 DEF ReadsOf, Unary, Comparisons, Binary, Arithmetic, Reductions, Reads, Argmax, Cast,
     ChannelShuffle, Concat, Dequantize, EmbeddingLookup, ExpandDims, FullyConnected, Gather,
     L2Normalization, LogSoftmax, Softmax, Mean, Convolutions, Pools
<1>6. CASE Op(k).kind \in {"PAD", "PAD_V2", "QUANTIZE", "RESHAPE", "RNN", "SELECT", "SOFTMAX",
                           "SPLIT", "SQUEEZE", "STRIDED_SLICE", "TOPK_V2", "TRANSPOSE",
                           "UNIDIRECTIONAL_SEQUENCE_RNN"}
  BY <1>6 DEF ReadsOf, Unary, Comparisons, Binary, Arithmetic, Reductions, Reads, Pad, PadV2,
     Quantize, Reshape, RNN, Select, Softmax, Split, Squeeze, StridedSlice, TopkV2, Transpose,
     UnidirectionalSequenceRNN, Convolutions, Pools
<1>7. QED
  BY <1>1, <1>2, <1>3, <1>4, <1>5, <1>6 DEF Kinds, SpatialKinds

\* Divisions and strays.
LEMMA PlainRead ==
  ASSUME NEW k, Op(k).kind \in Kinds \ (Convolutions \cup Pools),
         Op(k).kind \notin {"RESHAPE", "FULLY_CONNECTED", "STRIDED_SLICE"}
  PROVE  ReadsOf(k).divisors = {} /\ ReadsOf(k).extents = {} /\ ReadsOf(k).strays = {}
<1>1. CASE Op(k).kind \in Unary \cup Comparisons \cup Binary \cup Arithmetic \cup Reductions
  BY <1>1, Zenon DEF ReadsOf, Unary, Comparisons, Binary, Arithmetic, Reductions, Reads, Abs, Equal, Add,
     ReduceSum
<1>2. CASE Op(k).kind \in Resizes
  BY <1>2, Zenon DEF Resizes, ReadsOf, Unary, Comparisons, Binary, Arithmetic, Reductions, Reads,
     ResizeBilinear, ResizeNearestNeighbor
<1>3. CASE Op(k).kind \in {"DEPTH_TO_SPACE", "SPACE_TO_DEPTH", "BATCH_TO_SPACE_ND",
                           "SPACE_TO_BATCH_ND", "INSTANCE_NORMALIZATION", "ROI_ALIGN", "ROI_POOLING"}
  BY <1>3, Zenon DEF ReadsOf, Unary, Comparisons, Binary, Arithmetic, Reductions, Reads, DepthToSpace,
     SpaceToDepth, BatchToSpace, SpaceToBatch, InstanceNormalization, ROIAlign, ROIPooling
<1>4. CASE Op(k).kind \in {"ARGMAX", "ARGMIN", "CAST", "CHANNEL_SHUFFLE", "CONCATENATION",
                           "DEQUANTIZE", "EMBEDDING_LOOKUP", "EXPAND_DIMS", "GATHER",
                           "L2_NORMALIZATION", "LOG_SOFTMAX", "MEAN"}
  BY <1>4, Zenon DEF ReadsOf, Unary, Comparisons, Binary, Arithmetic, Reductions, Reads, Argmax, Cast,
     ChannelShuffle, Concat, Dequantize, EmbeddingLookup, ExpandDims, Gather, L2Normalization,
     LogSoftmax, Softmax, Mean
<1>5. CASE Op(k).kind \in {"PAD", "PAD_V2", "QUANTIZE", "RNN", "SELECT", "SOFTMAX", "SPLIT",
                           "SQUEEZE", "TOPK_V2", "TRANSPOSE", "UNIDIRECTIONAL_SEQUENCE_RNN"}
  BY <1>5, Zenon DEF ReadsOf, Unary, Comparisons, Binary, Arithmetic, Reductions, Reads, Pad, PadV2,
     Quantize, RNN, Select, Softmax, Split, Squeeze, TopkV2, Transpose, UnidirectionalSequenceRNN
<1>6. QED
  BY <1>1, <1>2, <1>3, <1>4, <1>5 DEF Kinds, SpatialKinds

LEMMA OthersDivide ==
  ASSUME NEW k
  PROVE  LET r == ReadsOf(k) IN
         /\ Op(k).kind = "RESHAPE" => r.divisors = {1} /\ r.extents = {} /\ r.strays = {}
         /\ Op(k).kind = "FULLY_CONNECTED" =>
               r.divisors = {} /\ r.extents \subseteq {Extent(1, 1)} /\ r.strays = {}
         /\ Op(k).kind = "STRIDED_SLICE" =>
               r.divisors = {} /\ r.extents = {} /\ r.strays = {Stray(p, "wide") : p \in 4..6}
<1>1. ASSUME Op(k).kind = "RESHAPE"
      PROVE  LET r == ReadsOf(k) IN r.divisors = {1} /\ r.extents = {} /\ r.strays = {}
  BY <1>1 DEF ReadsOf, Unary, Comparisons, Binary, Arithmetic, Reductions, Reads, Reshape
<1>2. ASSUME Op(k).kind = "FULLY_CONNECTED"
      PROVE  LET r == ReadsOf(k) IN
             r.divisors = {} /\ r.extents \subseteq {Extent(1, 1)} /\ r.strays = {}
  BY <1>2 DEF ReadsOf, Unary, Comparisons, Binary, Arithmetic, Reductions, Reads, FullyConnected
<1>3. ASSUME Op(k).kind = "STRIDED_SLICE"
      PROVE  LET r == ReadsOf(k) IN
             r.divisors = {} /\ r.extents = {} /\ r.strays = {Stray(p, "wide") : p \in 4..6}
  BY <1>3 DEF ReadsOf, Unary, Comparisons, Binary, Arithmetic, Reductions, Reads, StridedSlice
<1>4. QED
  BY <1>1, <1>2, <1>3, Zenon

LEMMA WindowsDivide ==
  ASSUME NEW k
  PROVE  LET a == Arguments(k)
             given == ArgumentsOf(k)
             groups == {given[name] : name \in DOMAIN given \cap {"groups"}}
             r == ReadsOf(k)
         IN
         /\ Op(k).kind \in Pools \cup {"CONV_2D"} =>
               r.divisors = PaddingDivisors(a, given) /\ r.extents = {} /\ r.strays = {}
         /\ Op(k).kind = "DEPTHWISE_CONV_2D" =>
               /\ r.divisors = PaddingDivisors(a, given) /\ r.strays = {}
               /\ r.extents = {Extent(0, IF Op(k).nchw THEN 1 ELSE 3)}
         /\ Op(k).kind = "GROUPED_CONV_2D" =>
               /\ r.divisors = PaddingDivisors(a, given) \cup groups
               /\ r.extents = {} /\ r.strays = {}
         /\ Op(k).kind = "TRANSPOSE_CONV_2D" =>
               /\ r.divisors = {} /\ r.extents = {}
               /\ r.strays = IF Len(a) = 9 THEN {Stray(3, "short")} ELSE {}
<1> DEFINE a == Arguments(k)
           given == ArgumentsOf(k)
           groups == {given[name] : name \in DOMAIN given \cap {"groups"}}
           r == ReadsOf(k)
<1>1. ASSUME Op(k).kind \in Pools
      PROVE  r.divisors = PaddingDivisors(a, given) /\ r.extents = {} /\ r.strays = {}
  BY <1>1, Zenon DEF Pools, ReadsOf, ArgumentsOf, Unary, Comparisons, Binary, Arithmetic, Reductions,
     Resizes, Reads, Pool, MaxPool2d, AveragePool2D, L2Pooling2D
<1>2. ASSUME Op(k).kind = "CONV_2D"
      PROVE  r.divisors = PaddingDivisors(a, given) /\ r.extents = {} /\ r.strays = {}
  BY <1>2 DEF ReadsOf, ArgumentsOf, Pools, Unary, Comparisons, Binary, Arithmetic, Reductions,
     Reads, Convolution, Padded, Conv2d
<1>3. ASSUME Op(k).kind = "DEPTHWISE_CONV_2D"
      PROVE  /\ r.divisors = PaddingDivisors(a, given) /\ r.strays = {}
             /\ r.extents = {Extent(0, IF Op(k).nchw THEN 1 ELSE 3)}
  BY <1>3 DEF ReadsOf, ArgumentsOf, Pools, Unary, Comparisons, Binary, Arithmetic, Reductions,
     Reads, Convolution, Padded, DepthwiseConv2d
<1>4. ASSUME Op(k).kind = "GROUPED_CONV_2D"
      PROVE  /\ r.divisors = PaddingDivisors(a, given) \cup groups
             /\ r.extents = {} /\ r.strays = {}
  BY <1>4, Zenon DEF ReadsOf, ArgumentsOf, Pools, Unary, Comparisons, Binary, Arithmetic, Reductions,
     Reads, Convolution, Padded, GroupedConv2d
<1>5. ASSUME Op(k).kind = "TRANSPOSE_CONV_2D"
      PROVE  /\ r.divisors = {} /\ r.extents = {}
             /\ r.strays = IF Len(a) = 9 THEN {Stray(3, "short")} ELSE {}
  BY <1>5 DEF ReadsOf, Unary, Comparisons, Binary, Arithmetic, Reductions, Reads, Convolution,
     TransposeConv2D
<1>6. QED
  BY <1>1, <1>2, <1>3, <1>4, <1>5, Zenon

\* An operation has nodes for its tensors that are no constants.
Supplied(k) ==
    \A p \in 0..(Len(Arguments(k)) - 1) :
        Input(Arguments(k), p).type \in TensorTypes /\ ~IsConst(Arguments(k), p) =>
            nodes[In(k, p)] # Null

LEMMA NodesThere ==
  ASSUME Admitted(model), Called(model), NEW k \in Ops, Checks(k).holds, ~Unchecked(k), Supplied(k),
         NEW p \in ReadsOf(k).nodes
  PROVE  RawNode(k, p) # Null
<1> DEFINE a == Arguments(k)
<1>1. Given(k) /\ Len(a) \in Nat /\ Len(a) = Len(Op(k).ins)
  BY CalledGiven, InRange
<1>2. p \in Nat /\ p < Len(a)
  BY <1>1, ReadsInRange
<1>3. p \in Tensors(Op(k).kind, Len(a))
  BY NodesAreTensors
<1>4. Input(a, p).type \in TensorTypes
  BY <1>1, <1>2, <1>3, GivenTensor
<1>5. Input(a, p) = Operand(In(k, p)) /\ In(k, p) \in Operands
  BY <1>2, <1>4, TensorsValid
<1>6. CASE Operand(In(k, p)).life = "const"
  <2>1. RawNode(k, p) = Fit(In(k, p))
    BY <1>4, <1>5, <1>6, Zenon DEF RawNode, Source
  <2>2. Fit(In(k, p)) \in NodeType
    BY <1>4, <1>5, FitTypes
  <2>3. QED
    BY <2>1, <2>2, SentinelsAssumption
<1>7. CASE Operand(In(k, p)).life # "const"
  <2>1. p \in 0..(Len(a) - 1)
    BY <1>1, <1>2
  <2>2. nodes[In(k, p)] # Null
    BY <1>4, <1>5, <1>7, <2>1, Zenon DEF Supplied, IsConst
  <2>3. QED
    BY <1>7, <2>2, Zenon DEF RawNode
<1>8. QED
  BY <1>6, <1>7

LEMMA RegionsThere ==
  ASSUME Admitted(model), Called(model), NEW k \in Ops, ~Unchecked(k), Supplied(k),
         Op(k).kind = "ROI_POOLING"
  PROVE  nodes[In(k, 1)] # Null
<1> DEFINE a == Arguments(k)
<1>1. Given(k) /\ Len(a) \in Nat /\ Len(a) >= LeastArguments("ROI_POOLING")
  BY CalledGiven, InRange
<1>2. LeastArguments("ROI_POOLING") \in 1..8 /\ LeastArguments("ROI_POOLING") >= 2
  BY DEF LeastArguments, Unary, Comparisons, Binary, Arithmetic, Reductions, Resizes, Pools
<1>3. 1 \in Tensors("ROI_POOLING", Len(a))
  BY DEF Tensors, Comparisons, Binary, Arithmetic, Reductions, Recurrent
<1>4. 1 \in 0..(Len(a) - 1) /\ 1 < Len(a)
  BY <1>1, <1>2
<1>5. Input(a, 1).type \in TensorTypes
  BY <1>1, <1>3, <1>4, GivenTensor
<1>6. ~IsConst(a, 1)
  BY NothingUnchecked, Zenon
<1>7. QED
  BY <1>4, <1>5, <1>6, Zenon DEF Supplied

LEMMA VectorsThere ==
  ASSUME Admitted(model), Called(model), NEW k \in Ops, Checks(k).holds, ~Unchecked(k),
         NEW p \in ReadsOf(k).vectors
  PROVE  ~UnreadableVector(k, p)
<1> DEFINE a == Arguments(k)
           kind == Op(k).kind
<1>1. PICK n \in Nat : n = Len(a)
  BY CalledGiven
<1>2. Given(k) /\ n >= LeastArguments(kind) /\ kind \in Kinds
  BY <1>1, CalledGiven, InRange, OpTypes
<1>3. ASSUME NEW q \in Nat, q < n, IsConst(a, q), kind # "TRANSPOSE_CONV_2D"
      PROVE  ~UnreadableVector(k, q)
  <2>1. q \in 0..(n - 1)
    BY <1>3
  <2>2. Input(a, q) = Operand(In(k, q))
    BY <1>1, <1>2, <2>1, Zenon DEF Given
  <2>3. QED
    BY <1>3, <2>2, Zenon DEF UnreadableVector, IsConst
<1>4. CASE kind \in {"PAD", "PAD_V2", "BATCH_TO_SPACE_ND", "RESHAPE"}
  <2>1. p = 1
    BY <1>2, <1>4, VectorsRead
  <2>2. IsConst(a, 1)
    <3>1. /\ PadCheck(a).holds => IsConst(a, 1)
          /\ PadV2Check(a).holds => IsConst(a, 1)
          /\ BatchToSpaceCheck(a).holds => IsConst(a, 1)
          /\ ReshapeCheck(a).holds => IsConst(a, 1)
      BY DEF PadCheck, PadV2Check, BatchToSpaceCheck, ReshapeCheck, Requires, Check
    <3>2. Checks(k) \in {PadCheck(a), PadV2Check(a), BatchToSpaceCheck(a), ReshapeCheck(a)}
      <4>1. CASE kind = "PAD"
        BY <4>1 DEF Checks, Resizes
      <4>2. CASE kind = "PAD_V2"
        BY <4>2 DEF Checks, Resizes
      <4>3. CASE kind = "BATCH_TO_SPACE_ND"
        BY <4>3 DEF Checks, Resizes
      <4>4. CASE kind = "RESHAPE"
        BY <4>4 DEF Checks, Resizes
      <4>5. QED
        BY <1>4, <4>1, <4>2, <4>3, <4>4
    <3>3. QED
      BY <3>1, <3>2
  <2>3. LeastArguments(kind) \in 2..3
    BY <1>4 DEF LeastArguments, Unary, Comparisons, Binary, Arithmetic, Reductions, Resizes,
       Pools
  <2>4. 1 < n
    BY <1>2, <2>3
  <2>5. QED
    BY <1>3, <1>4, <2>1, <2>2, <2>4
<1>5. CASE kind = "SPACE_TO_BATCH_ND"
  <2>1. p \in {1, 2}
    BY <1>2, <1>5, VectorsRead
  <2>2. IsConst(a, 1) /\ IsConst(a, 2)
    BY <1>5 DEF Checks, SpaceToBatchCheck, Requires, Check, Resizes
  <2>3. LeastArguments(kind) = 3
    BY <1>5 DEF LeastArguments, Unary, Comparisons, Binary, Arithmetic, Reductions, Resizes,
       Pools
  <2>4. 1 < n /\ 2 < n
    BY <1>2, <2>3
  <2>5. QED
    BY <1>3, <1>5, <2>1, <2>2, <2>4
<1>6. CASE kind = "ROI_POOLING"
  <2>1. p = 2
    BY <1>2, <1>6, VectorsRead
  <2>2. IsConst(a, 2)
    BY <1>6, NothingUnchecked, Zenon
  <2>3. LeastArguments(kind) = 8
    BY <1>6 DEF LeastArguments, Unary, Comparisons, Binary, Arithmetic, Reductions, Resizes, Pools
  <2>4. 2 < n
    BY <1>2, <2>3
  <2>5. QED
    BY <1>3, <1>6, <2>1, <2>2, <2>4
<1>7. CASE kind = "TRANSPOSE_CONV_2D"
  <2>1. p = 3 /\ n = 9
    BY <1>1, <1>2, <1>7, VectorsRead
  <2>2. IsConst(a, 3)
    BY <1>1, <1>7, <2>1, NothingUnchecked, Zenon
  <2>3. 3 \in Tensors(kind, n)
    BY <1>7, <2>1 DEF Tensors, Comparisons, Binary, Arithmetic, Reductions, Recurrent
  <2>4. Len(a) \in Nat /\ 3 \in Nat /\ 3 < Len(a) /\ 3 \in Tensors(Op(k).kind, Len(a))
    BY <1>1, <2>1, <2>3
  <2>5. Input(a, 3).type \in TensorTypes
    BY <1>2, <2>4, GivenTensor, Zenon
  <2>6. Input(a, 3) = Operand(In(k, 3))
    BY <2>4, <2>5, TensorsValid, Zenon
  <2>7. ~NnapiExplicit(k)
    BY <1>1, <1>7, <2>1, SMT DEF NnapiExplicit
  <2>8. Input(a, 3).zeros = {}
    BY <1>7, <2>7, NothingUnchecked, Zenon DEF OutOfRange
  <2>9. QED
    BY <2>1, <2>2, <2>6, <2>8, Zenon DEF UnreadableVector, IsConst
<1>8. CASE kind \notin {"PAD", "PAD_V2", "BATCH_TO_SPACE_ND", "RESHAPE", "SPACE_TO_BATCH_ND",
                        "ROI_POOLING", "TRANSPOSE_CONV_2D"}
  BY <1>2, <1>8, VectorsRead
<1>9. QED
  BY <1>4, <1>5, <1>6, <1>7, <1>8

LEMMA ShapesThere ==
  ASSUME Admitted(model), Called(model), NEW k \in Ops, Checks(k).holds, ~Unchecked(k),
         NEW s \in ReadsOf(k).shapes
  PROVE  ~(Operand(In(k, s.at)).rank < s.rank)
<1> DEFINE a == Arguments(k)
           kind == Op(k).kind
<1>1. PICK n \in Nat : n = Len(a)
  BY CalledGiven
<1>2. Given(k) /\ n >= LeastArguments(kind) /\ kind \in Kinds
  BY <1>1, CalledGiven, InRange, OpTypes
<1>3. ASSUME NEW q \in Nat, q < n, q \in Tensors(kind, n)
      PROVE  /\ Operand(In(k, q)).rank \in Nat /\ Operand(In(k, q)).rank > 0
             /\ Operand(In(k, q)).rank >= RankAt(kind, q)
             /\ Input(a, q) = Operand(In(k, q))
  <2>1. Input(a, q).type \in TensorTypes
    BY <1>1, <1>2, <1>3, GivenTensor
  <2>2. Present(a, q) /\ Input(a, q) = Operand(In(k, q)) /\ In(k, q) \in Operands
    BY <1>1, <1>3, <2>1, TensorsValid
  <2>3. Input(a, q).rank > 0 /\ Input(a, q).rank >= RankAt(kind, q)
    BY <1>1, <1>2, <1>3, <2>2, KnownRank
  <2>4. QED
    BY <2>2, <2>3, LifeTypes
<1>4. CASE kind \in Convolutions
  <2>1. s.at = 2 /\ s.rank = 1
    BY <1>2, <1>4, ShapesRead DEF Convolutions, Pools, Shape
  <2>2. LeastArguments(kind) \in 3..10
    BY <1>4, LeastTriple DEF TripleReaders, Convolutions
  <2>3. 2 \in Tensors(kind, n)
    BY <1>4 DEF Tensors, Convolutions, Comparisons, Binary, Arithmetic, Reductions, Recurrent
  <2>4. 2 < n
    BY <1>2, <2>2
  <2>5. QED
    BY <1>3, <2>1, <2>3, <2>4
<1>5. CASE kind \in Pools
  <2>1. s.at = 0 /\ s.rank = 4
    BY <1>2, <1>5, ShapesRead DEF Convolutions, Pools, Shape
  <2>2. RankAt(kind, 0) = 4 /\ 0 < n
    <3>1. 0 < n
      BY <1>1, CalledGiven
    <3>2. RankAt(kind, 0) = 4
      BY <1>5 DEF RankAt, Pools
    <3>3. QED
      BY <3>1, <3>2
  <2>3. 0 \in Tensors(kind, n)
    BY <1>5 DEF Tensors, Pools, Comparisons, Binary, Arithmetic, Reductions, Recurrent
  <2>4. QED
    BY <1>3, <2>1, <2>2, <2>3
<1>6. CASE kind = "FULLY_CONNECTED"
  <2>1. (s.at = 0 \/ s.at = 1) /\ s.rank = 2
    BY <1>2, <1>6, ShapesRead DEF Convolutions, Pools, Shape
  <2>2. RankAt(kind, 1) = 2
    BY <1>6 DEF RankAt, Pools
  <2>3. 0 \in Tensors(kind, n) /\ 1 \in Tensors(kind, n)
    BY <1>6 DEF Tensors, Comparisons, Binary, Arithmetic, Reductions, Recurrent
  <2>4. LeastArguments(kind) = 4
    BY <1>6, LeastOther DEF OtherReaders
  <2>5. 0 < n /\ 1 < n
    BY <1>2, <2>4
  <2>6. Rank(a, 0) >= 2
    BY <1>6 DEF Checks, FullyConnectedCheck, Requires, Check, Resizes
  <2>7. QED
    BY <1>3, <2>1, <2>2, <2>3, <2>5, <2>6 DEF Rank
<1>7. CASE kind = "UNIDIRECTIONAL_SEQUENCE_RNN"
  <2>1. s.at = 0 /\ s.rank = 2
    BY <1>2, <1>7, ShapesRead DEF Convolutions, Pools, Shape
  <2>2. RankAt(kind, 0) = 3 /\ 0 < n
    BY <1>1, <1>7, CalledGiven DEF RankAt, Pools
  <2>3. 0 \in Tensors(kind, n)
    BY <1>7 DEF Tensors, Comparisons, Binary, Arithmetic, Reductions, Recurrent
  <2>4. QED
    BY <1>3, <2>1, <2>2, <2>3
<1>8. CASE kind \notin Convolutions \cup Pools \cup {"FULLY_CONNECTED", "UNIDIRECTIONAL_SEQUENCE_RNN"}
  BY <1>2, <1>8, ShapesRead DEF Convolutions, Pools
<1>9. QED
  BY <1>4, <1>5, <1>6, <1>7, <1>8

\* Nothing is divided by 0, and nothing strays, but for numbers out of range.
LEMMA OperandAt ==
  ASSUME Admitted(model), Called(model), NEW k \in Ops, NEW p \in Nat, p < Len(Arguments(k))
  PROVE  Operand(In(k, p)) = Input(Arguments(k), p)
<1>1. Given(k) /\ p \in 0..(Len(Arguments(k)) - 1)
  BY CalledGiven
<1>2. QED
  BY <1>1, Zenon DEF Given

LEMMA PaddingDivides ==
  ASSUME Admitted(model), Called(model), NEW k \in Ops, ~OutOfRange(k), Named(k),
         Op(k).kind \in Pools \cup (Convolutions \ {"TRANSPOSE_CONV_2D"}),
         NEW p \in PaddingDivisors(Arguments(k), ArgumentsOf(k))
  PROVE  Operand(In(k, p)).data # "zero"
<1> DEFINE a == Arguments(k)
           given == ArgumentsOf(k)
<1>1. /\ "padding_scheme" \in DOMAIN given /\ Input(a, given["padding_scheme"]).data = "one"
      /\ p \in {given[n] : n \in DOMAIN given \cap {"stride_width", "stride_height"}}
  BY Zenon DEF PaddingDivisors
<1>2. PICK name \in {"stride_width", "stride_height"} : name \in DOMAIN given /\ p = given[name]
  BY <1>1
<1>3. /\ p = NnapiPosition(k, name) /\ p \in 0..(Len(a) - 1)
      /\ Input(a, NnapiPosition(k, "padding_scheme")).data = "one"
      /\ "padding_scheme" \in NamesOf(k)
  BY <1>1, <1>2, Zenon DEF Named
<1>4. ~NnapiExplicit(k)
  BY <1>3 DEF NamesOf, ArgumentNames
<1>5. Input(a, p).data # "zero"
  BY <1>2, <1>3, <1>4, Zenon DEF OutOfRange
<1>6. p \in Nat /\ p < Len(a)
  BY <1>3, CalledGiven
<1>7. QED
  BY <1>5, <1>6, OperandAt, Zenon

LEMMA DivisorsThere ==
  ASSUME Admitted(model), Formed(model), Called(model), NEW k \in Ops, ~OutOfRange(k),
         NEW p \in ReadsOf(k).divisors
  PROVE  Operand(In(k, p)).data # "zero"
<1> DEFINE a == Arguments(k)
           kind == Op(k).kind
           given == ArgumentsOf(k)
<1>1. kind \in Kinds /\ Len(a) \in Nat /\ Len(a) >= LeastArguments(kind)
  BY InRange, OpTypes
<1>2. CASE kind = "RESHAPE"
  <2>1. p = 1 /\ Input(a, 1).data # "zero"
    BY <1>2, OthersDivide, Zenon DEF OutOfRange
  <2>2. LeastArguments(kind) = 2
    BY <1>2 DEF LeastArguments, Unary, Comparisons, Binary, Arithmetic, Reductions, Resizes, Pools
  <2>3. 1 \in Nat /\ 1 < Len(a)
    BY <1>1, <2>2
  <2>4. QED
    BY <2>1, <2>3, OperandAt, Zenon
<1>3. CASE kind \in Pools \cup (Convolutions \ {"TRANSPOSE_CONV_2D"})
  <2>1. Named(k)
    BY <1>3, AllNamed
  <2>2. CASE p \in PaddingDivisors(a, given)
    BY <1>3, <2>1, <2>2, PaddingDivides
  <2>3. CASE p \notin PaddingDivisors(a, given)
    <3>1. kind \in Pools \cup {"CONV_2D", "DEPTHWISE_CONV_2D", "GROUPED_CONV_2D"}
      BY <1>3 DEF Convolutions
    <3>2. kind = "GROUPED_CONV_2D"
      BY <2>3, <3>1, WindowsDivide
    <3>3. "groups" \in DOMAIN given /\ p = given["groups"]
      BY <2>3, <3>2, WindowsDivide
    <3>4. p = NnapiPosition(k, "groups") /\ p \in 0..(Len(a) - 1)
      BY <2>1, <3>3, Zenon DEF Named
    <3>5. Input(a, p).data # "zero"
      BY <3>2, <3>4, Zenon DEF OutOfRange
    <3>6. p \in Nat /\ p < Len(a)
      BY <1>1, <3>4
    <3>7. QED
      BY <3>5, <3>6, OperandAt, Zenon
  <2>4. QED
    BY <2>2, <2>3
<1>4. CASE kind \in {"TRANSPOSE_CONV_2D", "FULLY_CONNECTED", "STRIDED_SLICE"}
  BY <1>4, WindowsDivide, OthersDivide
<1>5. CASE kind \notin Convolutions \cup Pools \cup {"RESHAPE", "FULLY_CONNECTED", "STRIDED_SLICE"}
  BY <1>1, <1>5, PlainRead
<1>6. QED
  BY <1>2, <1>3, <1>4, <1>5

LEMMA ExtentsThere ==
  ASSUME Admitted(model), Called(model), NEW k \in Ops, ~OutOfRange(k),
         NEW e \in ReadsOf(k).extents
  PROVE  e.dim \notin Operand(In(k, e.at)).zeros
<1> DEFINE a == Arguments(k)
           kind == Op(k).kind
<1>1. kind \in Kinds /\ Len(a) \in Nat /\ Len(a) >= LeastArguments(kind)
  BY InRange, OpTypes
<1>2. CASE kind = "DEPTHWISE_CONV_2D"
  <2>1. e.at = 0 /\ e.dim = IF Op(k).nchw THEN 1 ELSE 3
    BY <1>2, WindowsDivide DEF Extent
  <2>2. e.dim \notin Input(a, 0).zeros
    BY <1>2, <2>1, Zenon DEF OutOfRange
  <2>3. 0 \in Nat /\ 0 < Len(a)
    BY CalledGiven
  <2>4. QED
    BY <2>1, <2>2, <2>3, OperandAt, Zenon
<1>3. CASE kind = "FULLY_CONNECTED"
  <2>1. e.at = 1 /\ e.dim = 1
    BY <1>3, OthersDivide DEF Extent
  <2>2. e.dim \notin Input(a, 1).zeros
    BY <1>3, <2>1, Zenon DEF OutOfRange
  <2>3. LeastArguments(kind) = 4
    BY <1>3, LeastOther DEF OtherReaders
  <2>4. 1 \in Nat /\ 1 < Len(a)
    BY <1>1, <2>3
  <2>5. QED
    BY <2>1, <2>2, <2>4, OperandAt, Zenon
<1>4. CASE kind \in Pools \cup {"CONV_2D", "GROUPED_CONV_2D", "TRANSPOSE_CONV_2D", "RESHAPE",
                               "STRIDED_SLICE"}
  BY <1>4, WindowsDivide, OthersDivide
<1>5. CASE kind \notin Convolutions \cup Pools \cup {"RESHAPE", "FULLY_CONNECTED", "STRIDED_SLICE"}
  BY <1>1, <1>5, PlainRead
<1>6. QED
  BY <1>2, <1>3, <1>4, <1>5 DEF Convolutions

LEMMA NoStray ==
  ASSUME Admitted(model), Called(model), NEW k \in Ops, ~OutOfRange(k)
  PROVE  ~Straying(k, ReadsOf(k).strays)
<1> DEFINE a == Arguments(k)
           kind == Op(k).kind
<1> SUFFICES ASSUME NEW s \in ReadsOf(k).strays
             PROVE  Operand(In(k, s.at)).data # s.data
  BY Zenon DEF Straying
<1>1. kind \in Kinds /\ Len(a) \in Nat /\ Len(a) >= LeastArguments(kind)
  BY InRange, OpTypes
<1>2. CASE kind = "TRANSPOSE_CONV_2D"
  <2>1. s.at = 3 /\ s.data = "short" /\ Len(a) = 9
    BY <1>2, WindowsDivide DEF Stray
  <2>2. ~NnapiExplicit(k)
    BY <1>2, <2>1, SMT DEF NnapiExplicit
  <2>3. Input(a, 3).data # "short"
    BY <1>2, <2>2, Zenon DEF OutOfRange
  <2>4. 3 \in Nat /\ 3 < Len(a)
    BY <2>1
  <2>5. QED
    BY <2>1, <2>3, <2>4, OperandAt, Zenon
<1>3. CASE kind = "STRIDED_SLICE"
  <2>1. s.at \in 4..6 /\ s.data = "wide"
    BY <1>3, OthersDivide DEF Stray
  <2>2. Input(a, s.at).data # "wide"
    BY <1>3, <2>1, Zenon DEF OutOfRange
  <2>3. LeastArguments(kind) = 7
    BY <1>3, LeastOther DEF OtherReaders
  <2>4. s.at \in Nat /\ s.at < Len(a)
    BY <1>1, <2>1, <2>3
  <2>5. QED
    BY <2>1, <2>2, <2>4, OperandAt, Zenon
<1>4. CASE kind \in Pools \cup {"CONV_2D", "DEPTHWISE_CONV_2D", "GROUPED_CONV_2D", "RESHAPE",
                               "FULLY_CONNECTED"}
  BY <1>4, WindowsDivide, OthersDivide
<1>5. CASE kind \notin Convolutions \cup Pools \cup {"RESHAPE", "FULLY_CONNECTED", "STRIDED_SLICE"}
  BY <1>1, <1>5, PlainRead
<1>6. QED
  BY <1>2, <1>3, <1>4, <1>5 DEF Convolutions

\* The checks that index nothing.
LEMMA FewChecksStray ==
  ASSUME NEW k, Op(k).kind # "STRIDED_SLICE"
  PROVE  Checks(k).strays = {}
  BY DEF Checks, Conv2dCheck, DepthwiseConv2dCheck, GroupedConv2dCheck,
     TransposeConv2DCheck, AveragePool2DCheck, ResizeCheck, AddCheck, MeanCheck, SqueezeCheck,
     TransposeCheck, ConcatCheck, PReluCheck, EmbeddingLookupCheck, ExpandDimsCheck,
     L2NormalizationCheck, ReshapeCheck, FullyConnectedCheck, PadCheck, PadV2Check,
     BatchToSpaceCheck, SpaceToBatchCheck, ChannelShuffleCheck, ROIPoolingCheck, ROIAlignCheck,
     InstanceNormalizationCheck, Accepts, Requires, Check

LEMMA NoCheckStrays ==
  ASSUME Admitted(model), Called(model), NEW k \in Ops, ~OutOfRange(k)
  PROVE  ~Straying(k, Checks(k).strays)
<1> DEFINE a == Arguments(k)
           kind == Op(k).kind
<1> SUFFICES ASSUME NEW s \in Checks(k).strays
             PROVE  Operand(In(k, s.at)).data # s.data
  BY Zenon DEF Straying
<1>1. kind = "STRIDED_SLICE"
  BY FewChecksStray
<1>2. Checks(k) = StridedSliceCheck(a)
  BY <1>1 DEF Checks, Resizes
<1>3. StridedSliceCheck(a).strays = {Stray(p, "short") : p \in 1..3} \cup {Stray(6, "wide")}
  BY DEF StridedSliceCheck, Check
<1>4. \/ s.at \in 1..3 /\ s.data = "short"
      \/ s.at = 6 /\ s.data = "wide"
  BY <1>2, <1>3 DEF Stray
<1>5. 6 \in 4..6
  OBVIOUS
<1>6. Input(a, s.at).data # s.data
  BY <1>1, <1>4, <1>5, Zenon DEF OutOfRange
<1>7. Len(a) \in Nat /\ Len(a) >= 7
  BY <1>1, InRange, LeastOther DEF OtherReaders
<1>8. s.at \in Nat /\ s.at < Len(a)
  BY <1>4, <1>7
<1>9. QED
  BY <1>6, <1>8, OperandAt, Zenon

\* An operation that is supplied has no fault.
LEMMA NotFaulty ==
  ASSUME Admitted(model), Formed(model), Called(model), NEW k \in Ops, Checks(k).holds,
         ~Unchecked(k), Supplied(k)
  PROVE  ~Faulty(k)
<1>1. \A p \in ReadsOf(k).nodes : RawNode(k, p) # Null
  BY NodesThere
<1>2. \A p \in ReadsOf(k).bare : nodes[In(k, p)] # Null
  <2>1. Op(k).kind \in Kinds
    BY OpTypes
  <2>2. CASE Op(k).kind = "ROI_POOLING"
    BY <2>1, <2>2, BareRead, RegionsThere
  <2>3. CASE Op(k).kind # "ROI_POOLING"
    BY <2>1, <2>3, BareRead
  <2>4. QED
    BY <2>2, <2>3
<1>3. \A r \in ReadsOf(k).scalars : Readable(k, r)
  <2>1. AllWide(k) /\ Given(k)
    BY ScalarsWide, CalledGiven
  <2>2. QED
    BY <2>1, WideReadable DEF AllWide
<1>4. \A p \in ReadsOf(k).vectors : ~UnreadableVector(k, p)
  BY VectorsThere
<1>5. \A s \in ReadsOf(k).shapes : ~(Operand(In(k, s.at)).rank < s.rank)
  BY ShapesThere
<1>6. ~OutOfRange(k)
  BY NothingUnchecked, Zenon
<1>7. \A p \in ReadsOf(k).divisors : Operand(In(k, p)).data # "zero"
  BY <1>6, DivisorsThere
<1>8. \A e \in ReadsOf(k).extents : e.dim \notin Operand(In(k, e.at)).zeros
  BY <1>6, ExtentsThere
<1>9. QED
  BY <1>1, <1>2, <1>3, <1>4, <1>5, <1>7, <1>8, Zenon DEF Faulty

-----------------------------------------------------------------------------
(* What there is when an operation is translated.                          *)

\* Every result that is translated gets a node.
LEMMA OutputThere ==
  ASSUME Admitted(model), Called(model), NodesTyped, NEW k \in Ops, ~Faulty(k),
         Op(k).kind # "CAST", NEW j \in DOMAIN Op(k).outs
  PROVE  OutputNode(k, j) # Null
<1>1. Null \notin NodeType
  BY SentinelsAssumption
<1>2. RawNode(k, 0) \in NodeType /\ InputNode(k, 0) \in NodeType /\ In(k, 0) \in Operands
  BY ReadsInRange, RawTypes
<1>3. Op(k).kind \in {"SPLIT", "TOPK_V2"} => Operand(In(k, 0)).type \in ConvertedTypes
  <2>1. LET arg(p) == model.operands[Op(k).ins[p + 1]]
        IN  Op(k).kind \in {"SPLIT", "TOPK_V2"} => arg(0).type \in ConvertedTypes
    BY Zenon DEF Called, Op, Ops
  <2>2. QED
    BY <2>1, Zenon DEF Operand, In
<1>4. CASE Op(k).kind = "SPLIT"
  <2>1. SplitNode(k) \in NodeType
    <3>1. ConvertedTypes \subseteq TensorTypes
      BY DEF ConvertedTypes, TensorTypes, QuantizedTypes
    <3>2. "u8" \in Elements
      BY DEF Elements
    <3>3. QED
      BY <1>2, <1>3, <1>4, <3>1, <3>2, ElementTypes DEF SplitNode, Node, NodeType
  <2>2. QED
    BY <1>1, <1>4, <2>1 DEF OutputNode, Recurrent
<1>5. CASE Op(k).kind = "TOPK_V2"
  <2> DEFINE i == Op(k).outs[j]
             n == Node(Element(Operand(i).type), IF j = 1 THEN InputNode(k, 0).scale ELSE Real)
  <2>1. i \in Operands /\ Element(Operand(i).type) \in Elements
    BY OutTypes
  <2>2. n \in NodeType
    BY <1>2, <2>1 DEF Node, NodeType
  <2>3. n.elem \in Elements
    BY <2>2 DEF NodeType
  <2>4. QuantizeNode(n, i, n.elem) \in NodeType
    BY <2>1, <2>3, QuantizeTypes
  <2>5. Operand(i).type \in ConvertedTypes
    <3>1. /\ Len(Op(k).outs) = 2 /\ Operand(Op(k).outs[1]).type = Operand(In(k, 0)).type
          /\ Operand(Op(k).outs[2]).type = "TENSOR_INT32"
      <4>1. Typed(model, k) /\ Op(k).kind \notin Comparisons
        BY <1>5, OpTypes DEF Comparisons
      <4>2. QED
        BY <1>5, <4>1 DEF Typed, Op, Operand, In
    <3>2. j = 1 \/ j = 2
      <4>1. Op(k).outs \in Seq(Nat \ {0})
        BY OpTypes
      <4>2. QED
        BY <3>1, <4>1
    <3>3. "TENSOR_INT32" \in ConvertedTypes
      BY DEF ConvertedTypes
    <3>4. QED
      BY <1>3, <1>5, <3>1, <3>2, <3>3
  <2>6. TopKNode(k, j) \in NodeType
    BY <2>2, <2>4, <2>5 DEF TopKNode
  <2>7. QED
    BY <1>1, <1>5, <2>6 DEF OutputNode, Recurrent
<1>6. CASE Op(k).kind \notin {"SPLIT", "TOPK_V2"}
  <2>2. Op(k).outs[1] \in Operands /\ Element(Operand(Op(k).outs[1]).type) \in Elements
    BY OutTypes, FirstOut
  <2>3. {"u8", "f16", "f32"} \subseteq Elements
    BY DEF Elements
  <2>4. QuantizeNode(InputNode(k, 0), Op(k).outs[1], "u8") \in NodeType
    BY <2>2, <2>3, QuantizeTypes
  <2>5. Computed(k) \in NodeType
    BY ComputedTypes
  <2>6. BaseNode(k) \in NodeType
    <3>1. \A elem \in {"f16", "f32"} : DequantizeNode(RawNode(k, 0), In(k, 0), elem) \in NodeType
      BY <2>3, DequantizeTypes
    <3>2. \A n : QuantizeNode(n, Op(k).outs[1], Element(Operand(Op(k).outs[1]).type)) \in NodeType
      BY <2>2, QuantizeTypes
    <3>3. QED
      BY <2>5, <3>1, <3>2 DEF BaseNode
  <2>7. QED
    BY <1>1, <1>6, <2>4, <2>5, <2>6 DEF OutputNode
<1>7. QED
  BY <1>4, <1>5, <1>6

\* Inputs with elements have nodes, and so have the results of the operations before l,
\* but for those of casts.
Written(i, l)  == \E j \in 1..(l - 1) : \E o \in DOMAIN Op(j).outs : Op(j).outs[o] = i
CastMade(i, l) == \E j \in 1..(l - 1) : Op(j).kind = "CAST" /\ Op(j).outs[1] = i

FilledBefore(l) ==
    \A i \in Operands :
        \/ Operand(i).life = "input" /\ Operand(i).rank > 0 /\ 0 \notin Operand(i).zeros
              /\ Operand(i).type \in TensorTypes
        \/ Written(i, l) /\ ~CastMade(i, l)
        => nodes[i] # Null

LEMMA FilledSupplies ==
  ASSUME Admitted(model), Called(model), NEW k \in Ops, Checks(k).holds, ~Unchecked(k),
         FilledBefore(k)
  PROVE  Supplied(k)
<1> DEFINE a == Arguments(k)
<1> SUFFICES ASSUME NEW p \in 0..(Len(a) - 1), Input(a, p).type \in TensorTypes, ~IsConst(a, p)
             PROVE  nodes[In(k, p)] # Null
  BY Zenon DEF Supplied
<1>1. Len(a) \in Nat /\ Len(a) = Len(Op(k).ins) /\ p \in Nat /\ p < Len(a)
  BY CalledGiven, InRange
<1>2. /\ Present(a, p) /\ Input(a, p) = Operand(In(k, p)) /\ In(k, p) \in Operands
      /\ Input(a, p).life \in {"input", "output", "temp", "const"}
  BY <1>1, TensorsValid
<1>3. PICK i \in Operands : i = In(k, p)
  BY <1>2
<1>4. /\ Operand(i).rank > 0 /\ 0 \notin Operand(i).zeros /\ Operand(i).type \in TensorTypes
      /\ Operand(i).life \in {"input", "output", "temp"}
  BY <1>2, <1>3 DEF Present, IsConst
<1>5. CASE Operand(i).life = "input"
  BY <1>3, <1>4, <1>5, Zenon DEF FilledBefore
<1>6. CASE Operand(i).life \in {"temp", "output"}
  <2>1. LET op == model.ops[k]
            arg(q) == model.operands[op.ins[q + 1]]
        IN  \A q \in 0..(Len(op.ins) - 1) : arg(q).life \in {"temp", "output"} =>
              \E j \in 1..(k - 1) : \E o \in DOMAIN model.ops[j].outs :
                  model.ops[j].outs[o] = op.ins[q + 1]
    BY Zenon DEF Called, Ops
  <2>2. p \in 0..(Len(Op(k).ins) - 1)
    BY <1>1
  <2>3. Written(i, k)
    BY <1>3, <1>6, <2>1, <2>2, Zenon DEF Written, Op, In, Operand
  <2>4. ~CastMade(i, k)
    BY <1>3, NothingUnchecked, Zenon DEF CastMade
  <2>5. QED
    BY <1>3, <2>3, <2>4, Zenon DEF FilledBefore
<1>7. QED
  BY <1>4, <1>5, <1>6

-----------------------------------------------------------------------------
(* OnlyUncheckedFaults.                                                    *)

\* validate() has let the operations through that were looked at.
Accepted ==
    at.pc \in {"validate", "inputs", "connect"} =>
        \A j \in Ops : (at.pc = "validate" => j < at.k) => Checks(j).holds

Filled == at.pc = "connect" => FilledBefore(at.k)

GInv == model \in Models /\ Accepted /\ Filled /\ OnlyUncheckedFaults

\* What is said of a model stays said.
LEMMA SameAnswers ==
  ASSUME model' = model
  PROVE  /\ Operands' = Operands /\ Ops' = Ops
         /\ \A i : Operand(i)' = Operand(i)
         /\ \A j : Op(j)' = Op(j)
         /\ \A j : Checks(j)' = Checks(j)
         /\ \A j : Unchecked(j)' <=> Unchecked(j)
<1>1. /\ Operands' = Operands /\ Ops' = Ops
      /\ \A i : Operand(i)' = Operand(i)
      /\ \A j : Op(j)' = Op(j)
      /\ \A j, p : In(j, p)' = In(j, p)
  BY DEF Operands, Ops, Operand, Op, In
<1>2. \A j : Arguments(j)' = Arguments(j)
  BY <1>1 DEF Arguments
<1>3. \A j : Checks(j)' = Checks(j)
  BY <1>1, <1>2 DEF Checks
<1>4. \A j : RefusedEmpty(j)' = RefusedEmpty(j)
  BY <1>1 DEF RefusedEmpty
<1>5. \A j : NnapiExplicit(j)' = NnapiExplicit(j)
  BY <1>1, <1>2 DEF NnapiExplicit
<1>6. \A j, name : NnapiPosition(j, name)' = NnapiPosition(j, name)
  BY <1>1, <1>5 DEF NnapiPosition
<1>7. \A j : OutOfRange(j)' <=> OutOfRange(j)
  BY <1>1, <1>2, <1>5, <1>6 DEF OutOfRange
<1>8. \A j : Unchecked(j)' <=> Unchecked(j)
  BY <1>1, <1>2, <1>4, <1>7 DEF Unchecked
<1>9. QED
  BY <1>1, <1>3, <1>8

LEMMA GInit ==
  ASSUME Init
  PROVE  GInv
<1>1. model \in Models /\ at.pc = "validate" /\ at.k = 1 /\ service = "up"
  BY DEF Init
<1>2. Ops = 1..Len(model.ops) /\ Len(model.ops) \in Nat
  BY <1>1, ModelsAssumption, FirstOp
<1>3. Accepted
  BY <1>1, <1>2 DEF Accepted
<1>4. QED
  BY <1>1, <1>3 DEF GInv, Filled, OnlyUncheckedFaults

\* A fault in an operation that was accepted comes from what nobody checks.
LEMMA ReadsFault ==
  ASSUME TypeOK, model \in Models, NEW k \in Ops, Checks(k).holds,
         (~\A r \in Checks(k).reads : Readable(k, r)) \/ Straying(k, Checks(k).strays)
  PROVE  Unchecked(k)
<1>1. Admitted(model) /\ Called(model)
  BY FormsAssumption DEF TypeOK
<1>2. Given(k) /\ Len(Arguments(k)) \in Nat
  BY <1>1, CalledGiven
<1>3. \A r \in Checks(k).reads : Wide(Arguments(k), r)
  BY <1>2, CheckReadsWide
<1>4. ~Unchecked(k) => \A r \in Checks(k).reads : Readable(k, r)
  BY <1>2, <1>3, WideReadable
<1>5. ~Unchecked(k) => ~Straying(k, Checks(k).strays)
  BY <1>1, NoCheckStrays, Zenon DEF Unchecked
<1>6. QED
  BY <1>4, <1>5

LEMMA TranslationFault ==
  ASSUME TypeOK, GInv, at.pc = "connect",
         Faulty(at.k) \/ Straying(at.k, ReadsOf(at.k).strays)
  PROVE  Unchecked(at.k)
<1>1. PICK k \in Ops : k = at.k
  BY DEF TypeOK
<1>2. Admitted(model) /\ Called(model) /\ Formed(model)
  BY FormsAssumption DEF TypeOK, GInv
<1>3. Checks(k).holds /\ FilledBefore(k)
  BY <1>1 DEF GInv, Accepted, Filled
<1>4. Faulty(k) => Unchecked(k)
  BY <1>2, <1>3, FilledSupplies, NotFaulty
<1>5. Straying(k, ReadsOf(k).strays) => Unchecked(k)
  BY <1>2, NoStray, Zenon DEF Unchecked
<1>6. QED
  BY <1>1, <1>4, <1>5

\* Faults.
LEMMA DownUnchecked ==
  ASSUME GInv, TypeOK, Down, Unchecked(at.k)
  PROVE  GInv'
<1>1. model' = model /\ at' = at /\ nodes' = nodes
  BY DEF Down
<1>2. Accepted' /\ Filled'
  BY <1>1, SameAnswers DEF GInv, Accepted, Filled, FilledBefore, Written, CastMade
<1>3. OnlyUncheckedFaults'
  BY <1>1, SameAnswers DEF OnlyUncheckedFaults
<1>4. QED
  BY <1>1, <1>2, <1>3 DEF GInv

LEMMA RefuseUnchecked ==
  ASSUME GInv, service = "up", Refuse
  PROVE  GInv'
BY DEF Refuse, Goto, GInv, Accepted, Filled, OnlyUncheckedFaults

LEMMA ValidateUnchecked ==
  ASSUME GInv, TypeOK, Validate
  PROVE  GInv'
<1>1. PICK k \in Ops : k = at.k
  BY DEF TypeOK
<1>2. Ops = 1..Len(model.ops) /\ Len(model.ops) \in Nat
  BY FirstOp DEF TypeOK
<1>3. service = "up" /\ at.pc = "validate"
  BY DEF Validate
<1>4. CASE /\ Checks(k).holds
           /\ (~\A r \in Checks(k).reads : Readable(k, r)) \/ Straying(k, Checks(k).strays)
           /\ Down
  BY <1>1, <1>4, ReadsFault, DownUnchecked DEF GInv
<1>5. CASE Checks(k).holds /\ NextOf("validate", "inputs") /\ UNCHANGED <<model, nodes, service>>
  <2>1. \A j \in Ops : j < k => Checks(j).holds
    BY <1>1, <1>3 DEF GInv, Accepted
  <2>2. \A j \in Ops : j < k + 1 => Checks(j).holds
    BY <1>2, <1>5, <2>1
  <2>3. Ops' = Ops /\ \A j : Checks(j)' = Checks(j)
    BY <1>5, SameAnswers
  <2>4. /\ at'.pc \in {"validate", "inputs"}
        /\ \A j \in Ops : (at'.pc = "validate" => j < at'.k) => j < k + 1
    BY <1>1, <1>2, <1>5 DEF NextOf, Goto
  <2>5. Accepted'
    BY <2>2, <2>3, <2>4 DEF Accepted
  <2>6. Filled' /\ OnlyUncheckedFaults' /\ (model \in Models)'
    BY <1>3, <1>5, <2>4 DEF Filled, OnlyUncheckedFaults, GInv
  <2>7. QED
    BY <2>5, <2>6 DEF GInv
<1>6. QED
  BY <1>1, <1>3, <1>4, <1>5, RefuseUnchecked DEF Validate

LEMMA CreateUnchecked ==
  ASSUME GInv, TypeOK, CreateInputParams
  PROVE  GInv'
<1>1. /\ service = "up" /\ at.pc = "inputs" /\ model' = model /\ service' = service
      /\ at' = [pc |-> "connect", k |-> 1]
  BY DEF CreateInputParams, Goto
<1>2. Operands' = Operands /\ Ops' = Ops /\ \A j : Checks(j)' = Checks(j)
  BY <1>1, SameAnswers
<1>3. \A i : Operand(i)' = Operand(i)
  BY <1>1, SameAnswers
<1>4. Accepted'
  BY <1>1, <1>2 DEF GInv, Accepted
<1>5. ASSUME NEW i \in Operands, Operand(i).life = "input", Operand(i).rank > 0, 0 \notin Operand(i).zeros,
             Operand(i).type \in TensorTypes
      PROVE  nodes'[i] # Null
  <2>1. nodes'[i] = Fit(i)
    BY <1>5 DEF CreateInputParams, Source
  <2>2. Fit(i) \in NodeType
    BY <1>5, FitTypes DEF TypeOK
  <2>3. QED
    BY <2>1, <2>2, SentinelsAssumption
<1>6. \A i : ~Written(i, 1)
  BY DEF Written
<1>7. \A i : ~Written(i, at.k)'
  BY <1>1 DEF Written
<1>8. Filled'
  BY <1>1, <1>2, <1>3, <1>5, <1>7 DEF Filled, FilledBefore
<1>9. QED
  BY <1>1, <1>4, <1>8 DEF GInv, OnlyUncheckedFaults

\* Results are no inputs of the model, and get their nodes.
LEMMA ConnectSets ==
  ASSUME NEW k \in Ops, NEW made, Connect(k, made), NEW i \in Operands
  PROVE  IF \E j \in DOMAIN Op(k).outs : Op(k).outs[j] = i
         THEN \E j \in DOMAIN Op(k).outs : Op(k).outs[j] = i /\ nodes'[i] = made[j]
         ELSE nodes'[i] = nodes[i]
<1>1. nodes' = [o \in Operands |->
          IF \E j \in DOMAIN Op(k).outs : Op(k).outs[j] = o
          THEN made[CHOOSE j \in DOMAIN Op(k).outs : Op(k).outs[j] = o]
          ELSE nodes[o]]
  BY DEF Connect
<1>2. CASE \E j \in DOMAIN Op(k).outs : Op(k).outs[j] = i
  <2> DEFINE c == CHOOSE j \in DOMAIN Op(k).outs : Op(k).outs[j] = i
  <2>1. c \in DOMAIN Op(k).outs /\ Op(k).outs[c] = i
    BY <1>2
  <2>2. nodes'[i] = made[c]
    BY <1>1, <1>2
  <2>3. QED
    BY <1>2, <2>1, <2>2
<1>3. CASE ~\E j \in DOMAIN Op(k).outs : Op(k).outs[j] = i
  BY <1>1, <1>3
<1>4. QED
  BY <1>2, <1>3

LEMMA ConnectFills ==
  ASSUME Admitted(model), Called(model), NEW k \in Ops, FilledBefore(k), NEW made, Connect(k, made),
         Op(k).kind # "CAST" => \A j \in DOMAIN Op(k).outs : made[j] # Null
  PROVE  \A i \in Operands :
            \/ Operand(i).life = "input" /\ Operand(i).rank > 0 /\ 0 \notin Operand(i).zeros
                  /\ Operand(i).type \in TensorTypes
            \/ Written(i, k + 1) /\ ~CastMade(i, k + 1)
            => nodes'[i] # Null
<1>1. k \in Nat /\ k >= 1
  BY FirstOp
<1>2. ASSUME NEW i \in Operands, Operand(i).life = "input" /\ Operand(i).rank > 0 /\ 0 \notin Operand(i).zeros
                  /\ Operand(i).type \in TensorTypes
      PROVE  nodes'[i] # Null
  <2>1. \A o \in DOMAIN Op(k).outs : Operand(Op(k).outs[o]).life \in {"temp", "output"}
    BY Zenon DEF Called, Op, Ops, Operand
  <2>2. ~\E j \in DOMAIN Op(k).outs : Op(k).outs[j] = i
    BY <1>2, <2>1
  <2>3. nodes'[i] = nodes[i]
    BY <2>2, ConnectSets
  <2>4. nodes[i] # Null
    BY <1>2, Zenon DEF FilledBefore
  <2>5. QED
    BY <2>3, <2>4
<1>3. ASSUME NEW i \in Operands, Written(i, k + 1), ~CastMade(i, k + 1)
      PROVE  nodes'[i] # Null
  <2>1. 1..(k + 1 - 1) = 1..(k - 1) \cup {k}
    BY <1>1
  <2>2. ~CastMade(i, k) /\ ~(Op(k).kind = "CAST" /\ Op(k).outs[1] = i)
    BY <1>3, <2>1 DEF CastMade
  <2>3. CASE \E j \in DOMAIN Op(k).outs : Op(k).outs[j] = i
    <3>1. Op(k).kind # "CAST"
      <4>1. Op(k).kind = "CAST" => DOMAIN Op(k).outs = {1}
        BY OneOut DEF Recurrent
      <4>2. QED
        BY <2>2, <2>3, <4>1
    <3>2. \E j \in DOMAIN Op(k).outs : Op(k).outs[j] = i /\ nodes'[i] = made[j]
      BY <2>3, ConnectSets
    <3>3. QED
      BY <3>1, <3>2
  <2>4. CASE ~\E j \in DOMAIN Op(k).outs : Op(k).outs[j] = i
    <3>1. Written(i, k)
      BY <1>3, <2>1, <2>4 DEF Written
    <3>2. nodes'[i] = nodes[i]
      BY <2>4, ConnectSets
    <3>3. nodes[i] # Null
      BY <2>2, <3>1, Zenon DEF FilledBefore
    <3>4. QED
      BY <3>2, <3>3
  <2>5. QED
    BY <2>3, <2>4
<1>4. QED
  BY <1>2, <1>3

LEMMA ConnectUnchecked ==
  ASSUME GInv, TypeOK, NEW k \in Ops, k = at.k, service = "up", at.pc = "connect",
         NEW made, Connect(k, made),
         Op(k).kind # "CAST" => \A j \in DOMAIN Op(k).outs : made[j] # Null
  PROVE  GInv'
<1>1. model' = model /\ service' = service /\ NextOf("connect", "done")
  BY DEF Connect
<1>2. at' = [pc |-> "connect", k |-> k + 1] \/ at'.pc = "done"
  BY <1>1 DEF NextOf, Goto
<1>3. /\ Operands' = Operands /\ Ops' = Ops /\ \A j : Checks(j)' = Checks(j)
      /\ \A i : Operand(i)' = Operand(i)
      /\ \A j : Op(j)' = Op(j)
  BY <1>1, SameAnswers
<1>4. Accepted'
  BY <1>2, <1>3 DEF GInv, Accepted
<1>5. \A i \in Operands :
            \/ Operand(i).life = "input" /\ Operand(i).rank > 0 /\ 0 \notin Operand(i).zeros
                  /\ Operand(i).type \in TensorTypes
            \/ Written(i, k + 1) /\ ~CastMade(i, k + 1)
            => nodes'[i] # Null
  <2>1. Admitted(model) /\ Called(model) /\ FilledBefore(k)
    BY FormsAssumption DEF GInv, TypeOK, Filled
  <2>2. QED
    BY <2>1, ConnectFills
<1>6. Filled'
  <2>1. CASE at' = [pc |-> "connect", k |-> k + 1]
    <3>1. \A i : /\ Written(i, at.k)' <=> Written(i, k + 1)
                 /\ CastMade(i, at.k)' <=> CastMade(i, k + 1)
      BY <1>3, <2>1 DEF Written, CastMade
    <3>2. QED
      BY <1>3, <1>5, <3>1 DEF Filled, FilledBefore
  <2>2. CASE at'.pc = "done"
    BY <2>2 DEF Filled
  <2>3. QED
    BY <1>2, <2>1, <2>2
<1>7. QED
  BY <1>1, <1>4, <1>6 DEF GInv, OnlyUncheckedFaults

LEMMA ConnectOperationUnchecked ==
  ASSUME GInv, TypeOK, ConnectOperation
  PROVE  GInv'
<1>1. PICK k \in Ops : k = at.k
  BY DEF TypeOK
<1>2. service = "up" /\ at.pc = "connect" /\ Op(k).kind # "CAST"
  BY <1>1 DEF ConnectOperation
<1>3. CASE (Faulty(k) \/ Straying(k, ReadsOf(k).strays)) /\ Down
  BY <1>1, <1>2, <1>3, TranslationFault, DownUnchecked
<1>4. CASE ~Faulty(k) /\ Connect(k, [j \in DOMAIN Op(k).outs |-> OutputNode(k, j)])
  <2> DEFINE made == [j \in DOMAIN Op(k).outs |-> OutputNode(k, j)]
  <2>1. Admitted(model) /\ Called(model) /\ NodesTyped
    BY FormsAssumption DEF GInv, TypeOK, NodesTyped
  <2>2. \A j \in DOMAIN Op(k).outs : made[j] # Null
    BY <1>2, <1>4, <2>1, OutputThere
  <2>3. Connect(k, made)
    BY <1>4
  <2> HIDE DEF made
  <2>4. QED
    BY <1>1, <1>2, <2>2, <2>3, ConnectUnchecked
<1>5. QED
  BY <1>1, <1>2, <1>3, <1>4, RefuseUnchecked DEF ConnectOperation

LEMMA ConnectCastUnchecked ==
  ASSUME GInv, TypeOK, ConnectCast
  PROVE  GInv'
<1>1. PICK k \in Ops : k = at.k
  BY DEF TypeOK
<1>2. service = "up" /\ at.pc = "connect" /\ Op(k).kind = "CAST"
  BY <1>1 DEF ConnectCast
<1>3. Unchecked(at.k)
  BY <1>1, <1>2, Zenon DEF Unchecked
<1>4. CASE Down
  BY <1>3, <1>4, DownUnchecked
<1>5. ASSUME NEW same \in SameType(k), Connect(k, <<CastNode(k, same)>>)
      PROVE  GInv'
  <2>1. PICK made : made = <<CastNode(k, same)>>
    OBVIOUS
  <2>2. QED
    BY <1>1, <1>2, <1>5, <2>1, ConnectUnchecked
<1>6. QED
  BY <1>1, <1>2, <1>4, <1>5, RefuseUnchecked DEF ConnectCast

\* Whatever the models, in the forms and with the types of arguments that NNAPI gives them,
\* the service goes down only on what nobody checks: OnlyUncheckedFaults.
THEOREM OnlyUncheckedFail == Spec => []OnlyUncheckedFaults
<1>1. Init => GInv
  BY GInit
<1>2. GInv /\ TypeOK /\ [Next]_vars => GInv'
  <2> SUFFICES ASSUME GInv, TypeOK, [Next]_vars
               PROVE  GInv'
    OBVIOUS
  <2>1. CASE Finished \/ UNCHANGED vars
    <3>1. UNCHANGED <<model, at, nodes, service>>
      BY <2>1 DEF Finished, vars
    <3>2. Accepted' /\ Filled' /\ OnlyUncheckedFaults'
      BY <3>1, SameAnswers DEF GInv, Accepted, Filled, FilledBefore, Written, CastMade,
         OnlyUncheckedFaults
    <3>3. QED
      BY <3>1, <3>2 DEF GInv
  <2>2. QED
    BY <2>1, ValidateUnchecked, CreateUnchecked, ConnectOperationUnchecked, ConnectCastUnchecked
       DEF Next
<1>3. GInv => OnlyUncheckedFaults
  BY DEF GInv
<1>4. QED
  BY <1>1, <1>2, <1>3, TypeCorrect, PTL DEF Spec
===============================================================================
