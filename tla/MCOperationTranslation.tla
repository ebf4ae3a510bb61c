------------------------ MODULE MCOperationTranslation ------------------------
(* Small instances of OperationTranslation: models of one operation, with every *)
(* form of its arguments and one of them deviating, and of two operations that  *)
(* pass a tensor on, with their types and scales.                               *)
EXTENDS OperationTranslation

CONSTANTS s1, s2

Argument(type, rank, life, scale) ==
    [ type |-> type, rank |-> rank, zeros |-> {}, scale |-> scale, data |-> "plain",
      life |-> life ]

Float32 == "TENSOR_FLOAT32"
Float16 == "TENSOR_FLOAT16"
Asymm   == "TENSOR_QUANT8_ASYMM"
Signed  == "TENSOR_QUANT8_ASYMM_SIGNED"
Index   == "TENSOR_INT32"

\* Constant operands, and scalars by the type of the tensors beside them.
Constant(type, rank) == Argument(type, rank, "const", s1)
Int    == Constant("INT32", 0)
Flag   == Constant("BOOL", 0)
Number(t)  == Constant(IF t = Float16 THEN "FLOAT16" ELSE "FLOAT32", 0)
Element0(t) == IF t \in QuantizedTypes THEN Int ELSE Number(t)
Vector == Constant(Index, 1)
Ints(n) == [i \in 1..n |-> Int]
Schemes == {Int, [Int EXCEPT !.data = "one"]}

Prefixes(s, n) == {SubSeq(s, 1, i) : i \in n..Len(s)}

\* Filters, and biases.
Filters(t) == {t} \cup IF t \in QuantizedTypes THEN {PerChannel} ELSE {}
Bias(t)    == Constant(IF t \in QuantizedTypes THEN Index ELSE t, 1)
Windowed(kind, t, rests) ==
    IF kind \in Pools THEN rests
    ELSE {<<Constant(f, 4), Bias(t)>> \o r : f \in Filters(t), r \in rests}

First(kind, t) ==
    CASE kind = "EMBEDDING_LOOKUP" -> Argument(Index, 1, "input", s1)
      [] kind = "SELECT"           -> Argument("TENSOR_BOOL8", 4, "input", s1)
      [] OTHER                     -> Argument(t, 4, "input", s1)

\* The forms of the other arguments, in the order of NNAPI.
Rests(kind, t) ==
    CASE kind \in Unary \cup {"CAST", "QUANTIZE", "DEQUANTIZE"} -> {<<>>}
      [] kind \in Comparisons \cup Binary -> {<<Constant(t, 4)>>}
      [] kind \in Arithmetic        -> {<<Constant(t, 4), Int>>}
      [] kind \in Reductions        -> {<<Vector, Flag>>}
      [] kind \in Pools             ->
            Prefixes(Ints(9) \o <<Flag>>, 9)
            \cup UNION {Prefixes(<<s>> \o Ints(5) \o <<Flag>>, 6) : s \in Schemes}
      [] kind = "CONV_2D"           ->
            Windowed(kind, t, Prefixes(Ints(7) \o <<Flag, Int, Int>>, 7)
                \cup UNION {Prefixes(<<s>> \o Ints(3) \o <<Flag, Int, Int>>, 4) : s \in Schemes})
      [] kind = "DEPTHWISE_CONV_2D" ->
            Windowed(kind, t, Prefixes(Ints(8) \o <<Flag, Int, Int>>, 8)
                \cup UNION {Prefixes(<<s>> \o Ints(4) \o <<Flag, Int, Int>>, 5) : s \in Schemes})
      [] kind = "GROUPED_CONV_2D"   -> 
            Windowed(kind, t, {Ints(8) \o <<Flag>>}
                \cup {<<s>> \o Ints(4) \o <<Flag>> : s \in Schemes})
      [] kind = "TRANSPOSE_CONV_2D" ->
            Windowed(kind, t, {Ints(7) \o <<Flag>>}
                \cup {<<Vector, s>> \o Ints(3) \o <<Flag>> : s \in Schemes})
      [] kind \in Resizes           ->
            Prefixes(<<Int, Int, Flag, Flag, Flag>>, 2)
            \cup {<<Number(t), Number(t), Flag>>}
      [] kind \in {"DEPTH_TO_SPACE", "SPACE_TO_DEPTH"} -> Prefixes(<<Int, Flag>>, 1)
      [] kind = "BATCH_TO_SPACE_ND" -> Prefixes(<<Vector, Flag>>, 1)
      [] kind = "SPACE_TO_BATCH_ND" -> Prefixes(<<Vector, Constant(Index, 2), Flag>>, 2)
      [] kind = "INSTANCE_NORMALIZATION" -> {<<Number(t), Number(t), Number(t), Flag>>}
      [] kind = "ROI_ALIGN"         ->
            {<<Argument(t, 2, "input", s1), Vector, Int, Int, Number(t), Number(t), Int, Int, Flag>>}
      [] kind = "ROI_POOLING"       ->
            {<<Argument(t, 2, "input", s1), Vector, Int, Int, Number(t), Number(t), Flag>>}
      [] kind \in {"ARGMAX", "ARGMIN", "EXPAND_DIMS", "TOPK_V2"} -> {<<Int>>}
      [] kind \in {"CHANNEL_SHUFFLE", "SPLIT"} -> {<<Int, Int>>}
      [] kind = "CONCATENATION"     -> {<<Int>>, <<Argument(t, 4, "input", s2), Int>>}
      [] kind = "EMBEDDING_LOOKUP"  -> {<<Constant(t, 2)>>}
      [] kind = "FULLY_CONNECTED"   -> {<<Constant(t, 2), Bias(t), Int>>}
      [] kind = "GATHER"            -> {<<Int, Vector>>}
      [] kind = "L2_NORMALIZATION"  -> Prefixes(<<Int>>, 0)
      [] kind \in {"SOFTMAX", "LOG_SOFTMAX"} -> Prefixes(<<Number(t), Int>>, 1)
      [] kind = "MEAN"              -> {<<Vector, Int>>}
      [] kind = "PAD"               -> {<<Constant(Index, 2)>>}
      [] kind = "PAD_V2"            -> {<<Constant(Index, 2), Element0(t)>>}
      [] kind \in {"RESHAPE", "SQUEEZE", "TRANSPOSE"} -> {<<Vector>>}
      [] kind = "RNN"               ->
            {<<Constant(t, 2), Constant(t, 2), Constant(t, 1), Argument(t, 2, "input", s1), Int>>}
      [] kind = "UNIDIRECTIONAL_SEQUENCE_RNN" ->
            {<<Constant(t, 2), Constant(t, 2), Constant(t, 1), Argument(t, 2, "input", s1), Int, Int>>}
      [] kind = "SELECT"            -> {<<Constant(t, 4), Argument(t, 4, "input", s1)>>}
      [] kind = "STRIDED_SLICE"     -> {<<Vector, Vector, Vector>> \o Ints(3)}

\* The types of the results.
Results(kind, t) ==
    CASE kind \in Comparisons          -> {<<"TENSOR_BOOL8">>}
      [] kind \in {"ARGMAX", "ARGMIN"} -> {<<Index>>}
      [] kind = "CAST"                 -> {<<u>> : u \in {Float32, Float16, Index, Asymm, Signed,
                                               "TENSOR_QUANT16_SYMM", "TENSOR_QUANT16_ASYMM"}}
      [] kind = "QUANTIZE"             -> {<<Asymm>>, <<Signed>>}
      [] kind = "DEQUANTIZE"           -> {<<Float32>>, <<Float16>>}
      [] kind = "TOPK_V2"              -> {<<t, Index>>}
      [] kind \in {"SPLIT", "RNN", "UNIDIRECTIONAL_SEQUENCE_RNN"} -> {<<t, t>>}
      [] OTHER                         -> {<<t>>}

Types(kind) ==
    CASE kind \in {"INSTANCE_NORMALIZATION", "ROI_ALIGN", "ROI_POOLING"} -> {Float32}
      [] kind \in {"RNN", "UNIDIRECTIONAL_SEQUENCE_RNN", "QUANTIZE"} -> {Float32, Float16}
      [] kind = "DEQUANTIZE" -> {Asymm, Signed, "TENSOR_QUANT8_SYMM", PerChannel}
      [] kind \in {"LOGICAL_AND", "LOGICAL_OR", "LOGICAL_NOT", "REDUCE_ALL", "REDUCE_ANY"} ->
            {"TENSOR_BOOL8"}
      [] kind = "CAST" -> {Float32, Float16, Index, Asymm, "TENSOR_QUANT16_ASYMM"}
      [] OTHER -> {Float32, Float16, Asymm, Signed}

Operation(kind, ins, outs, nchw, fits) ==
    [kind |-> kind, ins |-> ins, outs |-> outs, nchw |-> nchw, fits |-> fits]

Outputs(types, life, scale) == [j \in DOMAIN types |-> Argument(types[j], 4, life, scale)]

\* One operation, whose operands are its arguments and its results.
Single(kind, args, types, scale, nchw, fits) ==
    LET n == Len(args) IN
    [ operands |-> args \o Outputs(types, "output", scale),
      ops |-> <<Operation(kind, [p \in 1..n |-> p], [j \in DOMAIN types |-> n + j], nchw, fits)>> ]

Compares == {"CONV_2D", "DEPTHWISE_CONV_2D", "PRELU", "STRIDED_SLICE", "ROI_ALIGN"}

\* What else a constant may hold.
Contents(kind, arg) ==
    CASE arg.type = "INT32" -> {"zero"} \cup IF kind = "STRIDED_SLICE" THEN {"wide"} ELSE {}
      [] arg.type = Index /\ arg.rank = 1 -> IF kind = "RESHAPE" THEN {"zero"} ELSE {"short"}
      [] OTHER -> {}

\* One argument from elsewhere, omitted, empty, of unknown rank or of other contents.
Deviations(kind, args) ==
    {args} \cup
    UNION {{[args EXCEPT ![p] = d] :
                d \in {[args[p] EXCEPT !.life = l] : l \in {"input", "const", "none"}}
                      \cup {[args[p] EXCEPT !.rank = 0]}
                      \cup {[args[p] EXCEPT !.zeros = {z}, !.life = l] :
                                z \in {0, 1, 3} \cap 0..(args[p].rank - 1),
                                l \in {args[p].life, "input"}}
                      \cup {[args[p] EXCEPT !.data = c] : c \in Contents(kind, args[p])}} :
            p \in DOMAIN args}

DeviatingModels ==
    UNION {UNION {UNION {
        {Single(kind, d, types, s1, n, f) : d \in Deviations(kind, <<First(kind, t)>> \o r),
             n \in IF kind \in {"CONV_2D", "DEPTHWISE_CONV_2D", "MAX_POOL_2D", "DEPTH_TO_SPACE"}
                   THEN BOOLEAN ELSE {FALSE},
             f \in IF kind \in Compares THEN BOOLEAN ELSE {TRUE}} :
        r \in Rests(kind, t)} :
        types \in Results(kind, t)} :
        <<kind, t>> \in {<<kd, u>> \in (Kinds \X {Float32, "TENSOR_BOOL8", Asymm}) :
                            u \in Types(kd) /\ (u = Asymm => kd \in Compares \cup {"DEQUANTIZE"})}}

\* Every type, and results of the same and of another scale.
TypedModels ==
    UNION {UNION {UNION {
        {Single(kind, <<First(kind, t)>> \o r, types, s, FALSE, TRUE) :
            s \in IF kind = "SPLIT" THEN {s1} ELSE {s1, s2}} :
        r \in Rests(kind, t)} :
        types \in Results(kind, t)} :
        <<kind, t>> \in {<<kd, u>> \in Kinds \X TensorTypes : u \in Types(kd)}}

Passing == {"RELU", "SPLIT", "TOPK_V2", "QUANTIZE", "DEQUANTIZE", "PAD_V2", "CAST", "TRANSPOSE"}
Reading ==
    {"CONV_2D", "MAX_POOL_2D", "CONCATENATION", "SPLIT", "DEQUANTIZE", "EQUAL", "SOFTMAX", "CAST",
     "FULLY_CONNECTED", "TOPK_V2"}

\* The first result of one operation is the first argument of another; it may be
\* of unknown rank.
Chain(first, r1, t1, types, s, rank, second, r2, out) ==
    LET n == 1 + Len(r1)
        m == n + Len(types)
        l == m + Len(r2)
        passed == Argument(types[1], rank, "temp", s)
    IN [ operands |-> <<First(first, t1)>> \o r1 \o <<passed>>
                      \o Outputs(SubSeq(types, 2, Len(types)), "output", s)
                      \o r2 \o Outputs(out, "output", s2),
         ops |-> <<Operation(first, [p \in 1..n |-> p], [j \in DOMAIN types |-> n + j], FALSE, TRUE),
                   Operation(second, <<n + 1>> \o [p \in DOMAIN r2 |-> m + p],
                             [j \in DOMAIN out |-> l + j], FALSE, TRUE)>> ]

Short(rests) == {r \in rests : \A q \in rests : Len(r) <= Len(q)}

ChainsOf(first, t1, second) ==
    UNION {UNION {
        {Chain(first, r1, t1, types, s, rank, second, r2, out) :
            r1 \in Short(Rests(first, t1)), r2 \in Short(Rests(second, types[1])),
            s \in (IF first = "SPLIT" THEN {s1} ELSE {s1, s2}), rank \in {4, 0}} :
        out \in IF second = "SPLIT" THEN {} ELSE Results(second, types[1])} :
        types \in {u \in Results(first, t1) : u[1] \in Types(second)}}

ChainedModels ==
    UNION {ChainsOf(c[1], c[2], c[3]) :
        c \in {d \in Passing \X {Float32, Asymm, Signed} \X Reading : d[2] \in Types(d[1])}}

\* A cast is taken for one of equal types, as its operands are numbered like two
\* casts, and a third operation reads what it passed on.
CastModels ==
    {[ operands |-> <<Argument(Float32, rank, "input", s1), Argument(Float32, 4, "temp", s1),
                      Argument(Float32, 4, "input", s1), Argument(Float32, 4, "output", s1),
                      Argument(Float32, 4, "output", s1)>>,
       ops |-> <<Operation("CAST", <<1>>, <<2>>, FALSE, TRUE),
                 Operation("CAST", <<3>>, <<4>>, FALSE, TRUE),
                 Operation("RELU", <<2>>, <<5>>, FALSE, TRUE)>> ] : rank \in {4, 0}}

AllModels == DeviatingModels \cup TypedModels \cup ChainedModels \cup CastModels
AllScales == {s1, s2}
===============================================================================
