--------------------------- MODULE GraphConstruction ---------------------------
(***************************************************************************)
(* How a model becomes an nGraph function and how executions find their    *)
(* blobs in it: NgraphNetworkCreator, NgraphNodes, OperationsBase and the  *)
(* operations that connect themselves (Cast, Split, TopkV2, Quantize and   *)
(* the recurrent networks).                                                *)
(*                                                                         *)
(* The binder thread of a preparation builds the graph alone: one action   *)
(* is the input parameters, the nodes of one operation, one                *)
(* removeInputNode(), or the outputs of one operation.  Executions of the  *)
(* finished model then ask for the names of its inputs and outputs side by *)
(* side, and getNodeName() fills its map as they do.                       *)
(*                                                                         *)
(* A node is who made it and the parameters it is computed from; its name  *)
(* is the node itself, because nGraph gives each node a name of its own.   *)
(***************************************************************************)
EXTENDS Naturals, Sequences

CONSTANTS
    Models,      \* the models that are prepared
    Executions,  \* the executions of the prepared model
    Null,        \* a node that is a null pointer
    Empty,       \* the name ""
    Unnamed      \* no entry in mNodeNames

\* sized: dims.size() > 0 && dims[0] != 0.
OperandType ==
    [life : {"input", "output", "temp", "const", "none"}, sized : BOOLEAN]

\* "base" is every operation that does not override connectOperationToGraph(),
\* and Quantize, which does and behaves the same.  ins has the operands read as
\* nodes, at the positions they have in the code (an LSTM has three scalars
\* between them); splits is numSplits, merged is mergeOutputs, and handled says
\* that TopkV2 or Split has a branch for the type of its tensors.
Kinds == {"base", "cast", "split", "topk", "rnn", "unirnn", "birnn", "lstm"}

OpType ==
    [ kind : Kinds, ins : Seq(Nat \ {0}), outs : Seq(Nat \ {0}),
      splits : Nat \ {0}, merged : BOOLEAN, handled : BOOLEAN ]

ModelType == [operands : Seq(OperandType), ops : Seq(OpType)]

\* What validateModel() and validate() have checked: indices are in range, an
\* operand is written, once, and read only after that, and operations have the
\* inputs that their createNode() reads.
Admitted(m) ==
    /\ m \in ModelType /\ m.ops # <<>>
    /\ \A i \in DOMAIN m.operands : m.operands[i].life \in {"temp", "output"} =>
        \E k \in DOMAIN m.ops : \E j \in DOMAIN m.ops[k].outs : m.ops[k].outs[j] = i
    /\ \A k \in DOMAIN m.ops :
        LET op == m.ops[k] IN
        /\ op.outs # <<>>
        /\ \A p \in DOMAIN op.ins :
            /\ op.ins[p] \in DOMAIN m.operands
            /\ m.operands[op.ins[p]].life \in {"temp", "output"} =>
                \E l \in 1..(k - 1) : \E j \in DOMAIN m.ops[l].outs : m.ops[l].outs[j] = op.ins[p]
        /\ \A j \in DOMAIN op.outs :
            /\ op.outs[j] \in DOMAIN m.operands
            /\ m.operands[op.outs[j]].life \in {"temp", "output"}
            /\ \A l \in 1..k : \A p \in DOMAIN m.ops[l].ins : m.ops[l].ins[p] # op.outs[j]
            /\ \A l \in DOMAIN m.ops : \A i \in DOMAIN m.ops[l].outs :
                m.ops[l].outs[i] = op.outs[j] => l = k /\ i = j
        /\ Len(op.ins) \in CASE op.kind = "base"                      -> 0..27
                             [] op.kind \in {"cast", "split", "topk"} -> {1}
                             [] op.kind \in {"rnn", "unirnn"}         -> {5}
                             [] op.kind = "birnn"                     -> {12}
                             [] op.kind = "lstm"                      -> {23, 27}
        /\ op.kind = "lstm" => Len(op.outs) = 4

NodeType == [by : Nat, out : Nat, on : SUBSET Nat]

ASSUME ModelsAssumption == \A m \in Models : Admitted(m)
ASSUME SentinelsAssumption ==
    /\ {Null, Empty, Unnamed} \cap NodeType = {}
    /\ Null # Empty /\ Null # Unnamed /\ Empty # Unnamed

VARIABLES
    model,     \* the model, in its NnapiModelInfo
    at,        \* where the building thread is: [pc, operation, removal]
    nodes,     \* mOutputAtOperandIndex
    params,    \* mInputParams: the operands whose Parameter it holds
    results,   \* mResultNodes
    names,     \* mNodeNames
    thread,    \* where an execution is: [pc, operand]
    service    \* "up" until a fault or an uncaught exception

vars == <<model, at, nodes, params, results, names, thread, service>>

Operands   == DOMAIN model.operands
Ops        == DOMAIN model.ops
Operand(i) == model.operands[i]
Op(k)      == model.ops[k]

\* getOperationInput(k, p): positions start from 0.
In(k, p) == Op(k).ins[p + 1]

Down == service' = "down" /\ UNCHANGED <<model, at, nodes, params, results, names, thread>>

Goto(pc, k, j) == at' = [pc |-> pc, k |-> k, j |-> j]

\* Not the code: i <= getOperationsSize().
OneOpMore(k) == Goto("connect", k + 1, 1)

\* The next operation, or what follows the last one.
NextOp(k) == IF k < Len(model.ops) THEN Goto("connect", k + 1, 1) ELSE Goto("generate", k, 1)

\* An exception that generateGraph() catches, or a return of false.
Refuse ==
    /\ Goto("refused", at.k, 1)
    /\ UNCHANGED <<model, nodes, params, results, names, thread, service>>

Parameter(i) == [by |-> 0, out |-> i, on |-> {i}]

-----------------------------------------------------------------------------
(* The input parameters (NgraphNetworkCreator.cpp:32-114).                  *)

HasParameter(i) == Operand(i).life = "input" /\ Operand(i).sized

\* setInvalidNode(): the name of an operand without a node is "".
CreateInputParams ==
    /\ service = "up" /\ at.pc = "inputs"
    /\ \/ /\ params' = {i \in Operands : HasParameter(i)}
          /\ nodes' = [i \in Operands |-> IF HasParameter(i) THEN Parameter(i) ELSE Null]
          /\ names' = [i \in Operands |->
                IF Operand(i).life = "input" /\ ~HasParameter(i) THEN Empty ELSE Unnamed]
          /\ Goto("connect", 1, 1)
          /\ UNCHANGED <<model, results, thread, service>>
       \/ Refuse  \* an input of a type it has no case for

-----------------------------------------------------------------------------
(* Which inputs the recurrent networks use: LSTM.cpp:36-110 and             *)
(* BidirectionalSequenceRNN.cpp:43-51.                                      *)

\* isOmittedInput(), and isValidInputTensor() of these two classes.
Omitted(k, p) == Operand(In(k, p)).life = "none"
Valid(k, p)   == Operand(In(k, p)).sized

AllOmitted(k, ps) == \A p \in ps : Omitted(k, p)
AllValid(k, ps)   == \A p \in ps : Valid(k, p)

\* ~isCifgDimsEmpty: the weights of the input gate are there, and are coupled
\* after all because cell-to-input alone is missing from the peephole weights.
Recoupled(k) ==
    /\ ~AllOmitted(k, {1, 5, 12}) /\ AllValid(k, {1, 5, 12})
    /\ ~AllOmitted(k, {9, 10, 11}) /\ ~Valid(k, 9) /\ AllValid(k, {10, 11})

Cifg(k) == AllOmitted(k, {1, 5, 12}) \/ ~AllValid(k, {1, 5, 12}) \/ Recoupled(k)

Peephole(k) ==
    /\ ~AllOmitted(k, {9, 10, 11})
    /\ AllValid(k, IF Cifg(k) THEN {10, 11} ELSE {9, 10, 11})

Projection(k) == ~Omitted(k, 16) /\ Valid(k, 16)

LayerNorm(k) ==
    /\ Len(Op(k).ins) = 27 /\ ~AllOmitted(k, 23..26)
    /\ AllValid(k, IF Cifg(k) THEN 24..26 ELSE 23..26)

\* Not the code: the projection bias is read with its weights.
LstmReadsBias(k) ==
         {0, 2, 3, 4, 6, 7, 8, 13, 14, 15, 18, 19}
    \cup {p \in {1, 5, 12} : ~Cifg(k)}
    \cup {p \in {9, 10, 11} : Peephole(k) /\ (p = 9 => ~Cifg(k))}
    \cup {p \in {16, 17} : Projection(k)}
    \cup {p \in 23..26 : LayerNorm(k) /\ (p = 23 => ~Cifg(k))}

\* LSTM.cpp:125-213
LstmReads(k) ==
         {0, 2, 3, 4, 6, 7, 8, 13, 14, 15, 18, 19}
    \cup {p \in {1, 5, 12} : ~Cifg(k)}
    \cup {p \in {9, 10, 11} : Peephole(k) /\ (p = 9 => ~Cifg(k))}
    \cup {p \in {16, 17} : Projection(k) /\ (p = 17 => Valid(k, 17))}
    \cup {p \in 23..26 : LayerNorm(k) /\ (p = 23 => ~Cifg(k))}

ParallelLinking(k) == Valid(k, 9) /\ ~Valid(k, 10) /\ ~Valid(k, 11)
AuxInputs(k)       == AllValid(k, {9, 10, 11})

\* The three auxiliary inputs are always fetched, and used if there are any.
BidirectionalReads(k) ==
    0..8 \cup {p \in 9..11 : AuxInputs(k) \/ (p = 9 /\ ParallelLinking(k))}

\* The positions whose node an operation goes on to use.
Reads(k) ==
    CASE Op(k).kind = "lstm"  -> LstmReads(k)
      [] Op(k).kind = "birnn" -> BidirectionalReads(k)
      [] OTHER                -> 0..(Len(Op(k).ins) - 1)

\* The positions it calls removeInputNode() on.
Removes(k) ==
    CASE Op(k).kind = "lstm" /\ Recoupled(k) -> <<1, 5, 12>>
      [] Op(k).kind = "birnn" /\ ~ParallelLinking(k) /\ ~AuxInputs(k) -> <<9, 10, 11>>
      [] OTHER -> <<>>

-----------------------------------------------------------------------------
(* Connecting one operation.                                                *)

Constant(k) == [by |-> k, out |-> 0, on |-> {}]

\* getInputNode(): a constant is made on the spot, any other operand has the
\* node that was set for it, if one was.
InputNode(k, p) ==
    IF Operand(In(k, p)).life = "const" THEN Constant(k) ELSE nodes[In(k, p)]

\* createNode() up to its outputs: building a node on a null pointer is a fault,
\* and nGraph may reject shapes and types with an exception.
CreateNode ==
    LET k == at.k IN
    /\ service = "up" /\ at.pc = "connect" /\ Op(k).kind # "cast"
    /\ \/ (\E p \in Reads(k) : InputNode(k, p) = Null) /\ Down
       \/ /\ \A p \in Reads(k) : InputNode(k, p) # Null
          /\ Goto(IF Removes(k) = <<>> THEN "outputs" ELSE "remove", k, 1)
          /\ UNCHANGED <<model, nodes, params, results, names, thread, service>>
       \/ Refuse

\* Not the code: setInvalidNode() without erasing the parameter.
EraseNothing(name) == params

\* Not the code: the parameter is erased, and its operand keeps its name.
KeepName(i, name) == [names EXCEPT ![i] = name]

\* removeInputParameter(): erase the parameter of that name, and set the operand
\* to "" if there was one.
Erase(name) == {i \in params : Parameter(i) # name}
Rename(i, name) ==
    [names EXCEPT ![i] = IF \E x \in params : Parameter(x) = name THEN Empty ELSE name]

\* removeInputNode(): getNodeName() of an operand without a node or a name
\* goes through a null pointer.
RemoveInputNode ==
    LET k == at.k
        i == In(k, Removes(k)[at.j])
        name == IF names[i] = Unnamed THEN nodes[i] ELSE names[i]
    IN
    /\ service = "up" /\ at.pc = "remove"
    /\ \/ name = Null /\ Down
       \/ /\ name # Null
          /\ params' = Erase(name)
          /\ names' = Rename(i, name)
          /\ IF at.j < Len(Removes(k)) THEN Goto("remove", k, at.j + 1) ELSE Goto("outputs", k, 1)
          /\ UNCHANGED <<model, nodes, results, thread, service>>

\* The outputs that get a node, which may be more or fewer than there are.
Written(k) ==
    LET op == Op(k) IN
    CASE op.kind \in {"base", "cast"} -> {1}
      [] op.kind = "split"            -> 1..op.splits
      [] op.kind \in {"topk", "rnn"}  -> {1, 2}
      [] op.kind = "unirnn"           -> IF Len(op.outs) = 2 THEN {1, 2} ELSE {1}
      [] op.kind = "lstm"             -> 1..4
      [] op.kind = "birnn"            ->
            {1} \cup (IF op.merged THEN {} ELSE {2})
                \cup (IF Len(op.outs) <= 2 THEN {} ELSE IF op.merged THEN {2, 3} ELSE {3, 4})

\* The second and the fourth output of an LSTM are one node.  Every output is
\* taken to depend on all the inputs of its operation.
OutputNode(k, j) ==
    IF ~Op(k).handled /\ (Op(k).kind = "split" \/ (Op(k).kind = "topk" /\ j = 1))
    THEN Null
    ELSE [ by |-> k, out |-> IF Op(k).kind = "lstm" /\ j = 4 THEN 2 ELSE j,
           on |-> UNION {InputNode(k, p).on : p \in Reads(k)} ]

\* setOutputAtOperandIndex(), and addResultNode() for an output of the model.
Connect(k, made) ==
    /\ nodes' = [i \in Operands |->
            IF \E j \in Written(k) : Op(k).outs[j] = i
            THEN made[CHOOSE j \in Written(k) : Op(k).outs[j] = i]
            ELSE nodes[i]]
    /\ results' = results \cup
            {made[j] : j \in {l \in Written(k) : Operand(Op(k).outs[l]).life = "output"}}
    /\ NextOp(k)
    /\ UNCHANGED <<model, params, names, thread, service>>

\* operations[k].outputs[j] is not checked against its size.
SetOutputs ==
    LET k == at.k IN
    /\ service = "up" /\ at.pc = "outputs"
    /\ \/ ~(Written(k) \subseteq DOMAIN Op(k).outs) /\ Down
       \/ /\ Written(k) \subseteq DOMAIN Op(k).outs
          /\ Connect(k, [j \in Written(k) |-> OutputNode(k, j)])

\* Cast compares the types of the operations that have the indices of its two
\* operands.  Behind the last operation it may find anything.
Compared(k) == {In(k, 0), Op(k).outs[1]}

SameType(k) ==
    IF Compared(k) \subseteq Ops /\ \E i \in Compared(k) : Op(i).kind # "base"
    THEN {\A i, o \in Compared(k) : Op(i).kind = Op(o).kind}
    ELSE BOOLEAN

\* Cast.cpp:16-72: the input itself is passed on when the types compare equal.
ConnectCast ==
    LET k == at.k IN
    /\ service = "up" /\ at.pc = "connect" /\ Op(k).kind = "cast"
    /\ \/ ~(Compared(k) \subseteq Ops) /\ Down
       \/ TRUE \in SameType(k) /\ Connect(k, [j \in {1} |-> InputNode(k, 0)])
       \/ FALSE \in SameType(k) /\ InputNode(k, 0) = Null /\ Down
       \/ /\ FALSE \in SameType(k) /\ InputNode(k, 0) # Null
          /\ Connect(k, [j \in {1} |-> OutputNode(k, j)])
       \/ Refuse

\* The function refuses a result that needs a parameter it was not given.  What
\* else OpenVINO may not like is refused too.
GenerateGraph ==
    /\ service = "up" /\ at.pc = "generate"
    /\ \/ Null \in results /\ Down
       \/ /\ Null \notin results
          /\ \A r \in results : r.on \subseteq params
          /\ Goto("ready", at.k, 1)
          /\ UNCHANGED <<model, nodes, params, results, names, thread, service>>
       \/ Null \notin results /\ Refuse

-----------------------------------------------------------------------------
(* Executions look for their blobs (BasePreparedModel.cpp:160-200).         *)

\* The operands an execution asks for, inputs first: they have lower indices.
Asked == {i \in Operands : Operand(i).life \in {"input", "output"}}

Move(e, pc, i) == thread' = [thread EXCEPT ![e] = [pc |-> pc, i |-> i]]

\* The next operand, or the end.
AskNext(e, i) ==
    LET later == {j \in Asked : j > i} IN
    \/ later = {} /\ Move(e, "done", i)
    \/ \E j \in later : (\A h \in later : j <= h) /\ Move(e, "find", j)

\* Another thread inserts into the map at the same time: a data race.
Racing(e) == \E f \in Executions \ {e} : thread[f].pc = "insert"

At(e, pc) == service = "up" /\ at.pc = "ready" /\ thread[e].pc = pc

Execute(e) ==
    /\ At(e, "idle") /\ AskNext(e, 0)
    /\ UNCHANGED <<model, at, nodes, params, results, names, service>>

\* mNodeNames.find(index), and get_name() of the node when there is no entry.
FindName(e) ==
    LET i == thread[e].i IN
    /\ At(e, "find")
    /\ \/ Racing(e) /\ Down
       \/ names[i] = Unnamed /\ nodes[i] = Null /\ Down
       \/ /\ names[i] = Unnamed => nodes[i] # Null
          /\ Move(e, IF names[i] = Unnamed THEN "insert" ELSE "blob", i)
          /\ UNCHANGED <<model, at, nodes, params, results, names, service>>

\* mNodeNames[index] = name.
InsertName(e) ==
    LET i == thread[e].i IN
    /\ At(e, "insert")
    /\ \/ Racing(e) /\ Down
       \/ /\ names' = [names EXCEPT ![i] = nodes[i]]
          /\ Move(e, "blob", i)
          /\ UNCHANGED <<model, at, nodes, params, results, service>>

HasBlob(name) == name \in {Parameter(i) : i \in params} \cup results

\* "" is passed over; GetBlob() throws for a name it does not know.
GetBlob(e) ==
    LET i == thread[e].i IN
    /\ At(e, "blob")
    /\ \/ names[i] # Empty /\ ~HasBlob(names[i]) /\ Down
       \/ /\ names[i] = Empty \/ HasBlob(names[i])
          /\ AskNext(e, i)
          /\ UNCHANGED <<model, at, nodes, params, results, names, service>>

\* Nothing is left to do: the model was refused, or all executions are over.
Quiescent ==
    /\ \/ service = "down" \/ at.pc = "refused"
       \/ at.pc = "ready" /\ \A e \in Executions : thread[e].pc = "done"
    /\ UNCHANGED vars

-----------------------------------------------------------------------------
Init ==
    /\ model \in Models
    /\ at = [pc |-> "inputs", k |-> 1, j |-> 1]
    /\ nodes = [i \in Operands |-> Null]
    /\ params = {} /\ results = {}
    /\ names = [i \in Operands |-> Unnamed]
    /\ thread = [e \in Executions |-> [pc |-> "idle", i |-> 0]]
    /\ service = "up"

Next ==
    \/ CreateInputParams \/ CreateNode \/ RemoveInputNode \/ SetOutputs
    \/ ConnectCast \/ GenerateGraph
    \/ \E e \in Executions : Execute(e) \/ FindName(e) \/ InsertName(e) \/ GetBlob(e)
    \/ Quiescent

Spec == Init /\ [][Next]_vars
-----------------------------------------------------------------------------
(* Properties.                                                             *)

BuilderPc == {"inputs", "connect", "remove", "outputs", "generate", "ready", "refused"}
ThreadPc  == {"idle", "find", "insert", "blob", "done"}

\* The variables hold what the C++ types allow, and indices are in range.
TypeOK ==
    /\ model \in Models
    /\ at \in [pc : BuilderPc, k : Ops, j : 1..3]
    /\ nodes \in [Operands -> NodeType \cup {Null}]
    /\ params \subseteq Operands
    /\ results \subseteq NodeType \cup {Null}
    /\ names \in [Operands -> NodeType \cup {Empty, Unnamed}]
    /\ thread \in [Executions -> [pc : ThreadPc, i : Operands \cup {0}]]
    /\ service \in {"up", "down"}

\* What getNodeName(i) answers, or will.
NameOf(i) == IF names[i] = Unnamed THEN nodes[i] ELSE names[i]

\* A Cast passed the node of i on to an operand that was then removed.
RemovedByAnotherName(i) ==
    \E h \in Operands \ {i} : nodes[h] = nodes[i] /\ names[h] = Empty

\* Whatever was removed while the graph was built, an execution finds a blob for
\* the name of each input and each output, or is told to pass it over; the
\* exceptions are an output that never got a node, and a parameter that was
\* removed by the name a Cast passed on (NgraphNodes.cpp:33-49).
BlobsFound ==
    at.pc = "ready" =>
        \A i \in Asked :
            \/ NameOf(i) = Empty \/ HasBlob(NameOf(i))
            \/ NameOf(i) = Null /\ Operand(i).life = "output"
            \/ RemovedByAnotherName(i)

\* No parameter is left that executions do not fill: each one belongs to an
\* input whose name is that of the parameter.  An inference on a parameter that
\* nobody writes would compute with what its blob happens to hold.
EveryParameterIsFed ==
    at.pc = "ready" =>
        \A i \in params : Operand(i).life = "input" /\ NameOf(i) = Parameter(i)

-----------------------------------------------------------------------------
(* Models NNAPI means an operation to have: which of its optional inputs are *)
(* given together.                                                           *)

HasNode(i) == Operand(i).life # "none" /\ (Operand(i).life = "input" => Operand(i).sized)

Given(k, p)   == HasNode(In(k, p)) /\ Operand(In(k, p)).sized
Missing(k, p) == Operand(In(k, p)).life \in {"input", "none"} /\ ~Operand(In(k, p)).sized

Together(k, ps) == (\A p \in ps : Given(k, p)) \/ (\A p \in ps : Missing(k, p))

\* An LSTM has its input gate or couples it, and what belongs to the input gate
\* is given with it.
LstmConsistent(k) ==
    /\ \A p \in {0, 2, 3, 4, 6, 7, 8, 13, 14, 15, 18, 19} : HasNode(In(k, p))
    /\ Together(k, {1, 5, 12}) /\ Together(k, {16}) /\ Together(k, {17})
    /\ Together(k, IF Given(k, 1) THEN {9, 10, 11} ELSE {10, 11})
    /\ Len(Op(k).ins) = 27 => Together(k, IF Given(k, 1) THEN 23..26 ELSE 24..26)

\* noValue: whether auxiliary inputs may be omitted with lifetime NO_VALUE.
BidirectionalConsistent(k, noValue) ==
    /\ \A p \in 0..8 : HasNode(In(k, p))
    /\ Together(k, {10, 11}) /\ Together(k, {9}) /\ (Given(k, 10) => Given(k, 9))
    /\ \/ noValue \/ Given(k, 9)
       \/ \A p \in 9..11 : Operand(In(k, p)).life = "input"
    /\ Len(Op(k).outs) \in IF Op(k).merged THEN {1, 3} ELSE {2, 4}

\* The others need all their inputs, and as many outputs as they make.
OthersConsistent(k) ==
    /\ \A p \in 0..(Len(Op(k).ins) - 1) : HasNode(In(k, p))
    /\ Op(k).handled
    /\ CASE Op(k).kind = "split"             -> Len(Op(k).outs) = Op(k).splits
         [] Op(k).kind \in {"topk", "rnn"}    -> Len(Op(k).outs) = 2
         [] Op(k).kind = "unirnn"             -> Len(Op(k).outs) <= 2
         [] Op(k).kind = "base"               -> Len(Op(k).outs) = 1
         [] Op(k).kind = "cast"               -> Len(Op(k).outs) = 1 /\ Compared(k) \subseteq Ops

Consistent(noValue) ==
    \A k \in Ops :
        CASE Op(k).kind = "lstm"  -> LstmConsistent(k)
          [] Op(k).kind = "birnn" -> BidirectionalConsistent(k, noValue)
          [] OTHER                -> OthersConsistent(k)

NamingRace ==
    \E e \in Executions :
        Racing(e) /\ thread[e].pc \in {"find", "insert"}

\* A model whose optional inputs are given together, or missing together, does
\* not bring the service down, neither while it is built nor when executions
\* first ask for names, unless two of them race for mNodeNames.  Auxiliary inputs
\* of a BidirectionalSequenceRNN with lifetime NO_VALUE are the exception that
\* OmittedInputsHaveNoValue is about.
OnlyDefectsFault ==
    service = "down" /\ Consistent(FALSE) => NamingRace

\* "Operation's optional input lifetime is supposed to be "NO_VALUE""
\* (NgraphNetworkCreator.cpp:38-39): an input that is omitted that way is fine.
OmittedInputsHaveNoValue ==
    service = "down" /\ Consistent(TRUE) => NamingRace
===============================================================================
