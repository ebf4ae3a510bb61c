------------------------ MODULE GraphConstruction_proofs ------------------------
(***************************************************************************)
(* Theorems about GraphConstruction that hold of any models and any number *)
(* of executions: TypeOK, EveryParameterIsFed and BlobsFound.              *)
(***************************************************************************)
EXTENDS GraphConstruction, TLAPS

\* Once there are parameters, each belongs to an input, whose node it is and
\* whose name it has if it has one.
ParametersOK ==
    /\ at.pc = "inputs" => params = {}
    /\ at.pc # "inputs" => \A i \in params :
        /\ Operand(i).life = "input" /\ nodes[i] = Parameter(i)
        /\ names[i] \in {Unnamed, Parameter(i)}

\* An execution that inserts a name has found a node, and executions run on a
\* finished graph.
ThreadsOK ==
    \A e \in Executions :
        /\ thread[e].pc # "idle" => at.pc = "ready"
        /\ thread[e].pc \notin {"idle", "done"} => thread[e].i \in Operands
        /\ thread[e].pc = "insert" =>
            nodes[thread[e].i] # Null /\ names[thread[e].i] # Empty

\* A removal stays within the three positions of its operation, which by then has
\* found a node for all it reads.
RemovalOK ==
    /\ at.pc = "remove" => at.j \in DOMAIN Removes(at.k)
    /\ at.pc \in {"remove", "outputs"} =>
            \A p \in Reads(at.k) : InputNode(at.k, p) # Null

IInv == TypeOK /\ RemovalOK /\ ThreadsOK /\ ParametersOK

\* What BlobsFound needs besides.  An operand that has a name has its node's, or "".
NamesFollow == \A i \in Operands : names[i] \in {Unnamed, Empty, nodes[i]}

\* The parameter of i was removed, by its own operand or by one it was passed on to.
Removed(i) == \E h \in Operands : nodes[h] = Parameter(i) /\ names[h] = Empty

\* An input has a parameter, or had one, or is passed over.
InputsOK ==
    at.pc \notin {"inputs", "refused"} =>
        \A i \in Operands : Operand(i).life = "input" =>
            IF HasParameter(i)
            THEN nodes[i] = Parameter(i) /\ (i \in params \/ Removed(i))
            ELSE names[i] = Empty /\ nodes[i] = Null

\* While the graph is built, only inputs of the model and of the operations that
\* have been reached get names.
ReachedOK ==
    at.pc # "ready" =>
        \A i \in Operands : names[i] # Unnamed =>
            \/ Operand(i).life = "input"
            \/ \E l \in 1 .. at.k : \E p \in DOMAIN Op(l).ins : Op(l).ins[p] = i

ResultsOK ==
    \A i \in Operands : Operand(i).life = "output" => nodes[i] = Null \/ nodes[i] \in results

NamesOK == NamesFollow /\ InputsOK /\ ReachedOK /\ ResultsOK

BInv == IInv /\ NamesOK

-----------------------------------------------------------------------------
(* Facts about the models and the building blocks of the actions.          *)

LEMMA SentinelsDiffer ==
  /\ Null # Empty /\ Null # Unnamed /\ Empty # Unnamed
  /\ \A n \in NodeType : n # Null /\ n # Empty /\ n # Unnamed
BY SentinelsAssumption

LEMMA ModelFacts ==
  ASSUME model \in Models
  PROVE  /\ Ops = 1 .. Len(model.ops) /\ Len(model.ops) \in Nat /\ Len(model.ops) >= 1
         /\ Operands = 1 .. Len(model.operands) /\ Len(model.operands) \in Nat
         /\ \A k \in Ops : Op(k) \in OpType
         /\ \A i \in Operands : Operand(i) \in OperandType
<1>1. Admitted(model)
  BY ModelsAssumption
<1>2. model.ops \in Seq(OpType) /\ model.operands \in Seq(OperandType) /\ model.ops # <<>>
  BY <1>1 DEF Admitted, ModelType
<1>3. Ops = 1 .. Len(model.ops) /\ Len(model.ops) \in Nat /\ Len(model.ops) >= 1
  BY <1>2 DEF Ops
<1>4. Operands = 1 .. Len(model.operands) /\ Len(model.operands) \in Nat
  BY <1>2 DEF Operands
<1>5. QED
  BY <1>2, <1>3, <1>4 DEF Op, Operand, Ops, Operands

\* What an operation reads and writes: no operation writes an operand it or an
\* earlier one reads, and it writes only intermediate operands and outputs.
LEMMA OutsFacts ==
  ASSUME model \in Models, NEW k \in Ops, NEW j \in DOMAIN Op(k).outs
  PROVE  /\ Op(k).outs[j] \in Operands
         /\ Operand(Op(k).outs[j]).life \in {"temp", "output"}
         /\ \A l \in 1 .. k : \A p \in DOMAIN Op(l).ins : Op(l).ins[p] # Op(k).outs[j]
<1>1. Admitted(model)
  BY ModelsAssumption
<1>2. k \in DOMAIN model.ops /\ j \in DOMAIN model.ops[k].outs
  BY DEF Ops, Op
<1>3. /\ model.ops[k].outs[j] \in DOMAIN model.operands
      /\ model.operands[model.ops[k].outs[j]].life \in {"temp", "output"}
      /\ \A l \in 1 .. k : \A p \in DOMAIN model.ops[l].ins :
            model.ops[l].ins[p] # model.ops[k].outs[j]
  <2>1. \A h \in DOMAIN model.ops[k].outs :
           /\ model.ops[k].outs[h] \in DOMAIN model.operands
           /\ model.operands[model.ops[k].outs[h]].life \in {"temp", "output"}
           /\ \A l \in 1 .. k : \A p \in DOMAIN model.ops[l].ins :
                 model.ops[l].ins[p] # model.ops[k].outs[h]
    BY <1>1, <1>2 DEF Admitted
  <2>2. QED
    BY <1>2, <2>1
<1>4. QED
  BY <1>3 DEF Op, Operand, Operands

\* The positions an operation reads or removes are positions of its inputs.
LEMMA InputsFacts ==
  ASSUME model \in Models, NEW k \in Ops
  PROVE  /\ Len(Op(k).ins) \in Nat /\ DOMAIN Op(k).ins = 1 .. Len(Op(k).ins)
         /\ \A p \in 0 .. (Len(Op(k).ins) - 1) :
              In(k, p) \in Operands /\ p + 1 \in DOMAIN Op(k).ins
         /\ Op(k).kind = "cast" => Len(Op(k).ins) = 1
         /\ Op(k).kind = "lstm" => Len(Op(k).ins) \in {23, 27}
         /\ Op(k).kind = "birnn" => Len(Op(k).ins) = 12
         /\ Op(k).kind \in Kinds
<1>1. Admitted(model)
  BY ModelsAssumption
<1>2. k \in DOMAIN model.ops
  BY DEF Ops
<1>3. Op(k) \in OpType
  BY ModelFacts
<1>4. Op(k).ins \in Seq(Nat \ {0}) /\ Op(k).kind \in Kinds
  BY <1>3 DEF OpType
<1>5. Len(Op(k).ins) \in Nat /\ DOMAIN Op(k).ins = 1 .. Len(Op(k).ins)
  BY <1>4
<1>6. \A p \in DOMAIN Op(k).ins : Op(k).ins[p] \in Operands
  BY <1>1, <1>2 DEF Admitted, Op, Operands
<1>7. \A p \in 0 .. (Len(Op(k).ins) - 1) : p + 1 \in DOMAIN Op(k).ins
  BY <1>5
<1>8. Op(k).kind = "cast" => Len(Op(k).ins) = 1
  BY <1>1, <1>2 DEF Admitted, Op
<1>9. Op(k).kind = "lstm" => Len(Op(k).ins) \in {23, 27}
  BY <1>1, <1>2 DEF Admitted, Op
<1>10. Op(k).kind = "birnn" => Len(Op(k).ins) = 12
  BY <1>1, <1>2 DEF Admitted, Op
<1>11. QED
  BY <1>4, <1>5, <1>6, <1>7, <1>8, <1>9, <1>10 DEF In

LEMMA ReadsFacts ==
  ASSUME model \in Models, NEW k \in Ops, NEW p \in Reads(k)
  PROVE  p \in 0 .. (Len(Op(k).ins) - 1) /\ In(k, p) \in Operands
<1>1. CASE Op(k).kind = "lstm"
  <2>1. p \in LstmReads(k)
    BY <1>1 DEF Reads
  <2>2. p \in 0 .. 22 \/ (p \in 23 .. 26 /\ Len(Op(k).ins) = 27)
    BY <2>1 DEF LstmReads, LayerNorm
  <2>3. Len(Op(k).ins) \in {23, 27}
    BY <1>1, InputsFacts
  <2>4. CASE Len(Op(k).ins) = 23
    <3>1. p \in 0 .. 22
      BY <2>2, <2>4
    <3>2. p \in 0 .. (Len(Op(k).ins) - 1)
      BY <2>4, <3>1
    <3>3. QED
      BY <3>2, InputsFacts
  <2>5. CASE Len(Op(k).ins) = 27
    <3>1. p \in 0 .. 26
      BY <2>2
    <3>2. p \in 0 .. (Len(Op(k).ins) - 1)
      BY <2>5, <3>1
    <3>3. QED
      BY <3>2, InputsFacts
  <2>6. QED
    BY <2>3, <2>4, <2>5
<1>2. CASE Op(k).kind = "birnn"
  <2>1. p \in 0 .. 11
    BY <1>2 DEF Reads, BidirectionalReads
  <2>2. Len(Op(k).ins) = 12
    BY <1>2, InputsFacts
  <2>3. p \in 0 .. (Len(Op(k).ins) - 1)
    BY <2>1, <2>2
  <2>4. QED
    BY <2>3, InputsFacts
<1>3. CASE Op(k).kind \notin {"lstm", "birnn"}
  <2>1. p \in 0 .. (Len(Op(k).ins) - 1)
    BY <1>3 DEF Reads
  <2>2. QED
    BY <2>1, InputsFacts
<1>4. QED
  BY <1>1, <1>2, <1>3

\* removeInputNode() is called for no input, or for three.
LEMMA RemovesFacts ==
  ASSUME model \in Models, NEW k \in Ops
  PROVE  /\ Removes(k) = <<>> \/ (DOMAIN Removes(k) = 1 .. 3 /\ Len(Removes(k)) = 3)
         /\ \A j \in DOMAIN Removes(k) :
              /\ In(k, Removes(k)[j]) \in Operands
              /\ Removes(k)[j] + 1 \in DOMAIN Op(k).ins
              /\ In(k, Removes(k)[j]) = Op(k).ins[Removes(k)[j] + 1]
<1>1. CASE Removes(k) = <<>>
  <2>1. DOMAIN Removes(k) = {}
    BY <1>1
  <2>2. QED
    BY <1>1, <2>1
<1>2. CASE Removes(k) # <<>>
  <2>1. \/ Op(k).kind = "lstm" /\ Removes(k) = <<1, 5, 12>>
        \/ Op(k).kind = "birnn" /\ Removes(k) = <<9, 10, 11>>
    BY <1>2 DEF Removes
  <2>2. DOMAIN Removes(k) = 1 .. 3 /\ Len(Removes(k)) = 3
    <3>1. \A a, b, c : DOMAIN <<a, b, c>> = 1 .. 3 /\ Len(<<a, b, c>>) = 3
      OBVIOUS
    <3>2. QED
      BY <2>1, <3>1
  <2>3. \A j \in 1 .. 3 : Removes(k)[j] \in 0 .. (Len(Op(k).ins) - 1)
    <3>1. SUFFICES ASSUME NEW j \in 1 .. 3
                   PROVE  Removes(k)[j] \in 0 .. (Len(Op(k).ins) - 1)
      OBVIOUS
    <3>2. CASE Op(k).kind = "lstm" /\ Removes(k) = <<1, 5, 12>>
      <4>1. Removes(k)[j] \in 0 .. 12
        <5>1. CASE j = 1
          BY <3>2, <5>1
        <5>2. CASE j = 2
          BY <3>2, <5>2
        <5>3. CASE j = 3
          BY <3>2, <5>3
        <5>4. QED
          BY <5>1, <5>2, <5>3
      <4>2. Len(Op(k).ins) \in {23, 27}
        BY <3>2, InputsFacts
      <4>3. CASE Len(Op(k).ins) = 23
        BY <4>1, <4>3
      <4>4. CASE Len(Op(k).ins) = 27
        BY <4>1, <4>4
      <4>5. QED
        BY <4>2, <4>3, <4>4
    <3>3. CASE Op(k).kind = "birnn" /\ Removes(k) = <<9, 10, 11>>
      <4>1. Removes(k)[j] \in 0 .. 11
        <5>1. CASE j = 1
          BY <3>3, <5>1
        <5>2. CASE j = 2
          BY <3>3, <5>2
        <5>3. CASE j = 3
          BY <3>3, <5>3
        <5>4. QED
          BY <5>1, <5>2, <5>3
      <4>2. Len(Op(k).ins) = 12
        BY <3>3, InputsFacts
      <4>3. QED
        BY <4>1, <4>2
    <3>4. QED
      BY <2>1, <3>2, <3>3
  <2>4. QED
    BY <2>2, <2>3, InputsFacts DEF In
<1>3. QED
  BY <1>1, <1>2

\* A node of an input is a node, or none.
LEMMA InputNodeType ==
  ASSUME TypeOK, NEW k \in Ops, NEW i \in Operands,
         NEW p, In(k, p) = i
  PROVE  InputNode(k, p) \in NodeType \cup {Null}
<1>1. k \in Nat
  BY ModelFacts DEF TypeOK
<1>2. Constant(k) \in NodeType
  BY <1>1 DEF Constant, NodeType
<1>3. nodes[i] \in NodeType \cup {Null}
  BY DEF TypeOK
<1>4. QED
  BY <1>2, <1>3 DEF InputNode

LEMMA ParameterType ==
  ASSUME model \in Models, NEW i \in Operands
  PROVE  Parameter(i) \in NodeType
<1>1. i \in Nat
  BY ModelFacts
<1>2. QED
  BY <1>1 DEF Parameter, NodeType

\* The written positions are positive numbers.
LEMMA WrittenFacts ==
  ASSUME model \in Models, NEW k \in Ops, NEW j \in Written(k)
  PROVE  j \in Nat
<1>1. Op(k) \in OpType
  BY ModelFacts
<1>2. Op(k).kind \in Kinds /\ Op(k).splits \in Nat
  BY <1>1 DEF OpType
<1>3. CASE Op(k).kind = "split"
  BY <1>2, <1>3 DEF Written
<1>4. CASE Op(k).kind = "birnn"
  BY <1>4 DEF Written
<1>5. CASE Op(k).kind \in {"base", "cast", "topk", "rnn", "unirnn", "lstm"}
  BY <1>5 DEF Written
<1>6. QED
  BY <1>2, <1>3, <1>4, <1>5 DEF Kinds

\* An output is a node when its operation's inputs are, or no node at all.
LEMMA OutputNodeType ==
  ASSUME TypeOK, NEW k \in Ops, NEW j \in Written(k),
         \A p \in Reads(k) : InputNode(k, p) # Null
  PROVE  OutputNode(k, j) \in NodeType \cup {Null}
<1>1. k \in Nat /\ j \in Nat
  BY ModelFacts, WrittenFacts DEF TypeOK
<1>2. \A p \in Reads(k) : InputNode(k, p) \in NodeType
  BY InputNodeType, ReadsFacts DEF TypeOK
<1>3. \A p \in Reads(k) : InputNode(k, p).on \subseteq Nat
  BY <1>2 DEF NodeType
<1>4. UNION {InputNode(k, p).on : p \in Reads(k)} \in SUBSET Nat
  BY <1>3
<1>5. QED
  BY <1>1, <1>4 DEF OutputNode, NodeType

-----------------------------------------------------------------------------
(* A step that leaves the model, and the nodes, as they are.               *)

LEMMA SameModel ==
  ASSUME model' = model
  PROVE  /\ Ops' = Ops /\ Operands' = Operands
         /\ \A k \in Ops : Op(k)' = Op(k) /\ Reads(k)' = Reads(k) /\ Removes(k)' = Removes(k)
         /\ \A i \in Operands : Operand(i)' = Operand(i) /\ Parameter(i)' = Parameter(i)
<1>1. \A k : Op(k)' = Op(k)
  BY DEF Op
<1>2. \A k, p : Omitted(k, p)' = Omitted(k, p) /\ Valid(k, p)' = Valid(k, p)
  BY <1>1 DEF Omitted, Valid, In, Operand
<1>3. \A k, ps : AllOmitted(k, ps)' = AllOmitted(k, ps) /\ AllValid(k, ps)' = AllValid(k, ps)
  BY <1>2 DEF AllOmitted, AllValid
<1>4. \A k : Recoupled(k)' = Recoupled(k) /\ Cifg(k)' = Cifg(k)
  BY <1>2, <1>3 DEF Recoupled, Cifg
<1>5. \A k : Peephole(k)' = Peephole(k) /\ Projection(k)' = Projection(k) /\ LayerNorm(k)' = LayerNorm(k)
  BY <1>1, <1>2, <1>3, <1>4 DEF Peephole, Projection, LayerNorm
<1>6. \A k : AuxInputs(k)' = AuxInputs(k) /\ ParallelLinking(k)' = ParallelLinking(k)
  BY <1>2, <1>3 DEF AuxInputs, ParallelLinking
<1>7. \A k : LstmReads(k)' = LstmReads(k)
  BY <1>2, <1>4, <1>5 DEF LstmReads
<1>8. \A k : BidirectionalReads(k)' = BidirectionalReads(k)
  BY <1>6 DEF BidirectionalReads
<1>9. \A k : Reads(k)' = Reads(k)
  BY <1>1, <1>7, <1>8 DEF Reads
<1>10. \A k : Removes(k)' = Removes(k)
  BY <1>1, <1>4, <1>6 DEF Removes
<1>11. \A i : Operand(i)' = Operand(i) /\ Parameter(i)' = Parameter(i)
  BY DEF Operand, Parameter
<1>12. QED
  BY <1>1, <1>9, <1>10, <1>11 DEF Ops, Operands

LEMMA SameNodes ==
  ASSUME model' = model, nodes' = nodes, NEW k, NEW p
  PROVE  InputNode(k, p)' = InputNode(k, p)
BY DEF InputNode, Operand, In, Op, Constant

LEMMA ParametersKept ==
  ASSUME ParametersOK, model' = model, at' = at, nodes' = nodes, params' = params,
         params \subseteq Operands,
         \A i \in params : names'[i] \in {names[i], nodes[i]}
  PROVE  ParametersOK'
<1>1. \A i \in params : Operand(i)' = Operand(i) /\ Parameter(i)' = Parameter(i)
  BY SameModel
<1>2. QED
  BY <1>1 DEF ParametersOK

LEMMA RemovalKept ==
  ASSUME TypeOK, RemovalOK, model' = model, at' = at, nodes' = nodes
  PROVE  RemovalOK'
<1>1. at.k \in Ops
  BY DEF TypeOK
<1>2. Removes(at.k)' = Removes(at.k) /\ Reads(at.k)' = Reads(at.k)
  BY <1>1, SameModel
<1>3. QED
  BY <1>2, SameNodes DEF RemovalOK

\* A step that touches nothing but the service, or nothing at all.
LEMMA Kept ==
  ASSUME IInv, UNCHANGED <<model, at, nodes, params, results, names, thread>>,
         service' \in {"up", "down"}
  PROVE  IInv'
<1>1. TypeOK'
  <2>1. Ops' = Ops /\ Operands' = Operands
    BY SameModel
  <2>2. QED
    BY <2>1 DEF IInv, TypeOK
<1>2. RemovalOK'
  BY RemovalKept DEF IInv
<1>3. ThreadsOK'
  BY SameModel DEF IInv, ThreadsOK
<1>4. ParametersOK'
  BY ParametersKept DEF IInv, TypeOK
<1>5. QED
  BY <1>1, <1>2, <1>3, <1>4 DEF IInv

LEMMA DownKept ==
  ASSUME IInv, Down
  PROVE  IInv'
BY Kept DEF Down

-----------------------------------------------------------------------------
(* The steps of the building thread.                                       *)

\* No execution runs while the graph is built.
LEMMA ThreadsWait ==
  ASSUME ThreadsOK, at.pc # "ready", thread' = thread
  PROVE  ThreadsOK'
<1>1. \A e \in Executions : thread[e].pc = "idle"
  BY DEF ThreadsOK
<1>2. QED
  BY <1>1 DEF ThreadsOK

LEMMA GotoType ==
  ASSUME model \in Models, NEW pc \in BuilderPc, NEW k \in Ops, NEW j \in 1 .. 3,
         Goto(pc, k, j)
  PROVE  at' \in [pc : BuilderPc, k : Ops, j : 1 .. 3] /\ at'.pc = pc /\ at'.k = k /\ at'.j = j
BY DEF Goto

LEMMA NextOpType ==
  ASSUME model \in Models, NEW k \in Ops, NextOp(k)
  PROVE  at' \in [pc : BuilderPc, k : Ops, j : 1 .. 3] /\ at'.pc \in {"connect", "generate"}
<1>1. Ops = 1 .. Len(model.ops) /\ Len(model.ops) \in Nat
  BY ModelFacts
<1>2. CASE k < Len(model.ops)
  <2>1. k + 1 \in Ops /\ Goto("connect", k + 1, 1)
    BY <1>1, <1>2 DEF NextOp
  <2>2. QED
    BY <2>1, GotoType DEF BuilderPc
<1>3. CASE ~(k < Len(model.ops))
  <2>1. Goto("generate", k, 1)
    BY <1>3 DEF NextOp
  <2>2. QED
    BY <2>1, GotoType DEF BuilderPc
<1>4. QED
  BY <1>2, <1>3

\* A step of the building thread that keeps the graph.
LEMMA BuilderMoves ==
  ASSUME IInv, at.pc \notin {"inputs", "ready"},
         UNCHANGED <<model, nodes, params, results, names, thread, service>>,
         at' \in [pc : BuilderPc, k : Ops, j : 1 .. 3], at'.pc # "inputs", RemovalOK'
  PROVE  IInv'
<1>1. Ops' = Ops /\ Operands' = Operands
  BY SameModel
<1>2. TypeOK'
  BY <1>1 DEF IInv, TypeOK
<1>3. ThreadsOK'
  BY ThreadsWait DEF IInv
<1>4. ParametersOK'
  <2>1. \A i \in params : Operand(i)' = Operand(i) /\ Parameter(i)' = Parameter(i)
    BY SameModel DEF IInv, TypeOK
  <2>2. QED
    BY <2>1 DEF IInv, ParametersOK
<1>5. QED
  BY <1>2, <1>3, <1>4 DEF IInv

LEMMA RefuseKept ==
  ASSUME IInv, Refuse, at.pc # "ready"
  PROVE  IInv'
<1>1. at.k \in Ops /\ model \in Models
  BY DEF IInv, TypeOK
<1>2. at' \in [pc : BuilderPc, k : Ops, j : 1 .. 3] /\ at'.pc = "refused"
  BY <1>1, GotoType DEF Refuse, BuilderPc
<1>3. RemovalOK'
  BY <1>2 DEF RemovalOK
<1>4. CASE at.pc = "inputs"
  <2>1. params' = {} /\ ParametersOK'
    BY <1>2, <1>4 DEF IInv, ParametersOK, Refuse
  <2>2. Ops' = Ops /\ Operands' = Operands
    BY SameModel DEF Refuse
  <2>3. TypeOK'
    BY <1>2, <2>2 DEF IInv, TypeOK, Refuse
  <2>4. ThreadsOK'
    BY <1>4, ThreadsWait DEF IInv, Refuse
  <2>5. QED
    BY <1>3, <2>1, <2>3, <2>4 DEF IInv
<1>5. CASE at.pc # "inputs"
  BY <1>2, <1>3, <1>5, BuilderMoves DEF Refuse
<1>6. QED
  BY <1>4, <1>5

LEMMA CreateInputParamsKept ==
  ASSUME IInv, CreateInputParams
  PROVE  IInv'
<1>1. CASE Refuse
  BY <1>1, RefuseKept DEF CreateInputParams
<1>2. CASE ~Refuse
  <2>1. /\ params' = {i \in Operands : HasParameter(i)}
        /\ nodes' = [i \in Operands |-> IF HasParameter(i) THEN Parameter(i) ELSE Null]
        /\ names' = [i \in Operands |->
                IF Operand(i).life = "input" /\ ~HasParameter(i) THEN Empty ELSE Unnamed]
        /\ Goto("connect", 1, 1)
        /\ UNCHANGED <<model, results, thread, service>>
    BY <1>2 DEF CreateInputParams
  <2>2. model \in Models /\ 1 \in Ops
    BY ModelFacts DEF IInv, TypeOK
  <2>3. at' \in [pc : BuilderPc, k : Ops, j : 1 .. 3] /\ at'.pc = "connect"
    BY <2>1, <2>2, GotoType DEF BuilderPc
  <2>4. Ops' = Ops /\ Operands' = Operands
    BY <2>1, SameModel
  <2>5. nodes' \in [Operands -> NodeType \cup {Null}]
    BY <2>1, <2>2, ParameterType
  <2>6. names' \in [Operands -> NodeType \cup {Empty, Unnamed}]
    BY <2>1
  <2>7. TypeOK'
    BY <2>1, <2>3, <2>4, <2>5, <2>6 DEF IInv, TypeOK
  <2>8. RemovalOK'
    BY <2>3 DEF RemovalOK
  <2>9. ThreadsOK'
    BY <2>1, ThreadsWait DEF IInv, CreateInputParams
  <2>10. ParametersOK'
    <3>1. \A i \in Operands : Operand(i)' = Operand(i) /\ Parameter(i)' = Parameter(i)
      BY <2>1, SameModel
    <3>2. \A i \in params' : /\ i \in Operands /\ Operand(i).life = "input"
                             /\ nodes'[i] = Parameter(i) /\ names'[i] = Unnamed
      BY <2>1 DEF HasParameter
    <3>3. QED
      BY <2>3, <3>1, <3>2 DEF ParametersOK
  <2>11. QED
    BY <2>7, <2>8, <2>9, <2>10 DEF IInv
<1>3. QED
  BY <1>1, <1>2

LEMMA CreateNodeKept ==
  ASSUME IInv, CreateNode
  PROVE  IInv'
<1>1. CASE Down
  BY <1>1, DownKept
<1>2. CASE Refuse
  BY <1>2, RefuseKept DEF CreateNode
<1>3. CASE ~Down /\ ~Refuse
  <2>1. /\ \A p \in Reads(at.k) : InputNode(at.k, p) # Null
        /\ Goto(IF Removes(at.k) = <<>> THEN "outputs" ELSE "remove", at.k, 1)
        /\ UNCHANGED <<model, nodes, params, results, names, thread, service>>
    BY <1>3 DEF CreateNode
  <2>2. model \in Models /\ at.k \in Ops
    BY DEF IInv, TypeOK
  <2>3. /\ at' \in [pc : BuilderPc, k : Ops, j : 1 .. 3] /\ at'.k = at.k /\ at'.j = 1
        /\ at'.pc = IF Removes(at.k) = <<>> THEN "outputs" ELSE "remove"
    BY <2>1, <2>2, GotoType DEF BuilderPc
  <2>4. PICK k \in Ops : k = at.k
    BY <2>2
  <2>5. Removes(k)' = Removes(k) /\ Reads(k)' = Reads(k)
    BY <2>1, SameModel
  <2>6. \A p : InputNode(k, p)' = InputNode(k, p)
    BY <2>1, SameNodes
  <2>7. at'.pc = "remove" => at'.j \in DOMAIN Removes(k)'
    BY <2>2, <2>3, <2>4, <2>5, RemovesFacts
  <2>8. RemovalOK'
    BY <2>1, <2>3, <2>4, <2>5, <2>6, <2>7 DEF RemovalOK
  <2>9. QED
    BY <2>1, <2>3, <2>8, BuilderMoves DEF CreateNode
<1>4. QED
  BY <1>1, <1>2, <1>3

LEMMA RemoveInputNodeKept ==
  ASSUME IInv, RemoveInputNode
  PROVE  IInv'
<1> DEFINE k == at.k
           i == In(k, Removes(k)[at.j])
           name == IF names[i] = Unnamed THEN nodes[i] ELSE names[i]
<1>1. CASE Down
  BY <1>1, DownKept
<1>2. CASE ~Down
  <2>1. /\ service = "up" /\ at.pc = "remove" /\ name # Null
        /\ params' = Erase(name) /\ names' = Rename(i, name)
        /\ IF at.j < Len(Removes(k)) THEN Goto("remove", k, at.j + 1) ELSE Goto("outputs", k, 1)
        /\ UNCHANGED <<model, nodes, results, thread, service>>
    BY <1>2 DEF RemoveInputNode
  <2>2. model \in Models /\ k \in Ops /\ at.j \in DOMAIN Removes(k)
    BY <2>1 DEF IInv, TypeOK, RemovalOK
  <2>3. DOMAIN Removes(k) = 1 .. 3 /\ Len(Removes(k)) = 3 /\ i \in Operands
    BY <2>2, RemovesFacts
  <2>4. name \in NodeType \cup {Empty}
    BY <2>1, <2>3 DEF IInv, TypeOK
  <2>5. /\ at' \in [pc : BuilderPc, k : Ops, j : 1 .. 3] /\ at'.k = k
        /\ at'.pc \in {"remove", "outputs"} /\ at'.j \in 1 .. 3
    <3>1. CASE at.j < 3
      <4>1. at.j + 1 \in 1 .. 3
        BY <2>2, <2>3, <3>1
      <4>2. QED
        BY <2>1, <2>2, <2>3, <3>1, <4>1, GotoType DEF BuilderPc
    <3>2. CASE ~(at.j < 3)
      BY <2>1, <2>2, <2>3, <3>2, GotoType DEF BuilderPc
    <3>3. QED
      BY <3>1, <3>2
  <2>6. params' \subseteq params
    BY <2>1 DEF Erase
  <2>7. /\ names' \in [Operands -> NodeType \cup {Empty, Unnamed}]
        /\ \A h \in Operands : h # i => names'[h] = names[h]
    BY <2>1, <2>3, <2>4 DEF Rename, IInv, TypeOK
  <2>8. Ops' = Ops /\ Operands' = Operands
    BY <2>1, SameModel
  <2>9. TypeOK'
    BY <2>1, <2>5, <2>6, <2>7, <2>8 DEF IInv, TypeOK
  <2>10. RemovalOK'
    <3>1. PICK l \in Ops : l = at.k
      BY <2>2
    <3>2. Removes(l)' = Removes(l) /\ Reads(l)' = Reads(l)
      BY <2>1, SameModel
    <3>3. \A p : InputNode(l, p)' = InputNode(l, p)
      BY <2>1, SameNodes
    <3>4. QED
      BY <2>1, <2>3, <2>5, <3>1, <3>2, <3>3 DEF IInv, RemovalOK
  <2>11. ThreadsOK'
    BY <2>1, ThreadsWait DEF IInv
  <2>12. ParametersOK'
    <3>1. \A x \in Operands : Operand(x)' = Operand(x) /\ Parameter(x)' = Parameter(x)
      BY <2>1, SameModel
    <3>2. \A x \in params' : x \in params /\ Parameter(x) # name
      BY <2>1 DEF Erase
    <3>3. i \in params => name = Parameter(i)
      BY <2>1 DEF IInv, ParametersOK
    <3>4. \A x \in params' : x # i
      BY <3>2, <3>3
    <3>5. params' \subseteq Operands
      BY <2>6 DEF IInv, TypeOK
    <3>6. \A x \in params' : x \in Operands /\ names'[x] = names[x] /\ nodes'[x] = nodes[x]
      BY <2>1, <2>7, <3>4, <3>5
    <3>7. at.pc # "inputs" /\ at'.pc # "inputs"
      BY <2>1, <2>5
    <3>8. ASSUME NEW x \in params'
          PROVE  /\ Operand(x)'.life = "input" /\ nodes'[x] = Parameter(x)'
                 /\ names'[x] \in {Unnamed, Parameter(x)'}
      <4>1. x \in params
        BY <3>2
      <4>2. Operand(x).life = "input" /\ nodes[x] = Parameter(x)
            /\ names[x] \in {Unnamed, Parameter(x)}
        BY <3>7, <4>1 DEF IInv, ParametersOK
      <4>3. QED
        BY <3>1, <3>6, <4>2
    <3>9. QED
      BY <3>7, <3>8 DEF ParametersOK
  <2>13. QED
    BY <2>9, <2>10, <2>11, <2>12 DEF IInv
<1>3. QED
  BY <1>1, <1>2

\* The operands an operation writes get one of its nodes, the others keep theirs.
LEMMA ConnectFacts ==
  ASSUME model \in Models, NEW k \in Ops, NEW made, Connect(k, made),
         Written(k) \subseteq DOMAIN Op(k).outs
  PROVE  \A i \in Operands :
            \/ /\ \E j \in Written(k) : Op(k).outs[j] = i /\ nodes'[i] = made[j]
               /\ Operand(i).life \in {"temp", "output"}
               /\ \A l \in 1 .. k : \A p \in DOMAIN Op(l).ins : Op(l).ins[p] # i
            \/ nodes'[i] = nodes[i] /\ \A j \in Written(k) : Op(k).outs[j] # i
<1> SUFFICES ASSUME NEW i \in Operands, \E j \in Written(k) : Op(k).outs[j] = i
             PROVE  /\ \E j \in Written(k) : Op(k).outs[j] = i /\ nodes'[i] = made[j]
                    /\ Operand(i).life \in {"temp", "output"}
                    /\ \A l \in 1 .. k : \A p \in DOMAIN Op(l).ins : Op(l).ins[p] # i
  BY DEF Connect
<1>1. PICK j \in Written(k) :
        Op(k).outs[j] = i /\ j = CHOOSE l \in Written(k) : Op(k).outs[l] = i
  OBVIOUS
<1>2. nodes'[i] = made[j]
  BY <1>1 DEF Connect
<1>3. j \in DOMAIN Op(k).outs
  OBVIOUS
<1>4. QED
  BY <1>1, <1>2, <1>3, OutsFacts

LEMMA ConnectKept ==
  ASSUME IInv, at.pc \in {"connect", "outputs"}, NEW made, Connect(at.k, made),
         Written(at.k) \subseteq DOMAIN Op(at.k).outs,
         \A j \in Written(at.k) : made[j] \in NodeType \cup {Null}
  PROVE  IInv'
<1>1. model \in Models /\ at.k \in Ops
  BY DEF IInv, TypeOK
<1>2. UNCHANGED <<model, params, names, thread, service>>
  BY DEF Connect
<1>3. at' \in [pc : BuilderPc, k : Ops, j : 1 .. 3] /\ at'.pc \in {"connect", "generate"}
  BY <1>1, NextOpType DEF Connect
<1>4. Ops' = Ops /\ Operands' = Operands
  BY <1>2, SameModel
<1>5. \A i \in Operands : nodes'[i] \in NodeType \cup {Null}
  BY <1>1, ConnectFacts DEF IInv, TypeOK
<1>6. nodes' \in [Operands -> NodeType \cup {Null}]
  BY <1>5 DEF Connect
<1>7. results' \subseteq NodeType \cup {Null}
  BY DEF Connect, IInv, TypeOK
<1>8. TypeOK'
  BY <1>2, <1>3, <1>4, <1>6, <1>7 DEF IInv, TypeOK
<1>9. RemovalOK'
  BY <1>3 DEF RemovalOK
<1>10. ThreadsOK'
  BY <1>2, ThreadsWait DEF IInv
<1>11. ParametersOK'
  <2>1. \A x \in Operands : Operand(x)' = Operand(x) /\ Parameter(x)' = Parameter(x)
    BY <1>2, SameModel
  <2>2. \A x \in params : x \in Operands /\ nodes'[x] = nodes[x]
    BY <1>1, ConnectFacts DEF IInv, TypeOK, ParametersOK
  <2>3. QED
    BY <1>2, <1>3, <2>1, <2>2 DEF IInv, ParametersOK
<1>12. QED
  BY <1>8, <1>9, <1>10, <1>11 DEF IInv

LEMMA SetOutputsKept ==
  ASSUME IInv, SetOutputs
  PROVE  IInv'
<1>1. CASE Down
  BY <1>1, DownKept
<1>2. CASE ~Down
  <2> DEFINE made == [j \in Written(at.k) |-> OutputNode(at.k, j)]
  <2>1. /\ at.pc = "outputs" /\ Written(at.k) \subseteq DOMAIN Op(at.k).outs
        /\ Connect(at.k, made)
    BY <1>2 DEF SetOutputs
  <2>2. TypeOK /\ at.k \in Ops /\ \A p \in Reads(at.k) : InputNode(at.k, p) # Null
    BY <2>1 DEF IInv, TypeOK, RemovalOK
  <2>3. \A j \in Written(at.k) : made[j] \in NodeType \cup {Null}
    BY <2>2, OutputNodeType
  <2> HIDE DEF made
  <2>4. QED
    BY <2>1, <2>3, ConnectKept
<1>3. QED
  BY <1>1, <1>2

\* A Cast sets the first of its outputs, which it has.
LEMMA CastWrites ==
  ASSUME model \in Models, NEW k \in Ops, Op(k).kind = "cast"
  PROVE  Written(k) = {1} /\ 1 \in DOMAIN Op(k).outs
<1>1. Admitted(model) /\ Op(k) \in OpType
  BY ModelsAssumption, ModelFacts
<1>2. Op(k).outs # <<>> /\ Op(k).outs \in Seq(Nat \ {0})
  BY <1>1 DEF Admitted, Op, Ops, OpType
<1>3. QED
  BY <1>2 DEF Written

LEMMA ConnectCastKept ==
  ASSUME IInv, ConnectCast
  PROVE  IInv'
<1>1. /\ TypeOK /\ model \in Models /\ at.k \in Ops
      /\ at.pc = "connect" /\ Op(at.k).kind = "cast"
  BY DEF IInv, TypeOK, ConnectCast
<1>2. Written(at.k) = {1} /\ 1 \in DOMAIN Op(at.k).outs
  BY <1>1, CastWrites
<1>3. In(at.k, 0) \in Operands /\ Reads(at.k) = {0}
  <2>1. Len(Op(at.k).ins) = 1
    BY <1>1, InputsFacts
  <2>2. 0 .. (Len(Op(at.k).ins) - 1) = {0}
    BY <2>1
  <2>3. Reads(at.k) = 0 .. (Len(Op(at.k).ins) - 1)
    BY <1>1 DEF Reads
  <2>4. In(at.k, 0) \in Operands
    BY <1>1, <2>2, InputsFacts
  <2>5. QED
    BY <2>2, <2>3, <2>4
<1>4. InputNode(at.k, 0) \in NodeType \cup {Null}
  BY <1>1, <1>3, InputNodeType
<1>5. CASE Connect(at.k, [j \in {1} |-> InputNode(at.k, 0)])
  <2> DEFINE made == [j \in {1} |-> InputNode(at.k, 0)]
  <2>1. \A j \in Written(at.k) : made[j] \in NodeType \cup {Null}
    BY <1>2, <1>4
  <2>2. Connect(at.k, made)
    BY <1>5
  <2> HIDE DEF made
  <2>3. QED
    BY <1>1, <1>2, <2>1, <2>2, ConnectKept
<1>6. CASE InputNode(at.k, 0) # Null /\ Connect(at.k, [j \in {1} |-> OutputNode(at.k, j)])
  <2> DEFINE made == [j \in {1} |-> OutputNode(at.k, j)]
  <2>1. \A j \in Written(at.k) : OutputNode(at.k, j) \in NodeType \cup {Null}
    BY <1>1, <1>3, <1>6, OutputNodeType
  <2>2. \A j \in Written(at.k) : made[j] \in NodeType \cup {Null}
    BY <1>2, <2>1
  <2>3. Connect(at.k, made)
    BY <1>6
  <2> HIDE DEF made
  <2>4. QED
    BY <1>1, <1>2, <2>2, <2>3, ConnectKept
<1>7. CASE Down
  BY <1>7, DownKept
<1>8. CASE Refuse
  BY <1>1, <1>8, RefuseKept
<1>9. QED
  BY <1>5, <1>6, <1>7, <1>8 DEF ConnectCast

LEMMA GenerateGraphKept ==
  ASSUME IInv, GenerateGraph
  PROVE  IInv'
<1>1. CASE Down
  BY <1>1, DownKept
<1>2. CASE Refuse
  BY <1>2, RefuseKept DEF GenerateGraph
<1>3. CASE ~Down /\ ~Refuse
  <2>1. /\ at.pc = "generate" /\ Goto("ready", at.k, 1)
        /\ UNCHANGED <<model, nodes, params, results, names, thread, service>>
    BY <1>3 DEF GenerateGraph
  <2>2. model \in Models /\ at.k \in Ops
    BY DEF IInv, TypeOK
  <2>3. at' \in [pc : BuilderPc, k : Ops, j : 1 .. 3] /\ at'.pc = "ready"
    BY <2>1, <2>2, GotoType DEF BuilderPc
  <2>4. RemovalOK'
    BY <2>3 DEF RemovalOK
  <2>5. QED
    BY <2>1, <2>3, <2>4, BuilderMoves
<1>4. QED
  BY <1>1, <1>2, <1>3

-----------------------------------------------------------------------------
(* The steps of the executions.                                            *)

\* An execution that goes on to a place it may be in, in a graph that stays.
LEMMA MoveKept ==
  ASSUME IInv, at.pc = "ready", NEW e \in Executions, NEW pc \in ThreadPc, NEW i,
         Move(e, pc, i), i \in Operands \/ (pc = "done" /\ i = 0),
         pc = "insert" => nodes[i] # Null /\ names[i] # Empty,
         UNCHANGED <<model, at, nodes, params, results, names, service>>
  PROVE  IInv'
<1>1. Ops' = Ops /\ Operands' = Operands
  BY SameModel
<1>2. thread' \in [Executions -> [pc : ThreadPc, i : Operands \cup {0}]]
  BY DEF Move, IInv, TypeOK
<1>3. TypeOK'
  BY <1>1, <1>2 DEF IInv, TypeOK
<1>4. RemovalOK'
  BY RemovalKept DEF IInv
<1>5. ThreadsOK'
  <2>1. thread'[e] = [pc |-> pc, i |-> i] /\ \A f \in Executions \ {e} : thread'[f] = thread[f]
    BY DEF Move, IInv, TypeOK
  <2>2. QED
    BY <1>1, <2>1 DEF IInv, ThreadsOK, ThreadPc
<1>6. ParametersOK'
  BY ParametersKept DEF IInv, TypeOK
<1>7. QED
  BY <1>3, <1>4, <1>5, <1>6 DEF IInv

LEMMA AskNextKept ==
  ASSUME IInv, at.pc = "ready", NEW e \in Executions, NEW i \in Operands \cup {0},
         AskNext(e, i),
         UNCHANGED <<model, at, nodes, params, results, names, service>>
  PROVE  IInv'
<1>1. CASE Move(e, "done", i)
  BY <1>1, MoveKept DEF ThreadPc
<1>2. CASE \E j \in Asked : Move(e, "find", j)
  <2>1. PICK j \in Asked : Move(e, "find", j)
    BY <1>2
  <2>2. j \in Operands
    BY DEF Asked
  <2>3. QED
    BY <2>1, <2>2, MoveKept DEF ThreadPc
<1>3. QED
  BY <1>1, <1>2 DEF AskNext

LEMMA ExecuteKept ==
  ASSUME IInv, NEW e \in Executions, Execute(e)
  PROVE  IInv'
BY AskNextKept DEF Execute, At

LEMMA FindNameKept ==
  ASSUME IInv, NEW e \in Executions, FindName(e)
  PROVE  IInv'
<1> DEFINE i == thread[e].i
           pc == IF names[i] = Unnamed THEN "insert" ELSE "blob"
<1>1. CASE Down
  BY <1>1, DownKept
<1>2. CASE ~Down
  <2>1. /\ at.pc = "ready" /\ thread[e].pc = "find"
        /\ names[i] = Unnamed => nodes[i] # Null
        /\ Move(e, pc, i)
        /\ UNCHANGED <<model, at, nodes, params, results, names, service>>
    BY <1>2 DEF FindName, At
  <2>2. i \in Operands
    BY <2>1 DEF IInv, ThreadsOK
  <2>3. Unnamed # Empty
    BY SentinelsDiffer
  <2>4. pc \in ThreadPc /\ (pc = "insert" => nodes[i] # Null /\ names[i] # Empty)
    BY <2>1, <2>3 DEF ThreadPc
  <2> HIDE DEF i, pc
  <2>5. QED
    BY <2>1, <2>2, <2>4, MoveKept
<1>3. QED
  BY <1>1, <1>2

LEMMA InsertNameKept ==
  ASSUME IInv, NEW e \in Executions, InsertName(e)
  PROVE  IInv'
<1> DEFINE i == thread[e].i
<1>1. CASE Down
  BY <1>1, DownKept
<1>2. CASE ~Down
  <2>1. /\ at.pc = "ready" /\ thread[e].pc = "insert"
        /\ names' = [names EXCEPT ![i] = nodes[i]]
        /\ Move(e, "blob", i)
        /\ UNCHANGED <<model, at, nodes, params, results, service>>
    BY <1>2 DEF InsertName, At
  <2>2. i \in Operands /\ nodes[i] \in NodeType
    BY <2>1 DEF IInv, ThreadsOK, TypeOK
  <2>3. Ops' = Ops /\ Operands' = Operands
    BY <2>1, SameModel
  <2>4. /\ thread' \in [Executions -> [pc : ThreadPc, i : Operands \cup {0}]]
        /\ thread'[e] = [pc |-> "blob", i |-> i]
        /\ \A f \in Executions \ {e} : thread'[f] = thread[f]
    BY <2>1, <2>2 DEF Move, IInv, TypeOK, ThreadPc
  <2>5. /\ names' \in [Operands -> NodeType \cup {Empty, Unnamed}]
        /\ names'[i] = nodes[i] /\ \A h \in Operands \ {i} : names'[h] = names[h]
    BY <2>1, <2>2 DEF IInv, TypeOK
  <2>6. TypeOK'
    BY <2>1, <2>3, <2>4, <2>5 DEF IInv, TypeOK
  <2>7. RemovalOK'
    BY <2>1, RemovalKept DEF IInv
  <2>8. ThreadsOK'
    <3>1. nodes[i] # Empty
      BY <2>2, SentinelsDiffer
    <3>2. \A h \in Operands : names[h] # Empty => names'[h] # Empty
      BY <2>5, <3>1
    <3> HIDE DEF i
    <3>3. QED
      BY <2>1, <2>2, <2>3, <2>4, <3>2 DEF IInv, ThreadsOK
  <2>9. ParametersOK'
    <3>1. params \subseteq Operands
      BY DEF IInv, TypeOK
    <3>2. \A x \in params : names'[x] \in {names[x], nodes[x]}
      BY <2>5, <3>1
    <3>3. QED
      BY <2>1, <3>1, <3>2, ParametersKept DEF IInv
  <2>10. QED
    BY <2>6, <2>7, <2>8, <2>9 DEF IInv
<1>3. QED
  BY <1>1, <1>2

LEMMA GetBlobKept ==
  ASSUME IInv, NEW e \in Executions, GetBlob(e)
  PROVE  IInv'
<1>1. CASE Down
  BY <1>1, DownKept
<1>2. CASE ~Down
  <2>1. /\ at.pc = "ready" /\ AskNext(e, thread[e].i)
        /\ UNCHANGED <<model, at, nodes, params, results, names, service>>
    BY <1>2 DEF GetBlob, At
  <2>2. thread[e].i \in Operands \cup {0}
    BY DEF IInv, TypeOK
  <2>3. QED
    BY <2>1, <2>2, AskNextKept
<1>3. QED
  BY <1>1, <1>2

-----------------------------------------------------------------------------
(* The names.                                                              *)

\* A step that keeps the graph, and goes on within what it has reached.
LEMMA NamesSame ==
  ASSUME BInv, UNCHANGED <<model, nodes, params, results, names>>, at'.k = at.k,
         at.pc = "ready" => at'.pc = "ready",
         at.pc \in {"inputs", "refused"} => at'.pc \in {"inputs", "refused"}
  PROVE  NamesOK'
<1>1. /\ Operands' = Operands
      /\ \A i \in Operands : Operand(i)' = Operand(i) /\ Parameter(i)' = Parameter(i)
  BY SameModel
<1>2. \A i \in Operands : HasParameter(i)' = HasParameter(i) /\ Removed(i)' = Removed(i)
  BY <1>1 DEF HasParameter, Removed
<1>3. NamesFollow' /\ ResultsOK'
  BY <1>1 DEF BInv, NamesOK, NamesFollow, ResultsOK
<1>4. InputsOK'
  BY <1>1, <1>2 DEF BInv, NamesOK, InputsOK
<1>5. ReachedOK'
  BY <1>1 DEF BInv, NamesOK, ReachedOK, Op
<1>6. QED
  BY <1>3, <1>4, <1>5 DEF NamesOK

LEMMA NamesOnRefuse ==
  ASSUME BInv, Refuse, at.pc # "ready"
  PROVE  NamesOK'
<1>1. at'.pc = "refused" /\ at'.k = at.k
  BY GotoType DEF Refuse, Goto
<1>2. QED
  BY <1>1, NamesSame DEF Refuse

LEMMA NamesOnDown ==
  ASSUME BInv, Down
  PROVE  NamesOK'
BY NamesSame DEF Down

LEMMA CreateInputParamsNames ==
  ASSUME BInv, CreateInputParams
  PROVE  NamesOK'
<1>1. CASE Refuse
  BY <1>1, NamesOnRefuse DEF CreateInputParams
<1>2. CASE ~Refuse
  <2>1. /\ params' = {i \in Operands : HasParameter(i)}
        /\ nodes' = [i \in Operands |-> IF HasParameter(i) THEN Parameter(i) ELSE Null]
        /\ names' = [i \in Operands |->
                IF Operand(i).life = "input" /\ ~HasParameter(i) THEN Empty ELSE Unnamed]
        /\ model' = model
    BY <1>2 DEF CreateInputParams
  <2>2. /\ Operands' = Operands
        /\ \A i \in Operands : Operand(i)' = Operand(i) /\ Parameter(i)' = Parameter(i)
    BY <2>1, SameModel
  <2>3. \A i \in Operands : HasParameter(i)' = HasParameter(i)
    BY <2>2 DEF HasParameter
  <2>4. NamesFollow'
    BY <2>1, <2>2 DEF NamesFollow
  <2>5. InputsOK'
    BY <2>1, <2>2, <2>3 DEF InputsOK
  <2>6. ReachedOK'
    BY <2>1, <2>2 DEF ReachedOK
  <2>7. ResultsOK'
    BY <2>1, <2>2 DEF ResultsOK, HasParameter
  <2>8. QED
    BY <2>4, <2>5, <2>6, <2>7 DEF NamesOK
<1>3. QED
  BY <1>1, <1>2

LEMMA RemoveInputNodeNames ==
  ASSUME BInv, RemoveInputNode
  PROVE  NamesOK'
<1> DEFINE k == at.k
           i == In(k, Removes(k)[at.j])
           name == IF names[i] = Unnamed THEN nodes[i] ELSE names[i]
<1>1. CASE Down
  BY <1>1, NamesOnDown
<1>2. CASE ~Down
  <2>1. /\ at.pc = "remove" /\ name # Null
        /\ params' = Erase(name) /\ names' = Rename(i, name)
        /\ at'.k = at.k /\ at'.pc \in {"remove", "outputs"}
        /\ UNCHANGED <<model, nodes, results>>
    BY <1>2 DEF RemoveInputNode, Goto
  <2>2. model \in Models /\ k \in Ops /\ at.j \in DOMAIN Removes(k)
    BY <2>1 DEF BInv, IInv, TypeOK, RemovalOK
  <2>3. PICK p \in DOMAIN Op(k).ins : i = Op(k).ins[p] /\ i \in Operands
    BY <2>2, RemovesFacts
  <2>4. name \in {Empty, nodes[i]} /\ (names[i] = Empty => name = Empty)
    BY <2>3, SentinelsDiffer DEF BInv, NamesOK, NamesFollow
  <2>5. /\ Operands' = Operands
        /\ \A x \in Operands : Operand(x)' = Operand(x) /\ Parameter(x)' = Parameter(x)
    BY <2>1, SameModel
  <2>6. \A x \in Operands : HasParameter(x)' = HasParameter(x)
    BY <2>5 DEF HasParameter
  <2>7. names \in [Operands -> NodeType \cup {Empty, Unnamed}] /\ params \subseteq Operands
    BY DEF BInv, IInv, TypeOK
  <2>8. \A x \in Operands : Parameter(x) # Empty
    BY <2>2, ParameterType, SentinelsDiffer
  <2> HIDE DEF k, i, name
  <2>9. /\ names'[i] \in {Empty, name}
        /\ (\E x \in params : Parameter(x) = name) => names'[i] = Empty
        /\ \A h \in Operands : h # i => names'[h] = names[h]
    BY <2>1, <2>3, <2>7 DEF Rename
  <2>10. \A h \in Operands : names[h] = Empty => names'[h] = Empty
    BY <2>4, <2>9
  <2>11. NamesFollow'
    BY <2>1, <2>4, <2>5, <2>9 DEF BInv, NamesOK, NamesFollow
  <2>12. InputsOK'
    <3>1. \A x \in Operands : Removed(x) => Removed(x)'
      BY <2>1, <2>5, <2>10 DEF Removed
    <3>2. \A x \in params : x \in params' \/ Removed(x)'
      <4>1. SUFFICES ASSUME NEW x \in params, Parameter(x) = name
                     PROVE  Removed(x)'
        BY <2>1 DEF Erase
      <4>2. names'[i] = Empty /\ nodes[i] = Parameter(x)
        BY <2>4, <2>7, <2>8, <2>9, <4>1
      <4>3. Parameter(x)' = Parameter(x)
        BY <2>5, <2>7
      <4>4. QED
        BY <2>1, <2>3, <2>5, <4>2, <4>3 DEF Removed
    <3>3. QED
      BY <2>1, <2>5, <2>6, <2>10, <3>1, <3>2 DEF BInv, NamesOK, InputsOK
  <2>13. ReachedOK'
    <3>1. k \in 1 .. at'.k
      BY <2>1, <2>2, ModelFacts DEF k
    <3>2. \A l : Op(l)' = Op(l)
      BY <2>1 DEF Op
    <3>3. \A h \in Operands : h # i => (names'[h] # Unnamed => names[h] # Unnamed)
      BY <2>9
    <3>4. \E l \in 1 .. at'.k : \E q \in DOMAIN Op(l)'.ins : Op(l)'.ins[q] = i
      BY <2>3, <3>1, <3>2
    <3>5. QED
      BY <2>1, <2>5, <3>2, <3>3, <3>4 DEF BInv, NamesOK, ReachedOK
  <2>14. ResultsOK'
    BY <2>1, <2>5 DEF BInv, NamesOK, ResultsOK
  <2>15. QED
    BY <2>11, <2>12, <2>13, <2>14 DEF NamesOK
<1>3. QED
  BY <1>1, <1>2

LEMMA ConnectNames ==
  ASSUME BInv, at.pc \in {"connect", "outputs"}, NEW made, Connect(at.k, made),
         Written(at.k) \subseteq DOMAIN Op(at.k).outs
  PROVE  NamesOK'
<1>1. model \in Models /\ at.k \in Ops /\ at.k \in Nat
  BY ModelFacts DEF BInv, IInv, TypeOK
<1>2. UNCHANGED <<model, params, names>>
  BY DEF Connect
<1>3. at'.k \in Nat /\ at'.k >= at.k /\ at'.pc \in {"connect", "generate"}
  BY <1>1 DEF Connect, NextOp, Goto
<1>4. /\ Operands' = Operands
      /\ \A i \in Operands : Operand(i)' = Operand(i) /\ Parameter(i)' = Parameter(i)
  BY <1>2, SameModel
<1>5. \A i \in Operands : HasParameter(i)' = HasParameter(i)
  BY <1>4 DEF HasParameter
<1>6. \A i \in Operands : names[i] # Unnamed \/ Operand(i).life = "input" => nodes'[i] = nodes[i]
  BY <1>1, ConnectFacts DEF BInv, NamesOK, ReachedOK
<1>7. NamesFollow'
  BY <1>2, <1>4, <1>6 DEF BInv, NamesOK, NamesFollow
<1>8. InputsOK'
  <2>1. Empty # Unnamed
    BY SentinelsDiffer
  <2>2. \A i \in Operands : Removed(i) => Removed(i)'
    BY <1>2, <1>4, <1>6, <2>1 DEF Removed
  <2>3. QED
    BY <1>2, <1>4, <1>5, <1>6, <2>2 DEF BInv, NamesOK, InputsOK
<1>9. ReachedOK'
  <2>1. 1 .. at.k \subseteq 1 .. at'.k
    BY <1>1, <1>3
  <2>2. \A l : Op(l)' = Op(l)
    BY <1>2 DEF Op
  <2>3. QED
    BY <1>2, <1>4, <2>1, <2>2 DEF BInv, NamesOK, ReachedOK
<1>10. ResultsOK'
  <2>1. SUFFICES ASSUME NEW i \in Operands, Operand(i).life = "output"
                 PROVE  nodes'[i] = Null \/ nodes'[i] \in results'
    BY <1>4 DEF ResultsOK
  <2>2. CASE nodes'[i] = nodes[i]
    BY <2>1, <2>2 DEF BInv, NamesOK, ResultsOK, Connect
  <2>3. CASE \E j \in Written(at.k) : Op(at.k).outs[j] = i /\ nodes'[i] = made[j]
    BY <2>1, <2>3 DEF Connect
  <2>4. QED
    BY <1>1, <2>2, <2>3, ConnectFacts
<1>11. QED
  BY <1>7, <1>8, <1>9, <1>10 DEF NamesOK

LEMMA InsertNameNames ==
  ASSUME BInv, NEW e \in Executions, InsertName(e)
  PROVE  NamesOK'
<1> DEFINE i == thread[e].i
<1>1. CASE Down
  BY <1>1, NamesOnDown
<1>2. CASE ~Down
  <2>1. /\ at.pc = "ready" /\ thread[e].pc = "insert"
        /\ names' = [names EXCEPT ![i] = nodes[i]]
        /\ UNCHANGED <<model, at, nodes, params, results>>
    BY <1>2 DEF InsertName, At
  <2>2. i \in Operands /\ names[i] # Empty
    BY <2>1 DEF BInv, IInv, ThreadsOK
  <2>3. names \in [Operands -> NodeType \cup {Empty, Unnamed}]
    BY DEF BInv, IInv, TypeOK
  <2> HIDE DEF i
  <2>4. /\ names'[i] = nodes[i] /\ \A h \in Operands \ {i} : names'[h] = names[h]
        /\ \A h \in Operands : names[h] = Empty => names'[h] = Empty
    BY <2>1, <2>2, <2>3
  <2>5. /\ Operands' = Operands
        /\ \A x \in Operands : Operand(x)' = Operand(x) /\ Parameter(x)' = Parameter(x)
    BY <2>1, SameModel
  <2>6. \A x \in Operands : HasParameter(x)' = HasParameter(x)
    BY <2>5 DEF HasParameter
  <2>7. NamesFollow'
    BY <2>1, <2>4, <2>5 DEF BInv, NamesOK, NamesFollow
  <2>8. \A x \in Operands : Removed(x) => Removed(x)'
    BY <2>1, <2>4, <2>5 DEF Removed
  <2>9. InputsOK'
    BY <2>1, <2>4, <2>5, <2>6, <2>8 DEF BInv, NamesOK, InputsOK
  <2>10. ReachedOK' /\ ResultsOK'
    BY <2>1, <2>5 DEF BInv, NamesOK, ReachedOK, ResultsOK
  <2>11. QED
    BY <2>7, <2>9, <2>10 DEF NamesOK
<1>3. QED
  BY <1>1, <1>2

LEMMA BuilderNames ==
  ASSUME BInv, CreateNode \/ SetOutputs \/ ConnectCast \/ GenerateGraph
  PROVE  NamesOK'
<1>1. CASE Down
  BY <1>1, NamesOnDown
<1>2. at.pc \in {"connect", "outputs", "generate"}
  BY DEF CreateNode, SetOutputs, ConnectCast, GenerateGraph
<1>3. CASE Refuse
  BY <1>2, <1>3, NamesOnRefuse
<1>4. CASE CreateNode /\ ~Down /\ ~Refuse
  <2>1. at'.k = at.k /\ at'.pc \in {"outputs", "remove"}
    BY <1>4 DEF CreateNode, Goto
  <2>2. QED
    BY <1>2, <1>4, <2>1, NamesSame DEF CreateNode
<1>5. CASE SetOutputs /\ ~Down
  <2>1. /\ Connect(at.k, [j \in Written(at.k) |-> OutputNode(at.k, j)])
        /\ Written(at.k) \subseteq DOMAIN Op(at.k).outs /\ at.pc = "outputs"
    BY <1>5 DEF SetOutputs
  <2>2. QED
    BY <2>1, ConnectNames
<1>6. CASE ConnectCast /\ ~Down /\ ~Refuse
  <2>1. at.k \in Ops /\ Op(at.k).kind = "cast" /\ at.pc = "connect"
    BY <1>6 DEF ConnectCast, BInv, IInv, TypeOK
  <2>2. Written(at.k) \subseteq DOMAIN Op(at.k).outs
    BY <2>1, CastWrites DEF BInv, IInv, TypeOK
  <2>3. \/ Connect(at.k, [j \in {1} |-> InputNode(at.k, 0)])
        \/ Connect(at.k, [j \in {1} |-> OutputNode(at.k, j)])
    BY <1>6 DEF ConnectCast
  <2>4. QED
    BY <2>1, <2>2, <2>3, ConnectNames
<1>7. CASE GenerateGraph /\ ~Down /\ ~Refuse
  <2>1. at'.k = at.k /\ at'.pc = "ready"
    BY <1>7 DEF GenerateGraph, Goto
  <2>2. QED
    BY <1>2, <1>7, <2>1, NamesSame DEF GenerateGraph
<1>8. QED
  BY <1>1, <1>3, <1>4, <1>5, <1>6, <1>7

LEMMA NamesKept ==
  ASSUME BInv, [Next]_vars
  PROVE  NamesOK'
<1>1. CASE CreateInputParams \/ RemoveInputNode
  BY <1>1, CreateInputParamsNames, RemoveInputNodeNames
<1>2. CASE CreateNode \/ SetOutputs \/ ConnectCast \/ GenerateGraph
  BY <1>2, BuilderNames
<1>3. ASSUME NEW e \in Executions, Execute(e) \/ FindName(e) \/ GetBlob(e)
      PROVE  NamesOK'
  <2>1. UNCHANGED <<model, at, nodes, params, results, names>>
    BY <1>3 DEF Execute, FindName, GetBlob, Down
  <2>2. QED
    BY <2>1, NamesSame
<1>4. ASSUME NEW e \in Executions, InsertName(e)
      PROVE  NamesOK'
  BY <1>4, InsertNameNames
<1>5. CASE UNCHANGED vars
  BY <1>5, NamesSame DEF vars
<1>6. QED
  BY <1>1, <1>2, <1>3, <1>4, <1>5 DEF Next, Quiescent

-----------------------------------------------------------------------------
(* The theorems.                                                           *)

LEMMA InitOK ==
  ASSUME Init
  PROVE  IInv
<1>1. model \in Models /\ 1 \in Ops
  BY ModelFacts DEF Init
<1>2. TypeOK
  BY <1>1 DEF Init, TypeOK, BuilderPc, ThreadPc
<1>3. RemovalOK /\ ThreadsOK /\ ParametersOK
  BY DEF Init, RemovalOK, ThreadsOK, ParametersOK
<1>4. QED
  BY <1>2, <1>3 DEF IInv

LEMMA NextKept ==
  ASSUME IInv, [Next]_vars
  PROVE  IInv'
<1>1. CASE Next
  <2>1. CASE CreateInputParams \/ CreateNode \/ RemoveInputNode
    BY <2>1, CreateInputParamsKept, CreateNodeKept, RemoveInputNodeKept
  <2>2. CASE SetOutputs \/ ConnectCast \/ GenerateGraph
    BY <2>2, SetOutputsKept, ConnectCastKept, GenerateGraphKept
  <2>3. CASE \E e \in Executions : Execute(e) \/ FindName(e) \/ InsertName(e) \/ GetBlob(e)
    BY <2>3, ExecuteKept, FindNameKept, InsertNameKept, GetBlobKept
  <2>4. CASE Quiescent
    <3>1. UNCHANGED vars /\ service \in {"up", "down"}
      BY <2>4 DEF Quiescent, IInv, TypeOK
    <3>2. QED
      BY <3>1, Kept DEF vars
  <2>5. QED
    BY <1>1, <2>1, <2>2, <2>3, <2>4 DEF Next
<1>2. CASE UNCHANGED vars
  BY <1>2, Kept DEF vars, IInv, TypeOK
<1>3. QED
  BY <1>1, <1>2

LEMMA Invariance == Spec => []IInv
<1>1. Init => IInv
  BY InitOK
<1>2. IInv /\ [Next]_vars => IInv'
  BY NextKept
<1>3. QED
  BY <1>1, <1>2, PTL DEF Spec

\* Whatever the model and however many executions run, the building thread
\* stays within the operations and their removals, the maps hold nodes and
\* names, and executions ask for operands of the model only.
THEOREM TypeCorrect == Spec => []TypeOK
<1>1. IInv => TypeOK
  BY DEF IInv
<1>2. QED
  BY <1>1, Invariance, PTL

\* No finished graph, of any model, has a parameter that executions do not fill:
\* removeInputParameter() takes out a parameter together with the name of its
\* operand (NgraphNodes.cpp:42-49), and nothing renames or overwrites the operand
\* of a parameter that stays.
THEOREM ParametersFed == Spec => []EveryParameterIsFed
<1>1. IInv => EveryParameterIsFed
  BY DEF IInv, ParametersOK, EveryParameterIsFed, NameOf
<1>2. QED
  BY <1>1, Invariance, PTL

LEMMA BInvInit ==
  ASSUME Init
  PROVE  BInv
<1>1. NamesFollow /\ InputsOK /\ ReachedOK /\ ResultsOK
  BY DEF Init, NamesFollow, InputsOK, ReachedOK, ResultsOK
<1>2. QED
  BY <1>1, InitOK DEF BInv, NamesOK

LEMMA BInvNext ==
  ASSUME BInv, [Next]_vars
  PROVE  BInv'
<1>1. IInv' /\ NamesOK'
  BY NextKept, NamesKept DEF BInv
<1>2. QED
  BY <1>1 DEF BInv

\* The invariant implies the property.
LEMMA BlobsFoundHolds ==
  ASSUME BInv
  PROVE  BlobsFound
<1>1. SUFFICES ASSUME at.pc = "ready", NEW i \in Asked
               PROVE  \/ NameOf(i) = Empty \/ HasBlob(NameOf(i))
                      \/ NameOf(i) = Null /\ Operand(i).life = "output"
                      \/ RemovedByAnotherName(i)
  BY DEF BlobsFound
<1>2. i \in Operands /\ NameOf(i) \in {Empty, nodes[i]}
  BY <1>1 DEF Asked, NameOf, BInv, NamesOK, NamesFollow
<1>3. CASE Operand(i).life = "output"
  BY <1>1, <1>2, <1>3 DEF BInv, NamesOK, ResultsOK, HasBlob
<1>4. CASE Operand(i).life = "input" /\ HasParameter(i)
  <2>1. nodes[i] = Parameter(i) /\ (i \in params \/ Removed(i))
    BY <1>1, <1>2, <1>4 DEF BInv, NamesOK, InputsOK
  <2>2. CASE i \in params
    BY <1>2, <2>1, <2>2 DEF HasBlob
  <2>3. CASE Removed(i)
    <3>1. PICK h \in Operands : nodes[h] = nodes[i] /\ names[h] = Empty
      BY <2>1, <2>3 DEF Removed
    <3>2. CASE h = i
      BY <3>1, <3>2, SentinelsDiffer DEF NameOf
    <3>3. CASE h # i
      BY <3>1, <3>3 DEF RemovedByAnotherName
    <3>4. QED
      BY <3>2, <3>3
  <2>4. QED
    BY <2>1, <2>2, <2>3
<1>5. CASE Operand(i).life = "input" /\ ~HasParameter(i)
  <2>1. names[i] = Empty
    BY <1>1, <1>2, <1>5 DEF BInv, NamesOK, InputsOK
  <2>2. QED
    BY <2>1, SentinelsDiffer DEF NameOf
<1>6. QED
  BY <1>1, <1>3, <1>4, <1>5 DEF Asked

\* Whichever parameters are removed, in any model, executions find a blob for
\* each input and output, or pass over it, but for an output that no operation
\* set, and an input whose parameter a Cast passed on and an operation removed
\* under the other operand's name (NgraphNodes.cpp:33-49).
THEOREM BlobsAreFound == Spec => []BlobsFound
<1>1. Init => BInv
  BY BInvInit
<1>2. BInv /\ [Next]_vars => BInv'
  BY BInvNext
<1>3. BInv => BlobsFound
  BY BlobsFoundHolds
<1>4. QED
  BY <1>1, <1>2, <1>3, PTL DEF Spec
===============================================================================
