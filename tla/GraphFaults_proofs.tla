--------------------------- MODULE GraphFaults_proofs ---------------------------
(***************************************************************************)
(* A model that is consistent does not bring the service down: the proof   *)
(* of OnlyDefectsFault, for any models and any number of executions.       *)
(***************************************************************************)
EXTENDS GraphConstruction_proofs

\* The outputs of the operations that are connected have nodes.
WrittenOK ==
    at.pc \notin {"inputs", "refused"} =>
        \A l \in Ops : (l < at.k \/ at.pc \in {"generate", "ready"}) =>
            \A j \in DOMAIN Op(l).outs : nodes[Op(l).outs[j]] # Null

\* Only inputs of the model are passed over.
PassedOverOK == \A h \in Operands : names[h] = Empty => Operand(h).life = "input"

\* An execution is at an operand it asks for, which has a name when its blob is
\* fetched.
AskedOK ==
    \A e \in Executions :
        /\ thread[e].pc \in {"find", "insert", "blob"} => thread[e].i \in Asked
        /\ thread[e].pc = "blob" => names[thread[e].i] # Unnamed

SafeOK ==
    /\ WrittenOK /\ Null \notin results /\ PassedOverOK
    /\ service = "down" => NamingRace

SInv == BInv /\ AskedOK /\ (Consistent(FALSE) => SafeOK)

-----------------------------------------------------------------------------
(* What is consistent: facts about the models alone.                       *)

LEMMA SameConsistent ==
  ASSUME model' = model
  PROVE  Consistent(FALSE)' <=> Consistent(FALSE)
<1>1. /\ \A k : Op(k)' = Op(k)
      /\ \A k, p : In(k, p)' = In(k, p)
      /\ \A i : Operand(i)' = Operand(i)
  BY DEF Op, In, Operand
<1>2. \A i : HasNode(i)' <=> HasNode(i)
  BY <1>1 DEF HasNode
<1>3. \A k, p : (Given(k, p)' <=> Given(k, p)) /\ (Missing(k, p)' <=> Missing(k, p))
  BY <1>1, <1>2 DEF Given, Missing
<1>4. \A k, ps : Together(k, ps)' <=> Together(k, ps)
  BY <1>3 DEF Together
<1>5. \A k : LstmConsistent(k)' <=> LstmConsistent(k)
  BY <1>1, <1>2, <1>3, <1>4 DEF LstmConsistent
<1>6. \A k : BidirectionalConsistent(k, FALSE)' <=> BidirectionalConsistent(k, FALSE)
  BY <1>1, <1>2, <1>3, <1>4 DEF BidirectionalConsistent
<1>7. \A k : OthersConsistent(k)' <=> OthersConsistent(k)
  BY <1>1, <1>2 DEF OthersConsistent, Compared, Ops
<1>8. QED
  BY <1>1, <1>5, <1>6, <1>7 DEF Consistent, Ops

\* The inputs of an operation that are used together are there together.
LEMMA GivenTogether ==
  ASSUME NEW k, NEW ps, Together(k, ps), NEW q \in ps, Valid(k, q)
  PROVE  \A p \in ps : Given(k, p) /\ HasNode(In(k, p)) /\ Valid(k, p)
BY DEF Together, Given, Missing, Valid

LEMMA LstmReadsNodes ==
  ASSUME NEW k, LstmConsistent(k), Op(k).kind = "lstm", NEW p \in LstmReads(k)
  PROVE  HasNode(In(k, p))
<1>1. CASE p \in {0, 2, 3, 4, 6, 7, 8, 13, 14, 15, 18, 19}
  BY <1>1 DEF LstmConsistent
<1>2. Cifg(k) \/ \A q \in {1, 5, 12} : Given(k, q) /\ HasNode(In(k, q))
  <2>1. SUFFICES ASSUME ~Cifg(k)
                 PROVE  \A q \in {1, 5, 12} : Given(k, q) /\ HasNode(In(k, q))
    OBVIOUS
  <2>2. Together(k, {1, 5, 12}) /\ Valid(k, 1)
    BY <2>1 DEF LstmConsistent, Cifg, AllValid
  <2>3. QED
    BY <2>2, GivenTogether
<1>3. CASE p \in {1, 5, 12} /\ ~Cifg(k)
  BY <1>2, <1>3
<1>4. CASE p \in {9, 10, 11} /\ Peephole(k) /\ (p = 9 => ~Cifg(k))
  <2>1. Valid(k, 10) /\ Valid(k, 11)
    BY <1>4 DEF Peephole, AllValid
  <2>2. CASE Given(k, 1)
    <3>1. Together(k, {9, 10, 11})
      BY <2>2 DEF LstmConsistent
    <3>2. QED
      BY <1>4, <2>1, <3>1, GivenTogether
  <2>3. CASE ~Given(k, 1)
    <3>1. p \in {10, 11} /\ Together(k, {10, 11})
      BY <1>2, <1>4, <2>3 DEF LstmConsistent
    <3>2. QED
      BY <2>1, <3>1, GivenTogether
  <2>4. QED
    BY <2>2, <2>3
<1>5. CASE p \in {16, 17} /\ Projection(k) /\ (p = 17 => Valid(k, 17))
  <2>1. Together(k, {16}) /\ Together(k, {17}) /\ Valid(k, 16)
    BY <1>5 DEF LstmConsistent, Projection
  <2>2. QED
    BY <1>5, <2>1, GivenTogether
<1>6. CASE p \in 23 .. 26 /\ LayerNorm(k) /\ (p = 23 => ~Cifg(k))
  <2>1. Len(Op(k).ins) = 27 /\ AllValid(k, IF Cifg(k) THEN 24 .. 26 ELSE 23 .. 26)
    BY <1>6 DEF LayerNorm
  <2>2. Valid(k, 24)
    <3>1. 24 \in 24 .. 26 /\ 24 \in 23 .. 26
      OBVIOUS
    <3>2. QED
      BY <2>1, <3>1 DEF AllValid
  <2>3. CASE Given(k, 1)
    <3>1. Together(k, 23 .. 26) /\ 24 \in 23 .. 26
      BY <2>1, <2>3 DEF LstmConsistent
    <3>2. QED
      BY <1>6, <2>2, <3>1, GivenTogether
  <2>4. CASE ~Given(k, 1)
    <3>1. p \in 24 .. 26
      BY <1>2, <1>6, <2>4
    <3>2. Together(k, 24 .. 26) /\ 24 \in 24 .. 26
      BY <2>1, <2>4 DEF LstmConsistent
    <3>3. QED
      BY <2>2, <3>1, <3>2, GivenTogether
  <2>5. QED
    BY <2>3, <2>4
<1>7. QED
  BY <1>1, <1>3, <1>4, <1>5, <1>6 DEF LstmReads

LEMMA BidirectionalReadsNodes ==
  ASSUME NEW k, BidirectionalConsistent(k, FALSE), NEW p \in BidirectionalReads(k)
  PROVE  HasNode(In(k, p))
<1>1. CASE p \in 0 .. 8
  BY <1>1 DEF BidirectionalConsistent
<1>2. CASE p \in 9 .. 11 /\ (AuxInputs(k) \/ (p = 9 /\ ParallelLinking(k)))
  <2>1. Together(k, {10, 11}) /\ Together(k, {9}) /\ p \in {9, 10, 11} /\ Valid(k, p)
    BY <1>2 DEF BidirectionalConsistent, AuxInputs, ParallelLinking, AllValid
  <2>2. QED
    BY <2>1, GivenTogether
<1>3. QED
  BY <1>1, <1>2 DEF BidirectionalReads

\* Whatever an operation of a consistent model uses has a node.
LEMMA ReadsNodes ==
  ASSUME model \in Models, Consistent(FALSE), NEW k \in Ops, NEW p \in Reads(k)
  PROVE  HasNode(In(k, p))
<1>1. CASE Op(k).kind = "lstm"
  BY <1>1, LstmReadsNodes DEF Consistent, Reads
<1>2. CASE Op(k).kind = "birnn"
  BY <1>2, BidirectionalReadsNodes DEF Consistent, Reads
<1>3. CASE Op(k).kind \notin {"lstm", "birnn"}
  BY <1>3 DEF Consistent, OthersConsistent, Reads
<1>4. QED
  BY <1>1, <1>2, <1>3

\* It removes no input but one the client was to feed.
LEMMA RemovesInputs ==
  ASSUME model \in Models, Consistent(FALSE), NEW k \in Ops, NEW j \in DOMAIN Removes(k)
  PROVE  Operand(In(k, Removes(k)[j])).life = "input"
<1>1. CASE Op(k).kind = "lstm"
  <2>1. LstmConsistent(k)
    BY <1>1 DEF Consistent
  <2>2. ~Recoupled(k)
    <3>1. SUFFICES ASSUME Recoupled(k) PROVE FALSE
      OBVIOUS
    <3>2. Together(k, {1, 5, 12}) /\ Valid(k, 1) /\ ~Valid(k, 9) /\ Valid(k, 10)
      BY <2>1, <3>1 DEF LstmConsistent, Recoupled, AllValid
    <3>3. Given(k, 1)
      BY <3>2, GivenTogether
    <3>4. Together(k, {9, 10, 11})
      BY <2>1, <3>3 DEF LstmConsistent
    <3>5. QED
      BY <3>2, <3>4, GivenTogether
  <2>3. Removes(k) = <<>>
    BY <1>1, <2>2 DEF Removes
  <2>4. QED
    BY <2>3
<1>2. CASE Op(k).kind = "birnn"
  <2>1. BidirectionalConsistent(k, FALSE)
    BY <1>2 DEF Consistent
  <2>2. CASE Given(k, 9)
    <3>1. Valid(k, 9) /\ Together(k, {10, 11})
      BY <2>1, <2>2 DEF BidirectionalConsistent, Given, Valid
    <3>2. (Valid(k, 10) /\ Valid(k, 11)) \/ (~Valid(k, 10) /\ ~Valid(k, 11))
      BY <3>1, GivenTogether
    <3>3. ParallelLinking(k) \/ AuxInputs(k)
      BY <3>1, <3>2 DEF ParallelLinking, AuxInputs, AllValid
    <3>4. Removes(k) = <<>>
      BY <1>2, <3>3 DEF Removes
    <3>5. QED
      BY <3>4
  <2>3. CASE \A p \in 9 .. 11 : Operand(In(k, p)).life = "input"
    <3>1. Removes(k) = <<>> \/ Removes(k) = <<9, 10, 11>>
      BY <1>2 DEF Removes
    <3>2. Removes(k) # <<>>
      OBVIOUS
    <3>3. Removes(k)[j] \in 9 .. 11
      <4>1. j \in 1 .. 3
        BY <3>1, <3>2, RemovesFacts
      <4>2. CASE j = 1
        BY <3>1, <3>2, <4>2
      <4>3. CASE j = 2
        BY <3>1, <3>2, <4>3
      <4>4. CASE j = 3
        BY <3>1, <3>2, <4>4
      <4>5. QED
        BY <4>1, <4>2, <4>3, <4>4
    <3>4. QED
      BY <2>3, <3>3
  <2>4. QED
    BY <2>1, <2>2, <2>3 DEF BidirectionalConsistent
<1>3. CASE Op(k).kind \notin {"lstm", "birnn"}
  <2>1. Removes(k) = <<>>
    BY <1>3 DEF Removes
  <2>2. QED
    BY <2>1
<1>4. QED
  BY <1>1, <1>2, <1>3

\* An operation of a consistent model sets the outputs it has.
LEMMA WritesItsOutputs ==
  ASSUME model \in Models, Consistent(FALSE), NEW k \in Ops
  PROVE  Written(k) = DOMAIN Op(k).outs
<1>1. Admitted(model) /\ Op(k) \in OpType
  BY ModelsAssumption, ModelFacts
<1>2. /\ Op(k).outs # <<>> /\ Op(k).outs \in Seq(Nat \ {0}) /\ Op(k).splits \in Nat
      /\ Op(k).kind \in Kinds /\ (Op(k).kind = "lstm" => Len(Op(k).outs) = 4)
  BY <1>1 DEF Admitted, Op, Ops, OpType
<1>3. DOMAIN Op(k).outs = 1 .. Len(Op(k).outs) /\ Len(Op(k).outs) \in Nat /\ Len(Op(k).outs) >= 1
  BY <1>2
<1>4. CASE Op(k).kind = "lstm"
  BY <1>2, <1>3, <1>4 DEF Written
<1>5. CASE Op(k).kind = "birnn"
  <2>1. Len(Op(k).outs) \in IF Op(k).merged THEN {1, 3} ELSE {2, 4}
    BY <1>5 DEF Consistent, BidirectionalConsistent
  <2>2. Written(k) = {1} \cup (IF Op(k).merged THEN {} ELSE {2})
                         \cup (IF Len(Op(k).outs) <= 2 THEN {}
                              ELSE IF Op(k).merged THEN {2, 3} ELSE {3, 4})
    BY <1>5 DEF Written
  <2>3. CASE Op(k).merged /\ Len(Op(k).outs) = 1
    BY <1>3, <2>2, <2>3
  <2>4. CASE Op(k).merged /\ Len(Op(k).outs) = 3
    BY <1>3, <2>2, <2>4
  <2>5. CASE ~Op(k).merged /\ Len(Op(k).outs) = 2
    BY <1>3, <2>2, <2>5
  <2>6. CASE ~Op(k).merged /\ Len(Op(k).outs) = 4
    BY <1>3, <2>2, <2>6
  <2>7. QED
    BY <2>1, <2>3, <2>4, <2>5, <2>6
<1>6. CASE Op(k).kind \notin {"lstm", "birnn"}
  <2>1. OthersConsistent(k)
    BY <1>6 DEF Consistent
  <2>2. CASE Op(k).kind = "split"
    BY <1>3, <2>1, <2>2 DEF OthersConsistent, Written
  <2>3. CASE Op(k).kind \in {"topk", "rnn"}
    <3>1. Len(Op(k).outs) = 2 /\ Written(k) = {1, 2}
      BY <2>1, <2>3 DEF OthersConsistent, Written
    <3>2. QED
      BY <1>3, <3>1
  <2>4. CASE Op(k).kind = "unirnn"
    <3>1. /\ Len(Op(k).outs) <= 2
          /\ Written(k) = IF Len(Op(k).outs) = 2 THEN {1, 2} ELSE {1}
      BY <2>1, <2>4 DEF OthersConsistent, Written
    <3>2. Len(Op(k).outs) = 1 \/ Len(Op(k).outs) = 2
      <4>1. \A n \in Nat : n >= 1 /\ n <= 2 => n = 1 \/ n = 2
        OBVIOUS
      <4>2. Len(Op(k).outs) <= 2
        BY <3>1
      <4>3. QED
        BY <1>3, <4>1, <4>2
    <3>3. QED
      BY <1>3, <3>1, <3>2
  <2>5. CASE Op(k).kind \in {"base", "cast"}
    <3>1. Len(Op(k).outs) = 1
      <4>1. CASE Op(k).kind = "base"
        BY <2>1, <4>1 DEF OthersConsistent
      <4>2. CASE Op(k).kind = "cast"
        BY <2>1, <4>2 DEF OthersConsistent
      <4>3. QED
        BY <2>5, <4>1, <4>2
    <3>2. Written(k) = {1}
      BY <2>5 DEF Written
    <3>3. QED
      BY <1>3, <3>1, <3>2
  <2>6. QED
    BY <1>2, <1>6, <2>2, <2>3, <2>4, <2>5 DEF Kinds
<1>7. QED
  BY <1>4, <1>5, <1>6

\* And each gets a node.
LEMMA OutputsGetNodes ==
  ASSUME TypeOK, Consistent(FALSE), NEW k \in Ops, NEW j \in Written(k),
         \A p \in Reads(k) : InputNode(k, p) # Null
  PROVE  OutputNode(k, j) # Null
<1>1. OutputNode(k, j) \in NodeType \cup {Null}
  BY OutputNodeType
<1>2. Op(k).kind \in {"split", "topk"} => Op(k).handled
  BY DEF Consistent, OthersConsistent
<1>3. OutputNode(k, j) = [ by |-> k, out |-> IF Op(k).kind = "lstm" /\ j = 4 THEN 2 ELSE j,
                           on |-> UNION {InputNode(k, p).on : p \in Reads(k)} ]
  BY <1>2 DEF OutputNode
<1>4. k \in Nat /\ j \in Nat
  BY ModelFacts, WrittenFacts DEF TypeOK
<1>5. \A p \in Reads(k) : InputNode(k, p) \in NodeType
  BY InputNodeType, ReadsFacts DEF TypeOK
<1>6. UNION {InputNode(k, p).on : p \in Reads(k)} \in SUBSET Nat
  BY <1>5 DEF NodeType
<1>7. OutputNode(k, j) \in NodeType
  BY <1>3, <1>4, <1>6 DEF NodeType
<1>8. QED
  BY <1>7, SentinelsDiffer

-----------------------------------------------------------------------------
(* The nodes and names that the invariant provides.                        *)

\* Who writes an intermediate operand or an output, and when it is read.
LEMMA WriterFacts ==
  ASSUME model \in Models, NEW i \in Operands, Operand(i).life \in {"temp", "output"}
  PROVE  \E k \in Ops : \E j \in DOMAIN Op(k).outs : Op(k).outs[j] = i
<1>1. Admitted(model)
  BY ModelsAssumption
<1>2. QED
  BY <1>1 DEF Admitted, Op, Ops, Operand, Operands

LEMMA WrittenBefore ==
  ASSUME model \in Models, NEW k \in Ops, NEW p \in DOMAIN Op(k).ins,
         Operand(Op(k).ins[p]).life \in {"temp", "output"}
  PROVE  \E l \in Ops : l < k /\ \E j \in DOMAIN Op(l).outs : Op(l).outs[j] = Op(k).ins[p]
<1>1. Admitted(model)
  BY ModelsAssumption
<1>2. Ops = 1 .. Len(model.ops) /\ Len(model.ops) \in Nat
  BY ModelFacts
<1>3. PICK l \in 1 .. (k - 1) : \E j \in DOMAIN Op(l).outs : Op(l).outs[j] = Op(k).ins[p]
  <2>1. k \in DOMAIN model.ops /\ p \in DOMAIN model.ops[k].ins
        /\ model.operands[model.ops[k].ins[p]].life \in {"temp", "output"}
    BY DEF Ops, Op, Operand
  <2>2. \E l \in 1 .. (k - 1) : \E j \in DOMAIN model.ops[l].outs :
           model.ops[l].outs[j] = model.ops[k].ins[p]
    <3>1. \A q \in DOMAIN model.ops : \A h \in DOMAIN model.ops[q].ins :
             model.operands[model.ops[q].ins[h]].life \in {"temp", "output"} =>
                \E l \in 1 .. (q - 1) : \E j \in DOMAIN model.ops[l].outs :
                   model.ops[l].outs[j] = model.ops[q].ins[h]
      <4>1. TAKE q \in DOMAIN model.ops
      <4>2. TAKE h \in DOMAIN model.ops[q].ins
      <4>3. QED
        BY <1>1 DEF Admitted
    <3>2. QED
      BY <2>1, <3>1
  <2>3. QED
    BY <2>2 DEF Op
<1>4. l \in Ops /\ l < k
  BY <1>2, <1>3
<1>5. QED
  BY <1>3, <1>4

\* An operand that has a node by NNAPI's rules has one when it is read.
LEMMA ReadsFindNodes ==
  ASSUME BInv, Consistent(FALSE), WrittenOK, at.pc \in {"connect", "remove", "outputs"},
         NEW p \in 0 .. (Len(Op(at.k).ins) - 1), HasNode(In(at.k, p))
  PROVE  InputNode(at.k, p) # Null
<1>1. model \in Models /\ at.k \in Ops /\ at.k \in Nat
  BY ModelFacts DEF BInv, IInv, TypeOK
<1>2. In(at.k, p) \in Operands /\ p + 1 \in DOMAIN Op(at.k).ins
  BY <1>1, InputsFacts
<1>3. Operand(In(at.k, p)) \in OperandType
  BY <1>1, <1>2, ModelFacts
<1>4. Operand(In(at.k, p)).life \in {"input", "temp", "output", "const"}
  BY <1>3 DEF OperandType, HasNode
<1>5. CASE Operand(In(at.k, p)).life = "const"
  <2>1. Constant(at.k) \in NodeType
    BY <1>1 DEF Constant, NodeType
  <2>2. QED
    BY <1>5, <2>1, SentinelsDiffer DEF InputNode
<1>6. CASE Operand(In(at.k, p)).life = "input"
  <2>1. nodes[In(at.k, p)] = Parameter(In(at.k, p))
    BY <1>2, <1>6 DEF HasNode, HasParameter, BInv, NamesOK, InputsOK
  <2>2. Parameter(In(at.k, p)) # Null
    BY <1>1, <1>2, ParameterType, SentinelsDiffer
  <2>3. QED
    BY <1>6, <2>1, <2>2 DEF InputNode
<1>7. CASE Operand(In(at.k, p)).life \in {"temp", "output"}
  <2>1. Operand(Op(at.k).ins[p + 1]).life \in {"temp", "output"}
    BY <1>7 DEF In
  <2>2. PICK l \in Ops : l < at.k /\ \E j \in DOMAIN Op(l).outs : Op(l).outs[j] = Op(at.k).ins[p + 1]
    BY <1>1, <1>2, <2>1, WrittenBefore
  <2>3. nodes[In(at.k, p)] # Null
    BY <2>2 DEF WrittenOK, In
  <2>4. QED
    BY <1>7, <2>3 DEF InputNode
<1>8. QED
  BY <1>4, <1>5, <1>6, <1>7

\* Executions find nodes, and blobs for the names they get.
LEMMA AskedNodes ==
  ASSUME BInv, WrittenOK, at.pc = "ready", NEW i \in Asked, names[i] = Unnamed
  PROVE  nodes[i] # Null
<1>1. model \in Models /\ i \in Operands
  BY DEF BInv, IInv, TypeOK, Asked
<1>2. CASE Operand(i).life = "input"
  <2>1. nodes[i] = Parameter(i)
    BY <1>1, <1>2, SentinelsDiffer DEF BInv, NamesOK, InputsOK
  <2>2. QED
    BY <1>1, <2>1, ParameterType, SentinelsDiffer
<1>3. CASE Operand(i).life = "output"
  <2>1. PICK k \in Ops : \E j \in DOMAIN Op(k).outs : Op(k).outs[j] = i
    BY <1>1, <1>3, WriterFacts
  <2>2. QED
    BY <2>1 DEF WrittenOK
<1>4. QED
  BY <1>2, <1>3 DEF Asked

LEMMA AskedBlobs ==
  ASSUME BInv, WrittenOK, PassedOverOK, at.pc = "ready", NEW i \in Asked, names[i] # Unnamed
  PROVE  names[i] = Empty \/ HasBlob(names[i])
<1>1. model \in Models /\ i \in Operands /\ names[i] \in NodeType \cup {Empty}
  BY DEF BInv, IInv, TypeOK, Asked
<1>2. SUFFICES ASSUME names[i] # Empty
               PROVE  HasBlob(names[i])
  OBVIOUS
<1>3. names[i] = nodes[i] /\ nodes[i] # Null
  BY <1>1, <1>2, SentinelsDiffer DEF BInv, NamesOK, NamesFollow
<1>4. CASE Operand(i).life = "output"
  BY <1>1, <1>3, <1>4 DEF BInv, NamesOK, ResultsOK, HasBlob
<1>5. CASE Operand(i).life = "input"
  <2>1. nodes[i] = Parameter(i) /\ (i \in params \/ Removed(i))
    BY <1>1, <1>2, <1>5 DEF BInv, NamesOK, InputsOK
  <2>2. ~Removed(i)
    <3>1. SUFFICES ASSUME NEW h \in Operands, nodes[h] = Parameter(i), names[h] = Empty
                   PROVE  FALSE
      BY DEF Removed
    <3>2. Operand(h).life = "input"
      BY <3>1 DEF PassedOverOK
    <3>3. nodes[h] \in {Null, Parameter(h)}
      BY <3>2 DEF BInv, NamesOK, InputsOK
    <3>4. Parameter(i) # Null /\ (Parameter(h) = Parameter(i) => h = i)
      BY <1>1, ParameterType, SentinelsDiffer DEF Parameter
    <3>5. h = i
      BY <3>1, <3>3, <3>4
    <3>6. QED
      BY <1>2, <3>1, <3>5
  <2>3. QED
    BY <1>3, <2>1, <2>2 DEF HasBlob
<1>6. QED
  BY <1>4, <1>5 DEF Asked

-----------------------------------------------------------------------------
(* The steps, in a consistent model.                                       *)

\* A step that keeps the graph, and does not fault, or does where two executions
\* race.
LEMMA SafeSame ==
  ASSUME SafeOK, UNCHANGED <<model, nodes, results, names>>, at'.k = at.k,
         at'.pc \in {"generate", "ready"} => at.pc \in {"generate", "ready"},
         at'.pc \notin {"inputs", "refused"} => at.pc \notin {"inputs", "refused"},
         service' = "up" \/ (NamingRace /\ thread' = thread)
  PROVE  SafeOK'
<1>1. /\ Ops' = Ops /\ Operands' = Operands /\ \A k \in Ops : Op(k)' = Op(k)
      /\ \A i \in Operands : Operand(i)' = Operand(i)
  BY SameModel
<1>2. WrittenOK'
  BY <1>1 DEF SafeOK, WrittenOK
<1>3. PassedOverOK'
  BY <1>1 DEF SafeOK, PassedOverOK
<1>4. (service = "down" => NamingRace)'
  BY DEF NamingRace, Racing
<1>5. QED
  BY <1>2, <1>3, <1>4 DEF SafeOK

\* A step that does nothing, or that nobody takes once the service is down.
LEMMA SafeStutter ==
  ASSUME BInv, SafeOK, UNCHANGED vars
  PROVE  SafeOK'
<1>1. service = "up" \/ NamingRace
  BY DEF BInv, IInv, TypeOK, SafeOK
<1>2. QED
  BY <1>1, SafeSame DEF vars

LEMMA RefuseSafe ==
  ASSUME SafeOK, service = "up", Refuse
  PROVE  SafeOK'
<1>1. at'.pc = "refused" /\ at'.k = at.k
  BY DEF Refuse, Goto
<1>2. QED
  BY <1>1, SafeSame DEF Refuse

LEMMA CreateInputParamsSafe ==
  ASSUME BInv, SafeOK, CreateInputParams
  PROVE  SafeOK'
<1>1. CASE Refuse
  BY <1>1, RefuseSafe DEF CreateInputParams
<1>2. CASE ~Refuse
  <2>1. /\ names' = [i \in Operands |->
                IF Operand(i).life = "input" /\ ~HasParameter(i) THEN Empty ELSE Unnamed]
        /\ at'.pc = "connect" /\ at'.k = 1
        /\ UNCHANGED <<model, results, thread, service>> /\ service = "up"
    BY <1>2 DEF CreateInputParams, Goto
  <2>2. /\ Operands' = Operands /\ Ops' = Ops
        /\ \A i \in Operands : Operand(i)' = Operand(i)
    BY <2>1, SameModel
  <2>3. WrittenOK'
    <3>1. \A l \in Ops : ~(l < 1)
      BY ModelFacts DEF BInv, IInv, TypeOK
    <3>2. QED
      BY <2>1, <2>2, <3>1 DEF WrittenOK
  <2>4. PassedOverOK'
    BY <2>1, <2>2, SentinelsDiffer DEF PassedOverOK
  <2>5. QED
    BY <2>1, <2>3, <2>4 DEF SafeOK
<1>3. QED
  BY <1>1, <1>2

LEMMA CreateNodeSafe ==
  ASSUME BInv, SafeOK, Consistent(FALSE), CreateNode
  PROVE  SafeOK'
<1>1. model \in Models /\ at.k \in Ops /\ at.pc = "connect" /\ service = "up"
  BY DEF BInv, IInv, TypeOK, CreateNode
<1>2. \A p \in Reads(at.k) : InputNode(at.k, p) # Null
  BY <1>1, ReadsFacts, ReadsNodes, ReadsFindNodes DEF SafeOK
<1>3. CASE Refuse
  BY <1>1, <1>3, RefuseSafe
<1>4. CASE ~Refuse
  <2>1. /\ at'.k = at.k /\ at'.pc \in {"outputs", "remove"}
        /\ UNCHANGED <<model, nodes, results, names, thread, service>>
    BY <1>2, <1>4 DEF CreateNode, Goto
  <2>2. QED
    BY <1>1, <2>1, SafeSame
<1>5. QED
  BY <1>3, <1>4

LEMMA RemoveInputNodeSafe ==
  ASSUME BInv, SafeOK, Consistent(FALSE), RemoveInputNode
  PROVE  SafeOK'
<1> DEFINE k == at.k
           i == In(k, Removes(k)[at.j])
           name == IF names[i] = Unnamed THEN nodes[i] ELSE names[i]
<1>1. /\ model \in Models /\ k \in Ops /\ at.pc = "remove" /\ service = "up"
      /\ at.j \in DOMAIN Removes(k)
  BY DEF BInv, IInv, TypeOK, RemovalOK, RemoveInputNode
<1>2. i \in Operands /\ Operand(i).life = "input"
  BY <1>1, RemovesFacts, RemovesInputs
<1>3. name # Null
  <2>1. names[i] # Null
    BY <1>2, SentinelsDiffer DEF BInv, IInv, TypeOK
  <2>2. names[i] = Unnamed => nodes[i] # Null
    BY <1>1, <1>2, ParameterType, SentinelsDiffer DEF BInv, NamesOK, InputsOK
  <2>3. QED
    BY <2>1, <2>2
<1>4. /\ names' = Rename(i, name)
      /\ at'.k = at.k /\ at'.pc \in {"remove", "outputs"}
      /\ UNCHANGED <<model, nodes, results, thread, service>>
  BY <1>3 DEF RemoveInputNode, Goto
<1> HIDE DEF k, i, name
<1>5. \A h \in Operands \ {i} : names'[h] = names[h]
  BY <1>2, <1>4 DEF Rename, BInv, IInv, TypeOK
<1>6. /\ Operands' = Operands /\ Ops' = Ops /\ \A l \in Ops : Op(l)' = Op(l)
      /\ \A h \in Operands : Operand(h)' = Operand(h)
  BY <1>4, SameModel
<1>7. WrittenOK'
  BY <1>1, <1>4, <1>6 DEF SafeOK, WrittenOK
<1>8. PassedOverOK'
  BY <1>2, <1>5, <1>6 DEF SafeOK, PassedOverOK
<1>9. QED
  BY <1>1, <1>4, <1>7, <1>8 DEF SafeOK

LEMMA ConnectSafe ==
  ASSUME BInv, SafeOK, Consistent(FALSE), at.pc \in {"connect", "outputs"}, service = "up",
         NEW made, Connect(at.k, made), \A j \in Written(at.k) : made[j] # Null
  PROVE  SafeOK'
<1>1. model \in Models /\ at.k \in Ops
  BY DEF BInv, IInv, TypeOK
<1>2. Ops = 1 .. Len(model.ops) /\ Len(model.ops) \in Nat
  BY <1>1, ModelFacts
<1>3. Written(at.k) = DOMAIN Op(at.k).outs
  BY <1>1, WritesItsOutputs
<1>4. UNCHANGED <<model, names, service>> /\ NextOp(at.k)
  BY DEF Connect
<1>5. /\ Operands' = Operands /\ Ops' = Ops /\ \A l \in Ops : Op(l)' = Op(l)
      /\ \A h \in Operands : Operand(h)' = Operand(h)
  BY <1>4, SameModel
<1>6. \A i \in Operands :
        \/ nodes'[i] # Null
        \/ nodes'[i] = nodes[i] /\ \A j \in Written(at.k) : Op(at.k).outs[j] # i
  BY <1>1, <1>3, ConnectFacts
<1>7. \A l \in Ops : l < at'.k \/ at'.pc \in {"generate", "ready"} => l <= at.k
  <2>1. CASE at.k < Len(model.ops)
    <3>1. at'.k = at.k + 1 /\ at'.pc = "connect"
      BY <1>4, <2>1 DEF NextOp, Goto
    <3>2. QED
      BY <1>1, <1>2, <3>1
  <2>2. CASE ~(at.k < Len(model.ops))
    BY <1>1, <1>2, <2>2
  <2>3. QED
    BY <2>1, <2>2
<1>8. WrittenOK'
  <2>1. SUFFICES ASSUME NEW l \in Ops, l <= at.k, NEW j \in DOMAIN Op(l).outs
                 PROVE  nodes'[Op(l).outs[j]] # Null
    BY <1>5, <1>7 DEF WrittenOK
  <2>2. Op(l).outs[j] \in Operands
    BY <1>1, OutsFacts
  <2>3. CASE l = at.k
    BY <1>3, <1>6, <2>2, <2>3
  <2>4. CASE l < at.k
    BY <1>6, <2>2, <2>4 DEF SafeOK, WrittenOK
  <2>5. QED
    BY <1>1, <1>2, <2>1, <2>3, <2>4
<1>9. Null \notin results'
  BY DEF Connect, SafeOK
<1>10. PassedOverOK'
  BY <1>4, <1>5 DEF SafeOK, PassedOverOK
<1>11. QED
  BY <1>4, <1>8, <1>9, <1>10 DEF SafeOK

LEMMA SetOutputsSafe ==
  ASSUME BInv, SafeOK, Consistent(FALSE), SetOutputs
  PROVE  SafeOK'
<1> DEFINE made == [j \in Written(at.k) |-> OutputNode(at.k, j)]
<1>1. TypeOK /\ model \in Models /\ at.k \in Ops /\ at.pc = "outputs" /\ service = "up"
  BY DEF BInv, IInv, TypeOK, SetOutputs
<1>2. \A p \in Reads(at.k) : InputNode(at.k, p) # Null
  BY <1>1 DEF BInv, IInv, RemovalOK
<1>3. \A j \in Written(at.k) : made[j] # Null
  BY <1>1, <1>2, OutputsGetNodes
<1>4. Connect(at.k, made)
  BY <1>1, WritesItsOutputs DEF SetOutputs
<1> HIDE DEF made
<1>5. QED
  BY <1>1, <1>3, <1>4, ConnectSafe

LEMMA ConnectCastSafe ==
  ASSUME BInv, SafeOK, Consistent(FALSE), ConnectCast
  PROVE  SafeOK'
<1>1. /\ TypeOK /\ model \in Models /\ at.k \in Ops /\ at.pc = "connect" /\ service = "up"
      /\ Op(at.k).kind = "cast"
  BY DEF BInv, IInv, TypeOK, ConnectCast
<1>2. Compared(at.k) \subseteq Ops
  BY <1>1 DEF Consistent, OthersConsistent
<1>3. Written(at.k) = {1} /\ Reads(at.k) = 0 .. (Len(Op(at.k).ins) - 1)
  BY <1>1, CastWrites DEF Reads
<1>4. 0 \in Reads(at.k) /\ \A p \in Reads(at.k) : p = 0
  <2>1. Len(Op(at.k).ins) = 1
    BY <1>1, InputsFacts
  <2>2. QED
    BY <1>3, <2>1
<1>5. InputNode(at.k, 0) # Null
  BY <1>1, <1>3, <1>4, ReadsNodes, ReadsFindNodes DEF SafeOK
<1>6. CASE Refuse
  BY <1>1, <1>6, RefuseSafe
<1>7. CASE Connect(at.k, [j \in {1} |-> InputNode(at.k, 0)])
  <2> DEFINE made == [j \in {1} |-> InputNode(at.k, 0)]
  <2>1. \A j \in Written(at.k) : made[j] # Null
    BY <1>3, <1>5
  <2>2. Connect(at.k, made)
    BY <1>7
  <2> HIDE DEF made
  <2>3. QED
    BY <1>1, <2>1, <2>2, ConnectSafe
<1>8. CASE Connect(at.k, [j \in {1} |-> OutputNode(at.k, j)])
  <2> DEFINE made == [j \in {1} |-> OutputNode(at.k, j)]
  <2>1. \A j \in Written(at.k) : OutputNode(at.k, j) # Null
    BY <1>1, <1>4, <1>5, OutputsGetNodes
  <2>2. \A j \in Written(at.k) : made[j] # Null
    BY <1>3, <2>1
  <2>3. Connect(at.k, made)
    BY <1>8
  <2> HIDE DEF made
  <2>4. QED
    BY <1>1, <2>2, <2>3, ConnectSafe
<1>9. QED
  BY <1>2, <1>5, <1>6, <1>7, <1>8 DEF ConnectCast

LEMMA GenerateGraphSafe ==
  ASSUME SafeOK, GenerateGraph
  PROVE  SafeOK'
<1>1. at.pc = "generate" /\ service = "up" /\ Null \notin results
  BY DEF GenerateGraph, SafeOK
<1>2. CASE Refuse
  BY <1>1, <1>2, RefuseSafe
<1>3. CASE ~Refuse
  <2>1. at'.pc = "ready" /\ at'.k = at.k /\ UNCHANGED <<model, nodes, results, names, service>>
    BY <1>1, <1>3 DEF GenerateGraph, Goto
  <2>2. QED
    BY <1>1, <2>1, SafeSame
<1>4. QED
  BY <1>2, <1>3

LEMMA ExecutionsSafe ==
  ASSUME BInv, AskedOK, SafeOK, NEW e \in Executions,
         Execute(e) \/ FindName(e) \/ InsertName(e) \/ GetBlob(e)
  PROVE  SafeOK'
<1>1. service = "up" /\ at.pc = "ready"
  BY DEF Execute, FindName, InsertName, GetBlob, At
<1>2. CASE Execute(e)
  BY <1>1, <1>2, SafeSame DEF Execute
<1>3. CASE FindName(e)
  <2>1. thread[e].pc = "find" /\ thread[e].i \in Asked
    BY <1>3 DEF FindName, At, AskedOK
  <2>2. names[thread[e].i] = Unnamed => nodes[thread[e].i] # Null
    BY <1>1, <2>1, AskedNodes DEF SafeOK
  <2>3. CASE Racing(e) /\ Down
    <3>1. NamingRace
      BY <2>1, <2>3 DEF NamingRace
    <3>2. QED
      BY <2>3, <3>1, SafeSame DEF Down
  <2>4. CASE ~(Racing(e) /\ Down)
    <3>1. UNCHANGED <<model, at, nodes, results, names, service>>
      BY <1>3, <2>2, <2>4 DEF FindName
    <3>2. QED
      BY <1>1, <3>1, SafeSame
  <2>5. QED
    BY <2>3, <2>4
<1>4. CASE InsertName(e)
  <2>1. thread[e].pc = "insert" /\ thread[e].i \in Operands
    BY <1>4 DEF InsertName, At, BInv, IInv, ThreadsOK
  <2>2. CASE Racing(e) /\ Down
    <3>1. NamingRace
      BY <2>1, <2>2 DEF NamingRace
    <3>2. QED
      BY <2>2, <3>1, SafeSame DEF Down
  <2>3. CASE ~(Racing(e) /\ Down)
    <3>1. /\ names' = [names EXCEPT ![thread[e].i] = nodes[thread[e].i]]
          /\ UNCHANGED <<model, at, nodes, results, service>>
      BY <1>4, <2>3 DEF InsertName
    <3>2. nodes[thread[e].i] # Empty
      BY <2>1, SentinelsDiffer DEF BInv, IInv, TypeOK
    <3>3. \A h \in Operands : names'[h] = Empty => names[h] = Empty
      BY <2>1, <3>1, <3>2 DEF BInv, IInv, TypeOK
    <3>4. /\ Operands' = Operands /\ Ops' = Ops /\ \A l \in Ops : Op(l)' = Op(l)
          /\ \A h \in Operands : Operand(h)' = Operand(h)
      BY <3>1, SameModel
    <3>5. WrittenOK'
      BY <3>1, <3>4 DEF SafeOK, WrittenOK
    <3>6. PassedOverOK'
      BY <3>3, <3>4 DEF SafeOK, PassedOverOK
    <3>7. QED
      BY <1>1, <3>1, <3>5, <3>6 DEF SafeOK
  <2>4. QED
    BY <2>2, <2>3
<1>5. CASE GetBlob(e)
  <2>1. thread[e].i \in Asked /\ names[thread[e].i] # Unnamed
    BY <1>5 DEF GetBlob, At, AskedOK
  <2>2. names[thread[e].i] = Empty \/ HasBlob(names[thread[e].i])
    BY <1>1, <2>1, AskedBlobs DEF SafeOK
  <2>3. UNCHANGED <<model, at, nodes, results, names, service>>
    BY <1>5, <2>2 DEF GetBlob
  <2>4. QED
    BY <1>1, <2>3, SafeSame
<1>6. QED
  BY <1>2, <1>3, <1>4, <1>5

LEMMA SafeKept ==
  ASSUME BInv, AskedOK, SafeOK, Consistent(FALSE), [Next]_vars
  PROVE  SafeOK'
<1>1. CASE CreateInputParams \/ CreateNode \/ RemoveInputNode
  BY <1>1, CreateInputParamsSafe, CreateNodeSafe, RemoveInputNodeSafe
<1>2. CASE SetOutputs \/ ConnectCast \/ GenerateGraph
  BY <1>2, SetOutputsSafe, ConnectCastSafe, GenerateGraphSafe
<1>3. CASE \E e \in Executions : Execute(e) \/ FindName(e) \/ InsertName(e) \/ GetBlob(e)
  BY <1>3, ExecutionsSafe
<1>4. CASE UNCHANGED vars
  BY <1>4, SafeStutter
<1>5. QED
  BY <1>1, <1>2, <1>3, <1>4 DEF Next, Quiescent

-----------------------------------------------------------------------------
(* What executions are at.                                                 *)

LEMMA AskedSame ==
  ASSUME IInv, AskedOK, model' = model, thread' = thread, at.pc # "ready" \/ names' = names
  PROVE  AskedOK'
<1>1. Asked' = Asked
  BY DEF Asked, Operand, Operands
<1>2. CASE names' = names
  BY <1>1, <1>2 DEF AskedOK
<1>3. CASE at.pc # "ready"
  <2>1. \A e \in Executions : thread[e].pc = "idle"
    BY <1>3 DEF IInv, ThreadsOK
  <2>2. QED
    BY <2>1 DEF AskedOK
<1>4. QED
  BY <1>2, <1>3

LEMMA AskedMoves ==
  ASSUME IInv, AskedOK, NEW e \in Executions, NEW pc, NEW i, Move(e, pc, i), model' = model,
         \A h \in Operands : names[h] # Unnamed => names'[h] # Unnamed,
         pc \in {"find", "insert", "blob"} => i \in Asked,
         pc = "blob" => names'[i] # Unnamed
  PROVE  AskedOK'
<1>1. Asked' = Asked /\ Asked \subseteq Operands
  BY DEF Asked, Operand, Operands
<1>2. thread'[e] = [pc |-> pc, i |-> i] /\ \A f \in Executions \ {e} : thread'[f] = thread[f]
  BY DEF Move, IInv, TypeOK
<1>3. \A f \in Executions : thread[f].pc = "blob" => thread[f].i \in Operands
  BY <1>1 DEF AskedOK
<1>4. QED
  BY <1>1, <1>2, <1>3 DEF AskedOK

LEMMA AskedNext ==
  ASSUME IInv, AskedOK, NEW e \in Executions, NEW i, AskNext(e, i), model' = model, names' = names
  PROVE  AskedOK'
<1>1. CASE Move(e, "done", i)
  BY <1>1, AskedMoves
<1>2. CASE \E j \in Asked : Move(e, "find", j)
  BY <1>2, AskedMoves
<1>3. QED
  BY <1>1, <1>2 DEF AskNext

LEMMA AskedKept ==
  ASSUME IInv, AskedOK, [Next]_vars
  PROVE  AskedOK'
<1>1. CASE Down
  BY <1>1, AskedSame DEF Down
<1>2. CASE UNCHANGED vars
  BY <1>2, AskedSame DEF vars
<1>3. CASE \/ CreateInputParams \/ CreateNode \/ RemoveInputNode
           \/ SetOutputs \/ ConnectCast \/ GenerateGraph
  <2>1. at.pc # "ready"
    BY <1>3 DEF CreateInputParams, CreateNode, RemoveInputNode, SetOutputs, ConnectCast, GenerateGraph
  <2>2. UNCHANGED <<model, thread>>
    BY <1>3 DEF CreateInputParams, CreateNode, RemoveInputNode, SetOutputs, ConnectCast,
                GenerateGraph, Refuse, Down, Connect
  <2>3. QED
    BY <2>1, <2>2, AskedSame
<1>4. ASSUME NEW e \in Executions, Execute(e) \/ GetBlob(e), ~Down
      PROVE  AskedOK'
  <2>1. (\E i : AskNext(e, i)) /\ model' = model /\ names' = names
    BY <1>4 DEF Execute, GetBlob
  <2>2. QED
    BY <2>1, AskedNext
<1>5. ASSUME NEW e \in Executions, FindName(e), ~Down
      PROVE  AskedOK'
  <2> DEFINE i == thread[e].i
             pc == IF names[i] = Unnamed THEN "insert" ELSE "blob"
  <2>1. Move(e, pc, i) /\ model' = model /\ names' = names /\ i \in Asked
    BY <1>5 DEF FindName, At, AskedOK
  <2>2. pc = "blob" => names'[i] # Unnamed
    BY <2>1
  <2> HIDE DEF i, pc
  <2>3. QED
    BY <2>1, <2>2, AskedMoves
<1>6. ASSUME NEW e \in Executions, InsertName(e), ~Down
      PROVE  AskedOK'
  <2> DEFINE i == thread[e].i
  <2>1. /\ Move(e, "blob", i) /\ model' = model /\ i \in Asked
        /\ names' = [names EXCEPT ![i] = nodes[i]]
    BY <1>6 DEF InsertName, At, AskedOK
  <2>2. i \in Operands /\ nodes[i] # Unnamed
    BY <2>1, SentinelsDiffer DEF Asked, IInv, TypeOK
  <2>3. names'[i] # Unnamed /\ \A h \in Operands : names[h] # Unnamed => names'[h] # Unnamed
    BY <2>1, <2>2 DEF IInv, TypeOK
  <2> HIDE DEF i
  <2>4. QED
    BY <2>1, <2>3, AskedMoves
<1>7. QED
  BY <1>1, <1>2, <1>3, <1>4, <1>5, <1>6 DEF Next, Quiescent

-----------------------------------------------------------------------------
(* The theorem.                                                            *)

LEMMA SInvInit ==
  ASSUME Init
  PROVE  SInv
<1>1. BInv
  BY BInvInit
<1>2. AskedOK
  BY DEF Init, AskedOK
<1>3. SafeOK
  BY SentinelsDiffer DEF Init, SafeOK, WrittenOK, PassedOverOK
<1>4. QED
  BY <1>1, <1>2, <1>3 DEF SInv

LEMMA SInvNext ==
  ASSUME SInv, [Next]_vars
  PROVE  SInv'
<1>1. BInv'
  BY BInvNext DEF SInv
<1>2. AskedOK'
  BY AskedKept DEF SInv, BInv
<1>3. model' = model
  BY DEF Next, vars, CreateInputParams, CreateNode, RemoveInputNode, SetOutputs, ConnectCast,
         GenerateGraph, Execute, FindName, InsertName, GetBlob, Quiescent, Refuse, Down, Connect
<1>4. Consistent(FALSE)' => SafeOK'
  BY <1>3, SameConsistent, SafeKept DEF SInv
<1>5. QED
  BY <1>1, <1>2, <1>4 DEF SInv

\* Any model that gives or omits its optional inputs as NNAPI says is built, and
\* its blobs are found, without a null pointer, an index beyond the outputs or an
\* unknown name; any number of executions may ask side by side, unless two are
\* in getNodeName() at once (LSTM.cpp:36-213, NgraphNodes.cpp:34-50).
THEOREM DefectsOnlyFault == Spec => []OnlyDefectsFault
<1>1. Init => SInv
  BY SInvInit
<1>2. SInv /\ [Next]_vars => SInv'
  BY SInvNext
<1>3. SInv => OnlyDefectsFault
  BY DEF SInv, SafeOK, OnlyDefectsFault
<1>4. QED
  BY <1>1, <1>2, <1>3, PTL DEF Spec
===============================================================================
