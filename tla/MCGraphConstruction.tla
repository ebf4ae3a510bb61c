-------------------------- MODULE MCGraphConstruction --------------------------
(* Small instances of GraphConstruction: one model at a time, of one or two   *)
(* operations, with every way to give or omit the optional inputs.            *)
EXTENDS GraphConstruction

CONSTANTS e1, e2

Tensor(life)  == [life |-> life, sized |-> TRUE]
Unsized(life) == [life |-> life, sized |-> FALSE]

\* An optional input that is given by the client or as a constant, or omitted
\* in one of the two ways.
Fed      == Tensor("input")
Weights  == Tensor("const")
ZeroSize == Unsized("input")
NoValue  == Unsized("none")
Forms  == {Fed, Weights, ZeroSize, NoValue}

Operation(kind, ins, outs) ==
    [kind |-> kind, ins |-> ins, outs |-> outs, splits |-> 2, merged |-> FALSE, handled |-> TRUE]

Model(operands, ops) == [operands |-> operands, ops |-> ops]

Two(l, r)      == <<Tensor(l), Tensor(r)>>
Outs(n)        == [i \in 1..n |-> Tensor("output")]

\* An LSTM: gate for positions 1, 5 and 12, peep for 9, 10 and 11, proj for 16
\* and 17, norm for 23 and for 24 to 26 when it is not empty.
Lstm(gate, peep, proj, norm) ==
    LET n    == 9 + Len(norm)
        head == <<1, 2, 1, 1, 1, 3, 1, 1, 1, 5, 6, 7, 4, 1, 1, 1, 8, 9, 1, 1, 1, 1, 1>>
        tail == IF norm = <<>> THEN <<>> ELSE <<10, 11, 11, 11>>
    IN Model(<<Fed>> \o gate \o peep \o proj \o norm \o Outs(4),
             <<Operation("lstm", head \o tail, <<n + 1, n + 2, n + 3, n + 4>>)>>)

All(c) == <<c, c, c>>
Gates  == {All(c) : c \in Forms} \cup {<<Fed, ZeroSize, NoValue>>, <<NoValue, Weights, Weights>>}
Peeps  == {All(c) : c \in Forms} \cup {<<ZeroSize, Fed, Fed>>, <<NoValue, Weights, Weights>>,
                                         <<Fed, ZeroSize, Fed>>}
Projs  == {<<NoValue, NoValue>>, <<ZeroSize, ZeroSize>>, <<Weights, Weights>>, <<Fed, NoValue>>,
           <<Weights, Tensor("none")>>}
Norms  == {<<>>, <<NoValue, NoValue>>, <<Weights, Weights>>, <<ZeroSize, Weights>>}

LstmModels ==
         {Lstm(g, p, <<Weights, NoValue>>, <<>>) : g \in Gates, p \in Peeps}
    \cup {Lstm(g, All(NoValue), q, n) : g \in {All(Weights), All(NoValue)}, q \in Projs, n \in Norms}

\* A BidirectionalSequenceRNN, with n outputs.
Birnn(aux, merged, n) ==
    Model(<<Fed>> \o aux \o Outs(n),
          <<[Operation("birnn", <<1, 1, 1, 1, 1, 1, 1, 1, 1, 2, 3, 4>>, [j \in 1..n |-> 4 + j])
             EXCEPT !.merged = merged]>>)

BirnnModels ==
         {Birnn(<<a, b, c>>, FALSE, 2) : a, b, c \in Forms}
    \cup {Birnn(All(c), m, n) : c \in {Weights, ZeroSize}, m \in BOOLEAN, n \in 1..4}

\* Operations that make more or fewer outputs than they have, or null nodes.
OutputModels ==
    LET ops == {Operation(kind, <<1>>, [j \in 1..n |-> 1 + j]) :
                    kind \in {"split", "topk"}, n \in 1..3}
               \cup {Operation(kind, <<1, 1, 1, 1, 1>>, [j \in 1..n |-> 1 + j]) :
                    kind \in {"rnn", "unirnn"}, n \in 1..2}
    IN {Model(<<x>> \o Outs(Len(op.outs)), <<[op EXCEPT !.handled = h]>>) :
            x \in {Fed, ZeroSize}, op \in ops, h \in BOOLEAN}

\* A Cast, alone or before an operation that reads, or removes, what it passed on.
CastModels ==
    {Model(<<x, Tensor("output")>>, <<Operation("cast", <<1>>, <<2>>)>>) : x \in Forms}
    \cup {Model(<<x, Tensor("temp"), Tensor("output")>>,
                <<Operation("cast", <<1>>, <<2>>), Operation(kind, <<2>>, <<3>>)>>) :
            x \in Forms, kind \in {"base", "cast"}}
    \cup {Model(<<Fed, Fed, ZeroSize, Tensor("temp"), Tensor("output"), Tensor("output")>>,
                <<Operation("cast", <<2>>, <<4>>),
                  Operation("birnn", <<1, 1, 1, 1, 1, 1, 1, 1, 1, 4, 4, 3>>, <<5, 6>>)>>)}

\* Two operations that share inputs, one of which removes them.
SharingModels ==
    {Model(<<Fed, a, b, Tensor("output"), Tensor("output"), Tensor("output")>>,
           <<Operation("base", <<i>>, <<4>>),
             Operation("birnn", <<1, 1, 1, 1, 1, 1, 1, 1, 1, 2, 2, 3>>, <<5, 6>>)>>) :
        a \in {Fed, ZeroSize}, b \in {Fed, ZeroSize}, i \in {1, 2}}

AllModels == LstmModels \cup BirnnModels \cup OutputModels \cup CastModels \cup SharingModels

\* The auxiliary inputs as the comment in createInputParams() has them.
OmittedModels == {Birnn(All(c), FALSE, 2) : c \in {ZeroSize, NoValue}}
===============================================================================
