-------------------------- MODULE MCModelPreparation --------------------------
(* Small instances of ModelPreparation: two calls, models of up to three     *)
(* operations, each of them failing in one way.                              *)
EXTENDS ModelPreparation

CONSTANTS c1, c2

Good(ops) == [valid |-> TRUE, maps |-> TRUE, known |-> TRUE, inputs |-> TRUE, ops |-> ops,
              builds |-> TRUE, loads |-> TRUE]

Short    == Good(<<"plain">>)
Plain    == Good(<<"plain", "plain">>)
Longer   == Good(<<"plain", "scalar", "plain">>)
Pooled   == Good(<<"plain", "pooled">>)
Refused  == Good(<<"plain", "refused">>)
Unknown  == Good(<<"unknown", "plain">>)
Throws   == Good(<<"plain", "throws">>)
Faults   == Good(<<"plain", "faults">>)
Blind    == Good(<<"blind">>)
Invalid  == [Short EXCEPT !.valid = FALSE]
NoMap    == [Short EXCEPT !.maps = FALSE]
Strange  == [Short EXCEPT !.known = FALSE]
NoInputs == [Short EXCEPT !.inputs = FALSE]
NoBuild  == [Short EXCEPT !.builds = FALSE]
NoLoad   == [Short EXCEPT !.loads = FALSE]

AllModels == {Short, Plain, Longer, Pooled, Refused, Unknown, Throws, Faults, Blind, Invalid,
              NoMap, Strange, NoInputs, NoBuild, NoLoad}

Call(method, version, model, callback, settings) ==
    [method |-> method, version |-> version, model |-> model,
     callback |-> callback, settings |-> settings]

\* Every model with the newest calls; every version, and every argument a
\* version checks, with one model.
AllInvocations ==
         {Call("prepare", "1.3", m, TRUE, TRUE) : m \in AllModels \ {Short, Longer}}
    \cup {Call("supported", "1.3", m, TRUE, TRUE) : m \in {Plain, Pooled, Refused, Unknown, Faults, Blind, Invalid}}
    \cup {Call("prepare", v, Short, TRUE, s) : v \in Versions, s \in BOOLEAN}
    \cup {Call("prepare", "1.2", Short, FALSE, TRUE)}
    \cup {Call("cache", v, Short, cb, TRUE) : v \in {"1.2", "1.3"}, cb \in BOOLEAN}

TwoModels == {Call("prepare", "1.3", m, TRUE, TRUE) : m \in {Plain, Longer}}

ThreeDevices == {"CPU", "GNA", "GPU"}
CpuOnly    == {"CPU"}
===============================================================================
