--------------------------- MODULE ModelPreparation ---------------------------
(***************************************************************************)
(* The driver's calls on models: prepareModel of the four HAL versions,    *)
(* getSupportedOperations and prepareModelFromCache (Driver.cpp), down to  *)
(* the initialize() of the prepared model and the translation of its       *)
(* operations.                                                             *)
(*                                                                         *)
(* A call runs to its end on the binder thread that took it.  Binder       *)
(* threads share one thing: the static OperationsBase::sModelInfo, which   *)
(* every translation reads and every NgraphNetworkCreator sets             *)
(* (OperationsFactory.cpp:14).  One action is one iteration of a loop over *)
(* the operations, or one step of initialize().                            *)
(***************************************************************************)
EXTENDS Naturals, Sequences

CONSTANTS
    Calls,        \* the calls clients make
    DeviceTypes,  \* the devices a service may be started for (service.cpp)
    Models,       \* the models clients send
    Invocations,  \* the ways clients call: method, version, model, arguments
    NoCall        \* sModelInfo before any NgraphNetworkCreator

Versions == {"1.0", "1.1", "1.2", "1.3"}

\* An operation of a model: "plain" is translated from its operands alone,
\* "scalar" also reads a constant, "pooled" one that lies in a memory pool;
\* "refused" fails validate(), "throws" fails createNode(), and the factory
\* has no class for "unknown".  An operand that is read as a constant and is
\* none, or an input without a node, is a null pointer: "faults" follows it in
\* createNode(), "blind" in validate() already.
OpKind == {"plain", "scalar", "pooled", "refused", "throws", "unknown", "faults", "blind"}

ModelType ==
    [ valid  : BOOLEAN,        \* validateModel()
      maps   : BOOLEAN,        \* its memory pools can be mapped
      known  : BOOLEAN,        \* initializeRunTimeOperandInfo() takes its operands
      inputs : BOOLEAN,        \* createInputParams() knows its input types
      ops    : Seq(OpKind),
      builds : BOOLEAN,        \* the nGraph function can be constructed
      loads  : BOOLEAN ]       \* OpenVINO serializes and loads it

\* callback: the callback is not null; settings: preference and priority are
\* valid (HAL 1.0 has neither).
InvocationType ==
    [ method : {"prepare", "supported", "cache"}, version : Versions,
      model : Models, callback : BOOLEAN, settings : BOOLEAN ]

ASSUME ModelsAssumption == \A m \in Models : m \in ModelType /\ m.ops # <<>>
ASSUME InvocationsAssumption == Invocations \subseteq InvocationType
ASSUME DevicesAssumption == DeviceTypes \subseteq {"CPU", "GNA", "GPU", "VPU"}
ASSUME NoCallAssumption == NoCall \notin Calls

VARIABLES
    device,      \* mDeviceType
    at,          \* where the thread of a call is: [pc, k]
    call,        \* its arguments
    told,        \* notify() calls, or the cb of getSupportedOperations
    ret,         \* what the method returned
    supported,   \* the vector getSupportedOperations fills
    sModelInfo,  \* the call whose NnapiModelInfo the static points to
    read,        \* the calls whose NnapiModelInfo a call's operations have read
    mapped,      \* the calls that have mapped their model's pools
    overtaken,   \* the calls that lost sModelInfo before they were through
    service      \* "up" until an abort, a fault or an uncaught exception

vars == <<device, at, call, told, ret, supported, sModelInfo, read, mapped,
          overtaken, service>>

NoStatus == "not returned"
Ops(c)   == call[c].model.ops

-----------------------------------------------------------------------------
Up(c, pc) == service = "up" /\ at[c].pc = pc

Goto(c, pc, k) == at' = [at EXCEPT ![c] = [pc |-> pc, k |-> k]]

\* Not the code: a loop that starts over when it is through.
IterateAgain(c, next) ==
    IF at[c].k < Len(Ops(c)) THEN Goto(c, at[c].pc, at[c].k + 1) ELSE Goto(c, at[c].pc, 1)

\* Not the code: i < size - 1.
IterateShort(c, next) ==
    IF at[c].k < Len(Ops(c)) - 1 THEN Goto(c, at[c].pc, at[c].k + 1) ELSE Goto(c, next, 1)

\* The next iteration of a loop over the operations, or what follows it.
Iterate(c, next) ==
    IF at[c].k < Len(Ops(c)) THEN Goto(c, at[c].pc, at[c].k + 1) ELSE Goto(c, next, 1)

\* The call ends: the callback was told, and the method returns.
End(c, answer, status) ==
    /\ told' = [told EXCEPT ![c] = @ \o answer]
    /\ ret' = [ret EXCEPT ![c] = status]
    /\ Goto(c, "done", 1)

\* Not the code: a failed initialize() is returned, and not notified.
FailSilently(c) == End(c, <<>>, "INVALID_ARGUMENT")

\* initialize() has returned false.
Fail(c) == End(c, <<"INVALID_ARGUMENT">>, "NONE")

Down ==
    /\ service' = "down"
    /\ UNCHANGED <<device, at, call, told, ret, supported, sModelInfo, read,
                   mapped, overtaken>>

-----------------------------------------------------------------------------
(* Driver.cpp.                                                             *)

Invoke(c) ==
    /\ Up(c, "idle")
    /\ \E i \in Invocations : call' = [call EXCEPT ![c] = i]
    /\ Goto(c, "check", 1)
    /\ UNCHANGED <<device, told, ret, supported, sModelInfo, read, mapped, overtaken, service>>

\* validateModel, validateExecutionPreference (not in 1.0), validatePriority.
Accepted(i) == i.model.valid /\ (i.version = "1.0" \/ i.settings)

\* ModelFactory(d, model) # NULL
HasModelClass(d) == d \in {"CPU", "GNA"}

\* prepareModel, prepareModel_1_1, _1_2 and _1_3 up to initialize().  The
\* last does not look whether the factory has made a model.
PrepareModel(c) ==
    /\ Up(c, "check") /\ call[c].method = "prepare"
    /\ \/ /\ ~call[c].callback
          /\ End(c, <<>>, "INVALID_ARGUMENT") /\ UNCHANGED service
       \/ /\ call[c].callback /\ ~Accepted(call[c])
          /\ End(c, <<"INVALID_ARGUMENT">>, "INVALID_ARGUMENT") /\ UNCHANGED service
       \/ /\ call[c].callback /\ Accepted(call[c]) /\ HasModelClass(device)
          /\ Goto(c, "pools", 1) /\ UNCHANGED <<told, ret, service>>
       \/ /\ call[c].callback /\ Accepted(call[c]) /\ ~HasModelClass(device)
          /\ IF call[c].version = "1.3"
             THEN service' = "down" /\ UNCHANGED <<at, told, ret>>
             ELSE End(c, <<>>, "INVALID_ARGUMENT") /\ UNCHANGED service
    /\ UNCHANGED <<device, call, supported, sModelInfo, read, mapped, overtaken>>

\* Not the code: the vector starts empty.
NoVerdicts(c) == <<>>

\* std::vector<bool> supported(count, true)
Verdicts(c) == [k \in DOMAIN Ops(c) |-> TRUE]

GetSupportedOperations(c) ==
    /\ Up(c, "check") /\ call[c].method = "supported"
    /\ supported' = [supported EXCEPT ![c] = Verdicts(c)]
    /\ IF call[c].model.valid
       THEN Goto(c, "factory", 1) /\ UNCHANGED <<told, ret>>
       ELSE End(c, <<"INVALID_ARGUMENT">>, "NONE")
    /\ UNCHANGED <<device, call, sModelInfo, read, mapped, overtaken, service>>

\* prepareModelFromCache uses its callback unchecked; the 1.3 one checks it.
PrepareModelFromCache(c) ==
    /\ Up(c, "check") /\ call[c].method = "cache"
    /\ \/ /\ call[c].callback
          /\ End(c, <<"GENERAL_FAILURE">>, "GENERAL_FAILURE") /\ UNCHANGED service
       \/ /\ ~call[c].callback /\ call[c].version = "1.3"
          /\ End(c, <<>>, "INVALID_ARGUMENT") /\ UNCHANGED service
       \/ /\ ~call[c].callback /\ call[c].version # "1.3"
          /\ service' = "down" /\ UNCHANGED <<at, told, ret>>
    /\ UNCHANGED <<device, call, supported, sModelInfo, read, mapped, overtaken>>

-----------------------------------------------------------------------------
(* initialize(), and what getSupportedOperations shares with it.           *)

\* initializeRunTimeOperandInfo() finds a type and a lifetime it knows in
\* every operand.
OperandsKnown(c) == call[c].model.known

InitRuntimeInfo(c) ==
    /\ Up(c, "pools")
    /\ mapped' = IF call[c].model.maps THEN mapped \cup {c} ELSE mapped
    /\ IF call[c].model.maps /\ OperandsKnown(c)
       THEN Goto(c, "factory", 1) /\ UNCHANGED <<told, ret>>
       ELSE Fail(c)
    /\ UNCHANGED <<device, call, supported, sModelInfo, read, overtaken, service>>

\* The calls whose operations still need sModelInfo.
Translating == {c \in Calls : at[c].pc \in {"operations", "validate", "inputs", "connect"}}

\* Not the code: a model information that is set already is kept.
KeepFirst(c) == IF sModelInfo = NoCall THEN c ELSE sModelInfo

\* sModelInfo = modelInfo
Latest(c) == c

\* The constructor of OperationsFactory.
CreateFactory(c) ==
    /\ Up(c, "factory")
    /\ sModelInfo' = Latest(c)
    /\ overtaken' = overtaken \cup (Translating \ {c})
    /\ Goto(c, "operations", 1)
    /\ UNCHANGED <<device, call, told, ret, supported, read, mapped, service>>

\* The operations of c read the information of a different model: what they
\* find for operation k may be anything, or be out of bounds.
Foreign(c) == call[sModelInfo].model # call[c].model

\* getOperation(k): the constructor of the operation reads its output index.
CreateOperation(c) ==
    /\ Up(c, "operations")
    /\ \/ /\ read' = IF Ops(c)[at[c].k] = "unknown" THEN read
                     ELSE [read EXCEPT ![c] = @ \cup {sModelInfo}]
          /\ Iterate(c, "validate")
          /\ UNCHANGED <<device, call, told, ret, supported, sModelInfo, mapped, overtaken, service>>
       \/ Ops(c)[at[c].k] # "unknown" /\ Foreign(c) /\ Down

\* Not the code: what validate() returns is ignored.
ValidAnyway(c, k) == {Ops(c)[k] # "unknown"}

\* What validateForPlugin() of operation k can return.
Validates(c, k) ==
    IF Ops(c)[k] = "unknown" THEN {FALSE}
    ELSE IF Foreign(c) THEN BOOLEAN
    ELSE {Ops(c)[k] # "refused"}

\* Reading a constant out of a pool that the NnapiModelInfo has not mapped.
ReadsUnmapped(c, k) == Ops(c)[k] = "pooled" /\ sModelInfo \notin mapped

\* One iteration of validateOperations or getSupportedOperations.
ValidateOperation(c) ==
    /\ Up(c, "validate")
    /\ LET k == at[c].k IN
       \/ Ops(c)[k] # "unknown" /\ (Foreign(c) \/ ReadsUnmapped(c, k)) /\ Down
       \/ Ops(c)[k] = "blind" /\ Down
       \/ /\ Foreign(c) \/ ~(ReadsUnmapped(c, k) \/ Ops(c)[k] = "blind")
          /\ \E ok \in Validates(c, k) :
              \/ /\ call[c].method = "prepare"
                 /\ IF ok THEN Iterate(c, "inputs") /\ UNCHANGED <<told, ret>> ELSE Fail(c)
                 /\ UNCHANGED supported
              \/ /\ call[c].method = "supported"
                 /\ supported' = [supported EXCEPT ![c][k] = ok]
                 /\ IF k < Len(Ops(c)) THEN Iterate(c, "done") /\ UNCHANGED <<told, ret>>
                                       ELSE End(c, <<"NONE">>, "NONE")
          /\ read' = IF Ops(c)[k] = "unknown" THEN read
                     ELSE [read EXCEPT ![c] = @ \cup {sModelInfo}]
          /\ UNCHANGED <<device, call, sModelInfo, mapped, overtaken, service>>

CreateInputParams(c) ==
    /\ Up(c, "inputs")
    /\ IF call[c].model.inputs
       THEN Goto(c, "connect", 1) /\ UNCHANGED <<told, ret>>
       ELSE Fail(c)
    /\ UNCHANGED <<device, call, supported, sModelInfo, read, mapped, overtaken, service>>

\* One iteration of initializeModel: connectOperationToGraph, whose
\* exceptions are caught.
ConnectOperation(c) ==
    /\ Up(c, "connect")
    /\ LET k == at[c].k IN
       \/ (Foreign(c) \/ ReadsUnmapped(c, k) \/ Ops(c)[k] \in {"faults", "blind"}) /\ Down
       \/ /\ Foreign(c) \/ ~(ReadsUnmapped(c, k) \/ Ops(c)[k] \in {"faults", "blind"})
          /\ \/ /\ Ops(c)[k] # "throws" \/ Foreign(c)
                /\ Iterate(c, "function") /\ UNCHANGED <<told, ret>>
             \/ (Ops(c)[k] = "throws" \/ Foreign(c)) /\ Fail(c)
          /\ read' = [read EXCEPT ![c] = @ \cup {sModelInfo}]
          /\ UNCHANGED <<device, call, supported, sModelInfo, mapped, overtaken, service>>

GenerateGraph(c) ==
    /\ Up(c, "function")
    /\ IF call[c].model.builds
       THEN Goto(c, "load", 1) /\ UNCHANGED <<told, ret>>
       ELSE Fail(c)
    /\ UNCHANGED <<device, call, supported, sModelInfo, read, mapped, overtaken, service>>

\* Not the code: no class has the try block.
CatchesNothing(d) == FALSE

\* Whether initialize() has a try block around what follows the graph.
CatchesLoad(d) == d = "CPU"

\* CNNNetwork, serialize and loadNetwork.
LoadNetwork(c) ==
    /\ Up(c, "load")
    /\ \/ call[c].model.loads /\ End(c, <<"NONE">>, "NONE") /\ UNCHANGED service
       \/ ~call[c].model.loads /\ CatchesLoad(device) /\ Fail(c) /\ UNCHANGED service
       \/ /\ ~call[c].model.loads /\ ~CatchesLoad(device)
          /\ service' = "down" /\ UNCHANGED <<at, told, ret>>
    /\ UNCHANGED <<device, call, supported, sModelInfo, read, mapped, overtaken>>

Quiescent ==
    /\ service = "down" \/ \A c \in Calls : at[c].pc = "done"
    /\ UNCHANGED vars

-----------------------------------------------------------------------------
Init ==
    /\ device \in DeviceTypes
    /\ at = [c \in Calls |-> [pc |-> "idle", k |-> 1]]
    /\ call = [c \in Calls |-> [method |-> "none"]]
    /\ told = [c \in Calls |-> <<>>]
    /\ ret = [c \in Calls |-> NoStatus]
    /\ supported = [c \in Calls |-> <<>>]
    /\ sModelInfo = NoCall
    /\ read = [c \in Calls |-> {}]
    /\ mapped = {}
    /\ overtaken = {}
    /\ service = "up"

Runs(c) ==
    \/ PrepareModel(c)
    \/ GetSupportedOperations(c)
    \/ PrepareModelFromCache(c)
    \/ InitRuntimeInfo(c)
    \/ CreateFactory(c)
    \/ CreateOperation(c)
    \/ ValidateOperation(c)
    \/ CreateInputParams(c)
    \/ ConnectOperation(c)
    \/ GenerateGraph(c)
    \/ LoadNetwork(c)

Next == (\E c \in Calls : Invoke(c) \/ Runs(c)) \/ Quiescent

\* The kernel schedules every binder thread that has a call to run.
Spec == Init /\ [][Next]_vars /\ \A c \in Calls : WF_vars(Runs(c))
-----------------------------------------------------------------------------
(* Properties.                                                             *)

PcType == {"idle", "check", "pools", "factory", "operations", "validate",
           "inputs", "connect", "function", "load", "done"}

Status == {"NONE", "GENERAL_FAILURE", "INVALID_ARGUMENT"}

ThreadsOK == at \in [Calls -> [pc : PcType, k : Nat \ {0}]]

AnswersOK ==
    /\ told \in [Calls -> Seq(Status)]
    /\ ret \in [Calls -> Status \cup {NoStatus}]

\* The vector of a query has an element for each operation.
SupportedOK(c) ==
    at[c].pc \notin {"idle", "check"} /\ call[c].method = "supported" =>
        supported[c] \in [DOMAIN Ops(c) -> BOOLEAN]

StaticOK ==
    /\ sModelInfo \in Calls \cup {NoCall}
    /\ read \in [Calls -> SUBSET Calls]
    /\ mapped \subseteq Calls /\ overtaken \subseteq Calls

\* The loops over operations stay within the model's.
LoopsOK ==
    \A c \in Calls :
        at[c].pc \in {"operations", "validate", "connect"} => at[c].k \in 1 .. Len(Ops(c))

\* The variables hold what the C++ types allow, no loop leaves the model's operations,
\* and the vector of a query has a verdict for each of them.
TypeOK ==
    /\ ThreadsOK /\ LoopsOK /\ AnswersOK /\ StaticOK
    /\ \A c \in Calls : at[c].pc # "idle" => call[c] \in Invocations
    /\ \A c \in Calls : SupportedOK(c)
    /\ device \in DeviceTypes /\ service \in {"up", "down"}

Prepared(c) == call[c].method = "prepare" /\ told[c] = <<"NONE">>

\* A preparation is notified at most once and not before it ends; NONE is
\* returned only with a notification, a model is handed out only with NONE,
\* and a call is refused without one only for its null callback, or for a
\* device that has no model class (Driver.cpp:110-138, 163-193, 265-298,
\* 393-424).
NotificationDiscipline ==
    \A c \in Calls :
        /\ Len(told[c]) <= 1
        /\ told[c] # <<>> => at[c].pc = "done"
        /\ at[c].pc = "done" =>
            /\ ret[c] = "NONE" => told[c] # <<>>
            /\ told[c] = <<"NONE">> => ret[c] = "NONE"
            /\ told[c] = <<>> => ~call[c].callback \/ ~HasModelClass(device)

\* A model is handed out only if every one of its operations has been
\* validated and connected, and, when no other creation got in between, from
\* its own model information and with its pools mapped.
PreparedFromOwnModel ==
    \A c \in Calls : Prepared(c) =>
        /\ Accepted(call[c]) /\ c \in mapped /\ OperandsKnown(c)
        /\ c \notin overtaken =>
            /\ read[c] = {c}
            /\ \A k \in DOMAIN Ops(c) : Ops(c)[k] \in {"plain", "scalar", "pooled"}

\* The two calls agree: a model that one client got prepared is a model all of
\* whose operations another is told are supported, unless a creation overtook
\* one of the two.
SupportAgrees ==
    \A c, d \in Calls :
        /\ Prepared(c) /\ c \notin overtaken
        /\ at[d].pc = "done" /\ call[d].method = "supported" /\ d \notin overtaken
        /\ call[c].model = call[d].model
        => told[d] = <<"NONE">> /\ \A k \in DOMAIN Ops(d) : supported[d][k]

\* What can end the service: a 1.3 preparation for a device without a model
\* class, a null callback of the 1.2 cache method, an exception of GNA's load,
\* a query that reads a constant in a pool, an operation that follows a null
\* pointer, or model information that has been replaced.  Every other failure
\* is contained in the call it strikes.
FailuresContained ==
    service = "down" =>
        \E c \in Calls :
            \/ /\ at[c].pc = "check" /\ call[c].version = "1.3"
               /\ ~HasModelClass(device)
            \/ at[c].pc = "check" /\ call[c].method = "cache" /\ ~call[c].callback
            \/ at[c].pc = "load" /\ device = "GNA"
            \/ call[c].method = "supported" /\ \E k \in DOMAIN Ops(c) : Ops(c)[k] = "pooled"
            \/ /\ at[c].pc \in {"validate", "connect"}
               /\ Ops(c)[at[c].k] \in {"faults", "blind"}
            \/ c \in overtaken

\* "if (len != sizeof(T)) ... nnAssert(false)" (ModelManager.cpp:131-134): the
\* operand an operation reads as its scalar constant is one.
ConstLengthMatches ==
    \A c \in Calls :
        at[c].pc \in {"validate", "connect"} /\ Ops(c)[at[c].k] = "scalar" =>
            LET found == call[sModelInfo].model.ops IN
            at[c].k \in DOMAIN found /\ found[at[c].k] = "scalar"

\* Every call returns, unless the service goes down.
EveryPreparationEnds ==
    \A c \in Calls : at[c].pc # "idle" ~> (at[c].pc = "done" \/ service = "down")
===============================================================================
