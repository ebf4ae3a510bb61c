----------------------- MODULE ModelPreparation_proofs -----------------------
(***************************************************************************)
(* Theorems about ModelPreparation that hold of any number of calls, any   *)
(* models and any interleaving, races on sModelInfo included: TypeOK,      *)
(* NotificationDiscipline, PreparedFromOwnModel, SupportAgrees and         *)
(* FailuresContained.                                                      *)
(***************************************************************************)
EXTENDS ModelPreparation, TLAPS

\* The steps between a call's checks and its end.
Working == {"pools", "factory", "operations", "validate", "inputs", "connect",
            "function", "load"}

Loops == {"operations", "validate", "connect"}

\* Only a call that passed its checks works: a preparation with a callback and
\* for a device that has a model class, or a query.
Admitted(c, pc) ==
    \/ call[c].method = "prepare" /\ call[c].callback /\ HasModelClass(device)
    \/ call[c].method = "supported" /\ pc \in {"factory", "operations", "validate"}

\* Of a call at its end, NotificationDiscipline.
EndOK(c) ==
    /\ Len(told[c]) <= 1
    /\ ret[c] = "NONE" => told[c] # <<>>
    /\ told[c] = <<"NONE">> => ret[c] = "NONE"
    /\ told[c] = <<>> => ~call[c].callback \/ ~HasModelClass(device)

ControlOK(c) ==
    /\ at[c].pc # "idle" => call[c] \in Invocations
    /\ at[c].pc # "done" => told[c] = <<>>
    /\ at[c].pc \in Working => Admitted(c, at[c].pc)
    /\ at[c].pc \in Loops => at[c].k \in 1 .. Len(Ops(c))
    /\ at[c].pc = "done" => EndOK(c)

\* Once a call translates, sModelInfo holds some call's information.
StaticSet == Translating # {} => sModelInfo \in Calls

CallsOK ==
    /\ ThreadsOK /\ AnswersOK /\ DOMAIN call = Calls
    /\ \A c \in Calls : ControlOK(c)

IInv ==
    /\ CallsOK /\ StaticOK /\ StaticSet
    /\ DOMAIN supported = Calls /\ \A c \in Calls : SupportedOK(c)
    /\ device \in DeviceTypes /\ service \in {"up", "down"}

-----------------------------------------------------------------------------
(* The building blocks of the actions.                                     *)

\* A call has a model with operations.
LEMMA OpsType ==
  ASSUME CallsOK, NEW c \in Calls, at[c].pc # "idle"
  PROVE  /\ call[c] \in InvocationType
         /\ Ops(c) \in Seq(OpKind) /\ Len(Ops(c)) \in Nat \ {0}
<1>1. call[c] \in InvocationType
  BY InvocationsAssumption DEF CallsOK, ControlOK
<1>2. call[c].model \in Models
  BY <1>1 DEF InvocationType
<1>3. Ops(c) \in Seq(OpKind) /\ Ops(c) # <<>>
  BY <1>2, ModelsAssumption DEF ModelType, Ops
<1>4. QED
  BY <1>1, <1>3

\* Nothing about the calls changes.
LEMMA StillKept ==
  ASSUME CallsOK, UNCHANGED <<device, at, call, told, ret>>
  PROVE  CallsOK'
<1>1. ThreadsOK' /\ AnswersOK'
  BY DEF CallsOK, ThreadsOK, AnswersOK
<1>2. ASSUME NEW c \in Calls PROVE ControlOK(c)'
  BY DEF CallsOK, ControlOK, Admitted, EndOK, Ops
<1>3. QED
  BY <1>1, <1>2 DEF CallsOK

\* The other calls are left alone.
LEMMA OthersKept ==
  ASSUME CallsOK, NEW c \in Calls, UNCHANGED <<device, call>>,
         \A d \in Calls : d # c => at'[d] = at[d] /\ told'[d] = told[d] /\ ret'[d] = ret[d]
  PROVE  \A d \in Calls : d # c => ControlOK(d)'
  BY DEF CallsOK, ControlOK, Admitted, EndOK, Ops

LEMMA GotoType ==
  ASSUME ThreadsOK, NEW c \in Calls, NEW pc \in PcType, NEW k \in Nat \ {0}, Goto(c, pc, k)
  PROVE  ThreadsOK' /\ at'[c].pc = pc /\ at'[c].k = k
         /\ \A d \in Calls : d # c => at'[d] = at[d]
  BY DEF ThreadsOK, Goto

\* A call goes on to a step it is admitted to.
LEMMA GotoKept ==
  ASSUME CallsOK, NEW c \in Calls, NEW pc \in Working, NEW k \in Nat \ {0},
         at[c].pc \notin {"idle", "done"}, Admitted(c, pc),
         pc \in Loops => k \in 1 .. Len(Ops(c)),
         Goto(c, pc, k), UNCHANGED <<device, call, told, ret>>
  PROVE  CallsOK'
<1>1. pc \in PcType /\ pc \notin {"idle", "done"}
  BY DEF Working, PcType
<1>2. ThreadsOK' /\ at'[c].pc = pc /\ at'[c].k = k
      /\ \A d \in Calls : d # c => at'[d] = at[d]
  BY <1>1, GotoType DEF CallsOK
<1>3. AnswersOK'
  BY DEF CallsOK, AnswersOK
<1>4. ControlOK(c)'
  <2>1. told'[c] = <<>> /\ call'[c] \in Invocations
    BY DEF CallsOK, ControlOK
  <2>2. Admitted(c, pc)' /\ Ops(c)' = Ops(c)
    BY DEF Admitted, Ops
  <2>3. QED
    BY <1>1, <1>2, <2>1, <2>2 DEF ControlOK
<1>5. \A d \in Calls : d # c => ControlOK(d)'
  BY <1>2, OthersKept
<1>6. QED
  BY <1>2, <1>3, <1>4, <1>5 DEF CallsOK

\* A loop goes on, or is left for a step the call is admitted to.
LEMMA IterateKept ==
  ASSUME CallsOK, NEW c \in Calls, NEW next \in Working,
         at[c].pc \in Loops, Admitted(c, next),
         Iterate(c, next), UNCHANGED <<device, call, told, ret>>
  PROVE  CallsOK'
<1>1. /\ at[c].pc \in Working /\ at[c].pc \notin {"idle", "done"}
      /\ at[c].k \in 1 .. Len(Ops(c)) /\ at[c].k \in Nat \ {0} /\ at[c].k + 1 \in Nat \ {0}
  BY DEF Loops, Working, CallsOK, ControlOK, ThreadsOK
<1>2. Len(Ops(c)) \in Nat \ {0}
  BY <1>1, OpsType
<1>3. Admitted(c, at[c].pc)
  BY <1>1 DEF CallsOK, ControlOK
<1>4. CASE at[c].k < Len(Ops(c))
  <2>1. at[c].k + 1 \in 1 .. Len(Ops(c)) /\ Goto(c, at[c].pc, at[c].k + 1)
    BY <1>1, <1>2, <1>4 DEF Iterate
  <2>2. QED
    BY <1>1, <1>3, <2>1, GotoKept
<1>5. CASE ~(at[c].k < Len(Ops(c)))
  <2>1. Goto(c, next, 1) /\ 1 \in Nat \ {0} /\ 1 \in 1 .. Len(Ops(c))
    BY <1>2, <1>5 DEF Iterate
  <2>2. QED
    BY <1>1, <2>1, GotoKept
<1>6. QED
  BY <1>4, <1>5

\* A call ends with one notification, or with none because it has no callback
\* or no model class.
LEMMA EndKept ==
  ASSUME CallsOK, NEW c \in Calls, NEW answer \in Seq(Status), NEW status \in Status,
         at[c].pc \notin {"idle", "done"},
         End(c, answer, status), UNCHANGED <<device, call>>,
         Len(answer) <= 1, status = "NONE" => answer # <<>>,
         answer = <<"NONE">> => status = "NONE",
         answer = <<>> => ~call[c].callback \/ ~HasModelClass(device)
  PROVE  CallsOK'
<1>1. told[c] = <<>> /\ call[c] \in Invocations
  BY DEF CallsOK, ControlOK
<1>2. told[c] \o answer = answer
  BY <1>1
<1>3. told' = [told EXCEPT ![c] = answer] /\ ret' = [ret EXCEPT ![c] = status]
  BY <1>2 DEF End, CallsOK, AnswersOK
<1>4. AnswersOK' /\ told'[c] = answer /\ ret'[c] = status
      /\ \A d \in Calls : d # c => told'[d] = told[d] /\ ret'[d] = ret[d]
  BY <1>3 DEF CallsOK, AnswersOK
<1>5. ThreadsOK' /\ at'[c].pc = "done" /\ \A d \in Calls : d # c => at'[d] = at[d]
  <2>1. "done" \in PcType /\ 1 \in Nat \ {0} /\ Goto(c, "done", 1)
    BY DEF PcType, End
  <2>2. QED
    BY <2>1, GotoType DEF CallsOK
<1>6. EndOK(c)'
  BY <1>4 DEF EndOK, HasModelClass
<1>7. ControlOK(c)'
  BY <1>1, <1>5, <1>6 DEF ControlOK, Working, Loops
<1>8. \A d \in Calls : d # c => ControlOK(d)'
  BY <1>4, <1>5, OthersKept
<1>9. QED
  BY <1>4, <1>5, <1>7, <1>8 DEF CallsOK

\* initialize() has failed: the client is told.
LEMMA FailKept ==
  ASSUME CallsOK, NEW c \in Calls, at[c].pc \notin {"idle", "done"},
         Fail(c), UNCHANGED <<device, call>>
  PROVE  CallsOK'
<1>1. <<"INVALID_ARGUMENT">> \in Seq(Status) /\ "NONE" \in Status
  BY DEF Status
<1>2. End(c, <<"INVALID_ARGUMENT">>, "NONE")
  BY DEF Fail
<1>3. Len(<<"INVALID_ARGUMENT">>) <= 1 /\ <<"INVALID_ARGUMENT">> # <<>>
      /\ <<"INVALID_ARGUMENT">> # <<"NONE">>
  OBVIOUS
<1>4. QED
  BY <1>1, <1>2, <1>3, EndKept

\* A call is refused with an error, that it is notified of or not.
LEMMA RefuseKept ==
  ASSUME CallsOK, NEW c \in Calls, NEW status \in Status \ {"NONE"},
         at[c].pc \notin {"idle", "done"}, UNCHANGED <<device, call>>,
         \/ End(c, <<status>>, status)
         \/ End(c, <<>>, status) /\ (~call[c].callback \/ ~HasModelClass(device))
  PROVE  CallsOK'
<1>1. <<status>> \in Seq(Status) /\ <<>> \in Seq(Status) /\ Len(<<status>>) <= 1
      /\ Len(<<>>) <= 1 /\ <<status>> # <<>> /\ <<status>> # <<"NONE">> /\ <<>> # <<"NONE">>
  OBVIOUS
<1>2. CASE End(c, <<status>>, status)
  BY <1>1, <1>2, EndKept
<1>3. CASE End(c, <<>>, status) /\ (~call[c].callback \/ ~HasModelClass(device))
  BY <1>1, <1>3, EndKept
<1>4. QED
  BY <1>2, <1>3

\* A call that works on is admitted to what it does, and to what follows it.
LEMMA StillAdmitted ==
  ASSUME CallsOK, NEW c \in Calls, at[c].pc \in Working
  PROVE  /\ at[c].pc \notin {"idle", "done"} /\ Admitted(c, at[c].pc)
         /\ call[c].method = "prepare" => \A pc \in Working : Admitted(c, pc)
  BY DEF CallsOK, ControlOK, Working, Admitted

-----------------------------------------------------------------------------
(* The actions: CallsOK.                                                   *)

LEMMA InvokeKept ==
  ASSUME CallsOK, NEW c \in Calls, Invoke(c)
  PROVE  CallsOK'
<1>1. /\ at[c].pc = "idle" /\ Goto(c, "check", 1)
      /\ UNCHANGED <<device, told, ret>> /\ "check" \in PcType /\ 1 \in Nat \ {0}
  BY DEF Invoke, Up, PcType
<1>2. PICK i \in Invocations : call' = [call EXCEPT ![c] = i]
  BY DEF Invoke
<1>3. /\ ThreadsOK' /\ at'[c].pc = "check" /\ \A d \in Calls : d # c => at'[d] = at[d]
  BY <1>1, GotoType DEF CallsOK
<1>4. AnswersOK'
  BY <1>1 DEF CallsOK, AnswersOK
<1>5. ASSUME NEW d \in Calls, d # c PROVE ControlOK(d)'
  <2>1. at'[d] = at[d]
    BY <1>3, <1>5
  <2>2. call'[d] = call[d]
    BY <1>2, <1>5
  <2>3. QED
    BY <1>1, <2>1, <2>2 DEF CallsOK, ControlOK, Admitted, EndOK, Ops
<1>6. ControlOK(c)'
  <2>1. call'[c] \in Invocations /\ told'[c] = <<>>
    BY <1>1, <1>2 DEF CallsOK, ControlOK
  <2>2. QED
    BY <1>3, <2>1 DEF ControlOK, Working, Loops
<1>7. DOMAIN call' = Calls
  BY <1>2 DEF CallsOK
<1>8. QED
  BY <1>3, <1>4, <1>5, <1>6, <1>7 DEF CallsOK

LEMMA PrepareModelKept ==
  ASSUME CallsOK, NEW c \in Calls, PrepareModel(c)
  PROVE  CallsOK'
<1>1. /\ at[c].pc = "check" /\ call[c].method = "prepare" /\ UNCHANGED <<device, call>>
      /\ at[c].pc \notin {"idle", "done"}
  BY DEF PrepareModel, Up
<1>2. "INVALID_ARGUMENT" \in Status \ {"NONE"}
  BY DEF Status
<1>3. CASE ~call[c].callback /\ End(c, <<>>, "INVALID_ARGUMENT")
  BY <1>1, <1>2, <1>3, RefuseKept
<1>4. CASE End(c, <<"INVALID_ARGUMENT">>, "INVALID_ARGUMENT")
  BY <1>1, <1>2, <1>4, RefuseKept
<1>5. CASE call[c].callback /\ HasModelClass(device) /\ Goto(c, "pools", 1) /\ UNCHANGED <<told, ret>>
  <2>1. "pools" \in Working /\ "pools" \notin Loops /\ 1 \in Nat \ {0}
    BY DEF Working, Loops
  <2>2. Admitted(c, "pools")
    BY <1>1, <1>5 DEF Admitted
  <2>3. QED
    BY <1>1, <1>5, <2>1, <2>2, GotoKept
<1>6. CASE ~HasModelClass(device) /\ End(c, <<>>, "INVALID_ARGUMENT")
  BY <1>1, <1>2, <1>6, RefuseKept
<1>7. CASE UNCHANGED <<at, told, ret>>
  BY <1>1, <1>7, StillKept
<1>8. QED
  BY <1>3, <1>4, <1>5, <1>6, <1>7 DEF PrepareModel

LEMMA GetSupportedOperationsKept ==
  ASSUME CallsOK, NEW c \in Calls, GetSupportedOperations(c)
  PROVE  CallsOK'
<1>1. /\ at[c].pc = "check" /\ call[c].method = "supported" /\ UNCHANGED <<device, call>>
      /\ at[c].pc \notin {"idle", "done"}
  BY DEF GetSupportedOperations, Up
<1>2. CASE Goto(c, "factory", 1) /\ UNCHANGED <<told, ret>>
  <2>1. "factory" \in Working /\ "factory" \notin Loops /\ 1 \in Nat \ {0}
    BY DEF Working, Loops
  <2>2. Admitted(c, "factory")
    BY <1>1 DEF Admitted
  <2>3. QED
    BY <1>1, <1>2, <2>1, <2>2, GotoKept
<1>3. CASE End(c, <<"INVALID_ARGUMENT">>, "NONE")
  BY <1>1, <1>3, FailKept DEF Fail
<1>4. QED
  BY <1>2, <1>3 DEF GetSupportedOperations

LEMMA PrepareModelFromCacheKept ==
  ASSUME CallsOK, NEW c \in Calls, PrepareModelFromCache(c)
  PROVE  CallsOK'
<1>1. at[c].pc \notin {"idle", "done"} /\ UNCHANGED <<device, call>>
  BY DEF PrepareModelFromCache, Up
<1>2. "INVALID_ARGUMENT" \in Status \ {"NONE"} /\ "GENERAL_FAILURE" \in Status \ {"NONE"}
  BY DEF Status
<1>3. CASE End(c, <<"GENERAL_FAILURE">>, "GENERAL_FAILURE")
  BY <1>1, <1>2, <1>3, RefuseKept
<1>4. CASE ~call[c].callback /\ End(c, <<>>, "INVALID_ARGUMENT")
  BY <1>1, <1>2, <1>4, RefuseKept
<1>5. CASE UNCHANGED <<at, told, ret>>
  BY <1>1, <1>5, StillKept
<1>6. QED
  BY <1>3, <1>4, <1>5 DEF PrepareModelFromCache

\* A step of initialize() outside the loops: on to pc, or a failure.
LEMMA StepKept ==
  ASSUME CallsOK, NEW c \in Calls, NEW pc \in Working, at[c].pc \in Working,
         Admitted(c, pc), UNCHANGED <<device, call>>,
         (Goto(c, pc, 1) /\ UNCHANGED <<told, ret>>) \/ Fail(c)
  PROVE  CallsOK'
<1>1. at[c].pc \notin {"idle", "done"} /\ 1 \in Nat \ {0}
  BY StillAdmitted
<1>2. 1 \in 1 .. Len(Ops(c))
  BY <1>1, OpsType
<1>3. CASE Goto(c, pc, 1) /\ UNCHANGED <<told, ret>>
  BY <1>1, <1>2, <1>3, GotoKept
<1>4. CASE Fail(c)
  BY <1>1, <1>4, FailKept
<1>5. QED
  BY <1>3, <1>4

LEMMA InitRuntimeInfoKept ==
  ASSUME CallsOK, NEW c \in Calls, InitRuntimeInfo(c)
  PROVE  CallsOK'
<1>1. at[c].pc = "pools" /\ at[c].pc \in Working /\ "factory" \in Working
      /\ UNCHANGED <<device, call>>
  BY DEF InitRuntimeInfo, Up, Working
<1>2. Admitted(c, "factory")
  BY <1>1, StillAdmitted DEF Admitted
<1>3. QED
  BY <1>1, <1>2, StepKept DEF InitRuntimeInfo

LEMMA CreateFactoryKept ==
  ASSUME CallsOK, NEW c \in Calls, CreateFactory(c)
  PROVE  CallsOK'
<1>1. at[c].pc = "factory" /\ at[c].pc \in Working /\ "operations" \in Working
      /\ UNCHANGED <<device, call, told, ret>> /\ Goto(c, "operations", 1)
  BY DEF CreateFactory, Up, Working
<1>2. Admitted(c, "operations")
  BY <1>1, StillAdmitted DEF Admitted
<1>3. QED
  BY <1>1, <1>2, StepKept

LEMMA CreateOperationKept ==
  ASSUME CallsOK, NEW c \in Calls, CreateOperation(c)
  PROVE  CallsOK'
<1>1. at[c].pc = "operations" /\ at[c].pc \in Working /\ at[c].pc \in Loops /\ "validate" \in Working
  BY DEF CreateOperation, Up, Working, Loops
<1>2. Admitted(c, "validate")
  BY <1>1, StillAdmitted DEF Admitted
<1>3. CASE Iterate(c, "validate") /\ UNCHANGED <<device, call, told, ret>>
  BY <1>1, <1>2, <1>3, IterateKept
<1>4. CASE Down
  BY <1>4, StillKept DEF Down
<1>5. QED
  BY <1>3, <1>4 DEF CreateOperation

LEMMA ValidateOperationKept ==
  ASSUME CallsOK, NEW c \in Calls, ValidateOperation(c)
  PROVE  CallsOK'
<1>1. /\ at[c].pc = "validate" /\ at[c].pc \in Working /\ at[c].pc \in Loops
      /\ "inputs" \in Working /\ at[c].pc \notin {"idle", "done"}
  BY DEF ValidateOperation, Up, Working, Loops
<1>2. CASE Down
  BY <1>2, StillKept DEF Down
<1>3. CASE /\ call[c].method = "prepare" /\ UNCHANGED <<device, call>>
           /\ (Iterate(c, "inputs") /\ UNCHANGED <<told, ret>>) \/ Fail(c)
  <2>1. Admitted(c, "inputs")
    BY <1>1, <1>3, StillAdmitted
  <2>2. CASE Iterate(c, "inputs") /\ UNCHANGED <<told, ret>>
    BY <1>1, <1>3, <2>1, <2>2, IterateKept
  <2>3. CASE Fail(c)
    BY <1>1, <1>3, <2>3, FailKept
  <2>4. QED
    BY <1>3, <2>2, <2>3
<1>4. CASE /\ call[c].method = "supported" /\ UNCHANGED <<device, call>>
           /\ \/ /\ at[c].k < Len(Ops(c)) /\ Iterate(c, "done") /\ UNCHANGED <<told, ret>>
              \/ End(c, <<"NONE">>, "NONE")
  <2>1. CASE at[c].k < Len(Ops(c)) /\ Iterate(c, "done") /\ UNCHANGED <<told, ret>>
    <3>2. Goto(c, at[c].pc, at[c].k + 1)
      BY <2>1 DEF Iterate
    <3>3. at[c].k + 1 \in 1 .. Len(Ops(c)) /\ at[c].k + 1 \in Nat \ {0}
      <4>1. at[c].k \in 1 .. Len(Ops(c)) /\ Len(Ops(c)) \in Nat
        BY <1>1, OpsType DEF CallsOK, ControlOK
      <4>2. QED
        BY <2>1, <4>1
    <3>4. Admitted(c, at[c].pc)
      BY <1>1, StillAdmitted
    <3>5. QED
      BY <1>1, <1>4, <2>1, <3>2, <3>3, <3>4, GotoKept
  <2>2. CASE End(c, <<"NONE">>, "NONE")
    <3>1. "NONE" \in Status /\ <<"NONE">> \in Seq(Status)
      BY DEF Status
    <3>2. Len(<<"NONE">>) <= 1 /\ <<"NONE">> # <<>>
      OBVIOUS
    <3>3. QED
      BY <1>1, <1>4, <2>2, <3>1, <3>2, EndKept
  <2>3. QED
    BY <1>4, <2>1, <2>2
<1>5. QED
  BY <1>2, <1>3, <1>4 DEF ValidateOperation

LEMMA CreateInputParamsKept ==
  ASSUME CallsOK, NEW c \in Calls, CreateInputParams(c)
  PROVE  CallsOK'
<1>1. at[c].pc = "inputs" /\ at[c].pc \in Working /\ "connect" \in Working
      /\ UNCHANGED <<device, call>>
  BY DEF CreateInputParams, Up, Working
<1>2. Admitted(c, "connect")
  BY <1>1, StillAdmitted DEF Admitted
<1>3. QED
  BY <1>1, <1>2, StepKept DEF CreateInputParams

LEMMA ConnectOperationKept ==
  ASSUME CallsOK, NEW c \in Calls, ConnectOperation(c)
  PROVE  CallsOK'
<1>1. /\ at[c].pc = "connect" /\ at[c].pc \in Working /\ at[c].pc \in Loops
      /\ "function" \in Working /\ at[c].pc \notin {"idle", "done"}
  BY DEF ConnectOperation, Up, Working, Loops
<1>2. Admitted(c, "function")
  BY <1>1, StillAdmitted DEF Admitted
<1>3. CASE Down
  BY <1>3, StillKept DEF Down
<1>4. CASE Iterate(c, "function") /\ UNCHANGED <<device, call, told, ret>>
  BY <1>1, <1>2, <1>4, IterateKept
<1>5. CASE Fail(c) /\ UNCHANGED <<device, call>>
  BY <1>1, <1>5, FailKept
<1>6. QED
  BY <1>3, <1>4, <1>5 DEF ConnectOperation

LEMMA GenerateGraphKept ==
  ASSUME CallsOK, NEW c \in Calls, GenerateGraph(c)
  PROVE  CallsOK'
<1>1. at[c].pc = "function" /\ at[c].pc \in Working /\ "load" \in Working
      /\ UNCHANGED <<device, call>>
  BY DEF GenerateGraph, Up, Working
<1>2. Admitted(c, "load")
  BY <1>1, StillAdmitted DEF Admitted
<1>3. QED
  BY <1>1, <1>2, StepKept DEF GenerateGraph

LEMMA LoadNetworkKept ==
  ASSUME CallsOK, NEW c \in Calls, LoadNetwork(c)
  PROVE  CallsOK'
<1>1. at[c].pc \notin {"idle", "done"} /\ UNCHANGED <<device, call>>
  BY DEF LoadNetwork, Up
<1>2. CASE End(c, <<"NONE">>, "NONE")
  <2>1. "NONE" \in Status /\ <<"NONE">> \in Seq(Status)
    BY DEF Status
  <2>2. Len(<<"NONE">>) <= 1 /\ <<"NONE">> # <<>>
    OBVIOUS
  <2>3. QED
    BY <1>1, <1>2, <2>1, <2>2, EndKept
<1>3. CASE Fail(c)
  BY <1>1, <1>3, FailKept
<1>4. CASE UNCHANGED <<at, told, ret>>
  BY <1>1, <1>4, StillKept
<1>5. QED
  BY <1>2, <1>3, <1>4 DEF LoadNetwork

LEMMA NextCallsOK ==
  ASSUME CallsOK, [Next]_vars
  PROVE  CallsOK'
<1>1. ASSUME NEW c \in Calls, Invoke(c) PROVE CallsOK'
  BY <1>1, InvokeKept
<1>2. ASSUME NEW c \in Calls, Runs(c) PROVE CallsOK'
  BY <1>2, PrepareModelKept, GetSupportedOperationsKept, PrepareModelFromCacheKept,
     InitRuntimeInfoKept, CreateFactoryKept, CreateOperationKept, ValidateOperationKept,
     CreateInputParamsKept, ConnectOperationKept, GenerateGraphKept, LoadNetworkKept DEF Runs
<1>3. CASE UNCHANGED vars
  BY <1>3, StillKept DEF vars
<1>4. QED
  BY <1>1, <1>2, <1>3 DEF Next, Quiescent

-----------------------------------------------------------------------------
(* The static and the vectors of getSupportedOperations.                   *)

\* Where the step of a call can take it: on, within a loop, or to its end.
Moves(c) ==
    \/ UNCHANGED at
    \/ \E k \in Nat \ {0} : Goto(c, at[c].pc, k)
    \/ \E pc \in {"check", "pools", "factory", "operations", "validate", "inputs",
                  "connect", "function", "load", "done"} : Goto(c, pc, 1)

LEMMA IterateMoves ==
  ASSUME ThreadsOK, NEW c \in Calls, NEW next \in {"validate", "inputs", "function", "done"},
         Iterate(c, next)
  PROVE  Moves(c)
<1>1. at[c].k + 1 \in Nat \ {0}
  BY DEF ThreadsOK
<1>2. QED
  BY <1>1 DEF Iterate, Moves

LEMMA EndMoves ==
  ASSUME NEW c \in Calls, NEW answer, NEW status, End(c, answer, status)
  PROVE  Moves(c)
  BY DEF End, Moves

LEMMA FailMoves ==
  ASSUME NEW c \in Calls, Fail(c)
  PROVE  Moves(c)
  BY EndMoves DEF Fail

LEMMA RunsMoves ==
  ASSUME ThreadsOK, NEW c \in Calls, Runs(c)
  PROVE  Moves(c)
<1>1. CASE PrepareModel(c)
  BY <1>1, EndMoves DEF PrepareModel, Moves
<1>2. CASE GetSupportedOperations(c)
  BY <1>2, EndMoves DEF GetSupportedOperations, Moves
<1>3. CASE PrepareModelFromCache(c)
  BY <1>3, EndMoves DEF PrepareModelFromCache, Moves
<1>4. CASE InitRuntimeInfo(c)
  BY <1>4, FailMoves DEF InitRuntimeInfo, Moves
<1>5. CASE CreateFactory(c)
  BY <1>5 DEF CreateFactory, Moves
<1>6. CASE CreateOperation(c)
  BY <1>6, IterateMoves DEF CreateOperation, Down, Moves
<1>7. CASE ValidateOperation(c)
  BY <1>7, IterateMoves, FailMoves, EndMoves DEF ValidateOperation, Down, Moves
<1>8. CASE CreateInputParams(c)
  BY <1>8, FailMoves DEF CreateInputParams, Moves
<1>9. CASE ConnectOperation(c)
  BY <1>9, IterateMoves, FailMoves DEF ConnectOperation, Down, Moves
<1>10. CASE GenerateGraph(c)
  BY <1>10, FailMoves DEF GenerateGraph, Moves
<1>11. CASE LoadNetwork(c)
  BY <1>11, FailMoves, EndMoves DEF LoadNetwork, Moves
<1>12. QED
  BY <1>1, <1>2, <1>3, <1>4, <1>5, <1>6, <1>7, <1>8, <1>9, <1>10, <1>11 DEF Runs

LEMMA MovesOne ==
  ASSUME ThreadsOK, NEW c \in Calls, Moves(c)
  PROVE  \A d \in Calls : d # c => at'[d] = at[d]
  BY DEF ThreadsOK, Moves, Goto

\* A call's vector stands: the call is beyond its checks, or is no query.
LEMMA VectorStands ==
  ASSUME NEW c \in Calls, SupportedOK(c), call'[c] = call[c], supported'[c] = supported[c],
         \/ at[c].pc \notin {"idle", "check"}
         \/ at'[c] = at[c]
         \/ call[c].method # "supported"
  PROVE  SupportedOK(c)'
  BY DEF SupportedOK, Ops

LEMMA RunsVectors ==
  ASSUME IInv, NEW c \in Calls, Runs(c)
  PROVE  DOMAIN supported' = Calls /\ \A d \in Calls : SupportedOK(d)'
<1>1. UNCHANGED call
  BY DEF Runs, PrepareModel, GetSupportedOperations, PrepareModelFromCache, InitRuntimeInfo,
     CreateFactory, CreateOperation, ValidateOperation, CreateInputParams, ConnectOperation,
     GenerateGraph, LoadNetwork, Down
<1>2. \A d \in Calls : d # c => at'[d] = at[d]
  BY RunsMoves, MovesOne DEF IInv, CallsOK
<1>3. CASE UNCHANGED supported /\ (at[c].pc \notin {"idle", "check"} \/ call[c].method # "supported")
  BY <1>1, <1>2, <1>3, VectorStands DEF IInv
<1>4. CASE GetSupportedOperations(c)
  <2>1. /\ supported' = [supported EXCEPT ![c] = Verdicts(c)]
        /\ supported'[c] = Verdicts(c)
        /\ \A d \in Calls : d # c => supported'[d] = supported[d]
    BY <1>4 DEF GetSupportedOperations, IInv
  <2>2. Verdicts(c) \in [DOMAIN Ops(c) -> BOOLEAN]
    BY DEF Verdicts
  <2>3. SupportedOK(c)'
    BY <1>1, <2>1, <2>2 DEF SupportedOK, Ops
  <2>4. \A d \in Calls : d # c => SupportedOK(d)'
    BY <1>1, <1>2, <2>1, VectorStands DEF IInv
  <2>5. DOMAIN supported' = Calls
    BY <2>1 DEF IInv
  <2>6. QED
    BY <2>3, <2>4, <2>5
<1>5. CASE /\ at[c].pc = "validate" /\ call[c].method = "supported"
           /\ \E ok \in BOOLEAN : supported' = [supported EXCEPT ![c][at[c].k] = ok]
  <2>1. PICK ok \in BOOLEAN : supported' = [supported EXCEPT ![c][at[c].k] = ok]
    BY <1>5
  <2>2. /\ supported'[c] = [supported[c] EXCEPT ![at[c].k] = ok]
        /\ \A d \in Calls : d # c => supported'[d] = supported[d]
    BY <2>1 DEF IInv
  <2>3. supported[c] \in [DOMAIN Ops(c) -> BOOLEAN]
    BY <1>5 DEF IInv, SupportedOK
  <2>4. supported'[c] \in [DOMAIN Ops(c) -> BOOLEAN]
    BY <2>2, <2>3
  <2>5. SupportedOK(c)'
    BY <1>1, <2>4 DEF SupportedOK, Ops
  <2>6. \A d \in Calls : d # c => SupportedOK(d)'
    BY <1>1, <1>2, <2>2, VectorStands DEF IInv
  <2>7. DOMAIN supported' = Calls
    BY <2>1 DEF IInv
  <2>8. QED
    BY <2>5, <2>6, <2>7
<1>6. CASE ValidateOperation(c)
  <2>1. Validates(c, at[c].k) \subseteq BOOLEAN
    BY DEF Validates
  <2>2. QED
    BY <1>3, <1>5, <1>6, <2>1 DEF ValidateOperation, Up, Down
<1>7. CASE PrepareModel(c) \/ PrepareModelFromCache(c)
  BY <1>3, <1>7 DEF PrepareModel, PrepareModelFromCache
<1>8. CASE InitRuntimeInfo(c) \/ CreateFactory(c) \/ CreateOperation(c)
  BY <1>3, <1>8 DEF InitRuntimeInfo, CreateFactory, CreateOperation, Up, Down
<1>9. CASE CreateInputParams(c) \/ ConnectOperation(c) \/ GenerateGraph(c) \/ LoadNetwork(c)
  BY <1>3, <1>9 DEF CreateInputParams, ConnectOperation, GenerateGraph, LoadNetwork, Up, Down
<1>10. QED
  BY <1>4, <1>6, <1>7, <1>8, <1>9 DEF Runs

\* A step that does not begin a translation leaves sModelInfo set.
LEMMA StaticStands ==
  ASSUME ThreadsOK, StaticSet, NEW c \in Calls, Moves(c), UNCHANGED sModelInfo,
         at'[c].pc \in {"operations", "validate", "inputs", "connect"} => c \in Translating
  PROVE  StaticSet'
<1>1. Translating' \subseteq Translating
  BY MovesOne DEF Translating
<1>2. QED
  BY <1>1 DEF StaticSet

LEMMA RunsStatic ==
  ASSUME IInv, NEW c \in Calls, Runs(c)
  PROVE  StaticOK' /\ StaticSet'
<1>1. ThreadsOK /\ StaticSet /\ Moves(c)
  BY RunsMoves DEF IInv, CallsOK
<1>2. CASE CreateFactory(c)
  BY <1>2 DEF CreateFactory, Latest, IInv, StaticOK, StaticSet, Translating
<1>3. CASE c \in Translating /\ UNCHANGED <<sModelInfo, mapped, overtaken>>
           /\ read' \in {read, [read EXCEPT ![c] = @ \cup {sModelInfo}]}
  <2>1. StaticSet'
    BY <1>1, <1>3, StaticStands
  <2>2. sModelInfo \in Calls
    BY <1>1, <1>3 DEF StaticSet
  <2>3. StaticOK'
    BY <1>3, <2>2 DEF IInv, StaticOK
  <2>4. QED
    BY <2>1, <2>3
<1>4. CASE CreateOperation(c) \/ ValidateOperation(c) \/ CreateInputParams(c) \/ ConnectOperation(c)
  <2>1. c \in Translating
    BY <1>4 DEF CreateOperation, ValidateOperation, CreateInputParams, ConnectOperation, Up,
       Translating
  <2>2. QED
    BY <1>3, <1>4, <2>1 DEF CreateOperation, ValidateOperation, CreateInputParams,
       ConnectOperation, Down
<1>5. CASE /\ UNCHANGED <<sModelInfo, read, overtaken>> /\ mapped' \in {mapped, mapped \cup {c}}
           /\ at'[c].pc \notin {"operations", "validate", "inputs", "connect"}
  <2>1. StaticSet'
    BY <1>1, <1>5, StaticStands
  <2>2. QED
    BY <1>5, <2>1 DEF IInv, StaticOK
<1>6. CASE \/ PrepareModel(c) \/ GetSupportedOperations(c) \/ PrepareModelFromCache(c)
           \/ GenerateGraph(c) \/ LoadNetwork(c) \/ InitRuntimeInfo(c)
  <2>1. /\ UNCHANGED <<sModelInfo, read, overtaken>> /\ mapped' \in {mapped, mapped \cup {c}}
    BY <1>6 DEF PrepareModel, GetSupportedOperations, PrepareModelFromCache, GenerateGraph,
       LoadNetwork, InitRuntimeInfo
  <2>2. \A pc \in PcType : Goto(c, pc, 1) => at'[c].pc = pc
    BY <1>1 DEF ThreadsOK, Goto
  <2>3. at'[c].pc \in {"check", "pools", "factory", "load", "function", "done"}
    <3>1. at[c].pc \in {"check", "pools", "function", "load"}
      BY <1>6 DEF PrepareModel, GetSupportedOperations, PrepareModelFromCache, GenerateGraph,
         LoadNetwork, InitRuntimeInfo, Up
    <3>2. \E pc \in {"pools", "factory", "load", "done"} : UNCHANGED at \/ Goto(c, pc, 1)
      BY <1>6 DEF PrepareModel, GetSupportedOperations, PrepareModelFromCache, GenerateGraph,
         LoadNetwork, InitRuntimeInfo, Fail, End
    <3>3. {"pools", "factory", "load", "done"} \subseteq PcType
      BY DEF PcType
    <3>4. QED
      BY <2>2, <3>1, <3>2, <3>3
  <2>4. QED
    BY <1>5, <2>1, <2>3
<1>7. QED
  BY <1>2, <1>4, <1>6 DEF Runs

\* The service is up or down, the device stays.
LEMMA RunsScalars ==
  ASSUME IInv, NEW c \in Calls, Runs(c)
  PROVE  device' \in DeviceTypes /\ service' \in {"up", "down"}
  BY DEF IInv, Runs, PrepareModel, GetSupportedOperations, PrepareModelFromCache,
     InitRuntimeInfo, CreateFactory, CreateOperation, ValidateOperation, CreateInputParams,
     ConnectOperation, GenerateGraph, LoadNetwork, Down

-----------------------------------------------------------------------------
(* The inductive invariant and the theorems.                               *)

LEMMA InitIInv == Init => IInv
<1> SUFFICES ASSUME Init PROVE IInv
  OBVIOUS
<1>1. ThreadsOK /\ AnswersOK /\ DOMAIN call = Calls
  BY DEF Init, ThreadsOK, AnswersOK, PcType
<1>2. \A c \in Calls : ControlOK(c) /\ SupportedOK(c)
  BY DEF Init, ControlOK, SupportedOK, Working, Loops
<1>3. StaticOK /\ StaticSet
  BY DEF Init, StaticOK, StaticSet, Translating
<1>4. QED
  BY <1>1, <1>2, <1>3 DEF Init, IInv, CallsOK

LEMMA NextIInv == IInv /\ [Next]_vars => IInv'
<1> SUFFICES ASSUME IInv, [Next]_vars PROVE IInv'
  OBVIOUS
<1>1. CallsOK'
  BY NextCallsOK DEF IInv
<1>2. ASSUME NEW c \in Calls, Runs(c) PROVE IInv'
  BY <1>1, <1>2, RunsVectors, RunsStatic, RunsScalars DEF IInv
<1>3. ASSUME NEW c \in Calls, Invoke(c) PROVE IInv'
  <2>1. /\ UNCHANGED <<device, supported, sModelInfo, read, mapped, overtaken, service>>
        /\ at'[c].pc = "check" /\ Moves(c)
        /\ \A d \in Calls : d # c => call'[d] = call[d]
    BY <1>3 DEF Invoke, Up, Moves, Goto, IInv, CallsOK, ThreadsOK
  <2>2. \A d \in Calls : d # c => at'[d] = at[d]
    BY <2>1, MovesOne DEF IInv, CallsOK
  <2>3. \A d \in Calls : SupportedOK(d)'
    <3>1. SupportedOK(c)'
      BY <2>1 DEF SupportedOK
    <3>2. \A d \in Calls : d # c => SupportedOK(d)'
      BY <2>1, <2>2, VectorStands DEF IInv
    <3>3. QED
      BY <3>1, <3>2
  <2>4. StaticOK' /\ StaticSet'
    BY <2>1, StaticStands DEF IInv, CallsOK, StaticOK
  <2>5. QED
    BY <1>1, <2>1, <2>3, <2>4 DEF IInv
<1>4. CASE UNCHANGED vars
  <2>1. \A c \in Calls : SupportedOK(c)'
    BY <1>4 DEF vars, IInv, SupportedOK, Ops
  <2>2. StaticOK' /\ StaticSet'
    BY <1>4 DEF vars, IInv, StaticOK, StaticSet, Translating
  <2>3. QED
    BY <1>1, <1>4, <2>1, <2>2 DEF vars, IInv
<1>5. QED
  BY <1>2, <1>3, <1>4 DEF Next, Quiescent

LEMMA Invariance == Spec => []IInv
  BY InitIInv, NextIInv, PTL DEF Spec

\* The variables hold what the C++ types allow, the loops stay within the model's
\* operations, and a query's vector has a verdict for each, for any number of
\* calls and any models.
THEOREM TypeCorrect == Spec => []TypeOK
<1>1. IInv => TypeOK
  BY DEF IInv, CallsOK, ControlOK, TypeOK, LoopsOK, Loops
<1>2. QED
  BY <1>1, Invariance, PTL

\* Every preparation and every query ends with one answer and no sooner, and a
\* model is handed out only with NONE, whatever the models and however the
\* calls interleave.
THEOREM NotificationsDisciplined == Spec => []NotificationDiscipline
<1>1. ASSUME IInv PROVE NotificationDiscipline
  <2>1. ASSUME NEW c \in Calls, at[c].pc # "done" PROVE told[c] = <<>> /\ Len(told[c]) <= 1
    BY <1>1, <2>1 DEF IInv, CallsOK, ControlOK
  <2>2. ASSUME NEW c \in Calls, at[c].pc = "done" PROVE EndOK(c)
    BY <1>1, <2>2 DEF IInv, CallsOK, ControlOK
  <2>3. QED
    BY <2>1, <2>2 DEF EndOK, NotificationDiscipline
<1>2. QED
  BY <1>1, Invariance, PTL

-----------------------------------------------------------------------------
(* What a model has been through: the invariant.                           *)

\* The operations validate() passes, and of these the ones createNode() makes.
Valid == {"plain", "scalar", "pooled", "throws", "faults"}
Made  == {"plain", "scalar", "pooled"}

\* The first n operations of c are in the set.
AllIn(c, n, set) == \A j \in 1 .. n : Ops(c)[j] \in set

\* The verdicts on the first n operations of c: what validate() passes is
\* supported.
Judged(c, n) == \A j \in 1 .. n : Ops(c)[j] \in Valid => supported[c][j] = TRUE

\* The steps of initialize() that follow the validation of the operations.
Checked == {"inputs", "connect", "function", "load"}

\* What holds of the model of c whatever the other calls do.
ModelOK(c) ==
    /\ at[c].pc \in {"idle", "check", "pools", "factory"} => read[c] = {}
    /\ call[c].method = "prepare" /\ (at[c].pc \in Working \/ Prepared(c)) => Accepted(call[c])
    /\ call[c].method = "prepare" /\ (at[c].pc \in Working \ {"pools"} \/ Prepared(c)) =>
        c \in mapped /\ OperandsKnown(c)
    /\ call[c].method = "supported" /\ at[c].pc = "done" /\ call[c].model.valid =>
        told[c] = <<"NONE">>

\* What holds of it while no other creation has set sModelInfo.
OwnOK(c) ==
    c \notin overtaken =>
        /\ c \in Translating => sModelInfo = c
        /\ read[c] \subseteq {c}
        /\ call[c].method = "prepare" =>
            /\ at[c].pc = "validate" =>
                AllIn(c, at[c].k - 1, Valid) /\ (at[c].k > 1 => read[c] = {c})
            /\ at[c].pc \in Checked \/ Prepared(c) =>
                AllIn(c, Len(Ops(c)), Valid) /\ read[c] = {c}
            /\ at[c].pc = "connect" => AllIn(c, at[c].k - 1, Made)
            /\ at[c].pc \in {"function", "load"} \/ Prepared(c) => AllIn(c, Len(Ops(c)), Made)
        /\ call[c].method = "supported" =>
            /\ at[c].pc = "validate" => Judged(c, at[c].k - 1)
            /\ told[c] = <<"NONE">> => Judged(c, Len(Ops(c)))

ModelsOK == \A c \in Calls : ModelOK(c) /\ OwnOK(c)

\* A call that another one's step leaves alone, except that sModelInfo may be
\* set, which makes it overtaken if it translates.
LEMMA OtherModel ==
  ASSUME NEW c \in Calls, ModelOK(c), OwnOK(c),
         at'[c] = at[c], call'[c] = call[c], told'[c] = told[c], read'[c] = read[c],
         supported'[c] = supported[c], mapped \subseteq mapped', overtaken \subseteq overtaken',
         sModelInfo' = sModelInfo \/ c \notin Translating \/ c \in overtaken'
  PROVE  ModelOK(c)' /\ OwnOK(c)'
<1>1. ModelOK(c)'
  BY DEF ModelOK, Prepared, OperandsKnown, Accepted
<1>2. (c \in Translating)' <=> c \in Translating
  BY DEF Translating
<1>3. /\ Ops(c)' = Ops(c) /\ (Prepared(c)' <=> Prepared(c))
      /\ \A n, set : AllIn(c, n, set)' <=> AllIn(c, n, set)
      /\ \A n : Judged(c, n)' <=> Judged(c, n)
  BY DEF Ops, Prepared, AllIn, Judged
<1>4. OwnOK(c)'
  BY <1>2, <1>3 DEF OwnOK
<1>5. QED
  BY <1>1, <1>4

\* A call that has ended without NONE.
LEMMA RefusedModel ==
  ASSUME NEW c \in Calls, at'[c].pc = "done", told'[c] # <<"NONE">>,
         ~(call'[c].method = "supported" /\ call'[c].model.valid),
         c \notin overtaken' => read'[c] \subseteq {c}
  PROVE  ModelOK(c)' /\ OwnOK(c)'
<1>1. ModelOK(c)'
  BY DEF ModelOK, Prepared, Working
<1>2. OwnOK(c)'
  BY DEF OwnOK, Prepared, Checked, Translating
<1>3. QED
  BY <1>1, <1>2

\* How a call ends.
LEMMA EndsAs ==
  ASSUME IInv, NEW c \in Calls, at[c].pc \notin {"idle", "done"}, NEW answer \in Seq(Status),
         NEW status, End(c, answer, status)
  PROVE  /\ at'[c].pc = "done" /\ told'[c] = answer
         /\ \A d \in Calls : d # c => told'[d] = told[d]
<1>1. told[c] = <<>> /\ told \in [Calls -> Seq(Status)] /\ at \in [Calls -> [pc : PcType, k : Nat \ {0}]]
  BY DEF IInv, CallsOK, ControlOK, ThreadsOK, AnswersOK
<1>2. told[c] \o answer = answer
  BY <1>1
<1>3. QED
  BY <1>1, <1>2 DEF End, Goto

LEMMA FailsAs ==
  ASSUME IInv, NEW c \in Calls, at[c].pc \notin {"idle", "done"}, Fail(c)
  PROVE  /\ at'[c].pc = "done" /\ told'[c] # <<"NONE">>
         /\ \A d \in Calls : d # c => told'[d] = told[d]
<1>1. <<"INVALID_ARGUMENT">> \in Seq(Status) /\ <<"INVALID_ARGUMENT">> # <<"NONE">>
  BY DEF Status
<1>2. QED
  BY <1>1, EndsAs DEF Fail

\* What the step of a call does to the others.
LEMMA RunsOthers ==
  ASSUME IInv, ModelsOK, NEW c \in Calls, Runs(c)
  PROVE  \A d \in Calls : d # c => ModelOK(d)' /\ OwnOK(d)'
<1>1. UNCHANGED call
  BY DEF Runs, PrepareModel, GetSupportedOperations, PrepareModelFromCache, InitRuntimeInfo,
     CreateFactory, CreateOperation, ValidateOperation, CreateInputParams, ConnectOperation,
     GenerateGraph, LoadNetwork, Down
<1>2. \A d \in Calls : d # c => at'[d] = at[d]
  BY RunsMoves, MovesOne DEF IInv, CallsOK
<1>3. mapped \subseteq mapped' /\ overtaken \subseteq overtaken'
  BY DEF Runs, PrepareModel, GetSupportedOperations, PrepareModelFromCache, InitRuntimeInfo,
     CreateFactory, CreateOperation, ValidateOperation, CreateInputParams, ConnectOperation,
     GenerateGraph, LoadNetwork, Down
<1>4. sModelInfo' = sModelInfo \/ overtaken' = overtaken \cup (Translating \ {c})
  BY DEF Runs, PrepareModel, GetSupportedOperations, PrepareModelFromCache, InitRuntimeInfo,
     CreateFactory, CreateOperation, ValidateOperation, CreateInputParams, ConnectOperation,
     GenerateGraph, LoadNetwork, Down
<1>5. \A d \in Calls : d # c => read'[d] = read[d]
  <2>1. DOMAIN read = Calls
    BY DEF IInv, StaticOK
  <2>2. QED
    BY <2>1 DEF Runs, PrepareModel, GetSupportedOperations, PrepareModelFromCache,
       InitRuntimeInfo, CreateFactory, CreateOperation, ValidateOperation, CreateInputParams,
       ConnectOperation, GenerateGraph, LoadNetwork, Down
<1>6. \A d \in Calls : d # c => supported'[d] = supported[d]
  BY DEF IInv, Runs, PrepareModel, GetSupportedOperations, PrepareModelFromCache,
     InitRuntimeInfo, CreateFactory, CreateOperation, ValidateOperation, CreateInputParams,
     ConnectOperation, GenerateGraph, LoadNetwork, Down
<1>7. \A d \in Calls : d # c => told'[d] = told[d]
  <2>1. DOMAIN told = Calls
    BY DEF IInv, CallsOK, AnswersOK
  <2>2. QED
    BY <2>1 DEF Runs, PrepareModel, GetSupportedOperations, PrepareModelFromCache,
       InitRuntimeInfo, CreateFactory, CreateOperation, ValidateOperation, CreateInputParams,
       ConnectOperation, GenerateGraph, LoadNetwork, Down, Fail, End
<1>8. ASSUME NEW d \in Calls, d # c PROVE ModelOK(d)' /\ OwnOK(d)'
  <2>1. sModelInfo' = sModelInfo \/ d \notin Translating \/ d \in overtaken'
    BY <1>4, <1>8
  <2>2. ModelOK(d) /\ OwnOK(d)
    BY DEF ModelsOK
  <2>3. QED
    BY <1>1, <1>2, <1>3, <1>5, <1>6, <1>7, <1>8, <2>1, <2>2, OtherModel
<1>9. QED
  BY <1>8

\* Facts about a call that works that the steps below keep citing.
LEMMA OwnFacts ==
  ASSUME IInv, ModelsOK, NEW c \in Calls, at[c].pc \notin {"idle", "done"}
  PROVE  /\ told[c] = <<>> /\ ~Prepared(c) /\ Len(Ops(c)) \in Nat \ {0}
         /\ at[c].k \in Nat \ {0} /\ (at[c].pc \in Loops => at[c].k \in 1 .. Len(Ops(c)))
         /\ Ops(c) \in Seq(OpKind) /\ DOMAIN read = Calls /\ DOMAIN told = Calls
         /\ DOMAIN at = Calls /\ ModelOK(c) /\ OwnOK(c)
         /\ at[c].pc \in Working =>
                call[c].method = "prepare"
                \/ (call[c].method = "supported" /\ at[c].pc \in {"factory", "operations", "validate"})
<1>1. told[c] = <<>> /\ DOMAIN told = Calls /\ DOMAIN at = Calls
  BY DEF IInv, CallsOK, ControlOK, ThreadsOK, AnswersOK
<1>2. Len(Ops(c)) \in Nat \ {0} /\ Ops(c) \in Seq(OpKind)
  BY OpsType DEF IInv
<1>3. DOMAIN read = Calls
  BY DEF IInv, StaticOK
<1>4. ~Prepared(c)
  BY <1>1 DEF Prepared
<1>5. ModelOK(c) /\ OwnOK(c)
  BY DEF ModelsOK
<1>6. at[c].pc \in Working =>
        call[c].method = "prepare"
        \/ (call[c].method = "supported" /\ at[c].pc \in {"factory", "operations", "validate"})
  BY DEF IInv, CallsOK, ControlOK, Admitted
<1>7. /\ at[c].pc \in Loops => at[c].k \in 1 .. Len(Ops(c))
      /\ at[c].k \in Nat \ {0}
  BY DEF IInv, CallsOK, ControlOK, ThreadsOK
<1>8. QED
  BY <1>1, <1>2, <1>3, <1>4, <1>5, <1>6, <1>7

\* A loop of c goes on by one, or is left for the first iteration of the next.
LEMMA IteratesAs ==
  ASSUME IInv, NEW c \in Calls, NEW next, at[c].pc \in Loops, Iterate(c, next)
  PROVE  \/ at'[c] = [pc |-> at[c].pc, k |-> at[c].k + 1] /\ at[c].k < Len(Ops(c))
         \/ at'[c] = [pc |-> next, k |-> 1] /\ at[c].k = Len(Ops(c))
<1>1. /\ DOMAIN at = Calls /\ at[c].pc \notin {"idle", "done"} /\ at[c].k \in Nat
      /\ at[c].k \in 1 .. Len(Ops(c))
  BY DEF IInv, CallsOK, ThreadsOK, ControlOK, Loops
<1>2. Len(Ops(c)) \in Nat
  BY <1>1, OpsType DEF IInv
<1>3. QED
  BY <1>1, <1>2 DEF Iterate, Goto

\* One more operation is in the set.
LEMMA OneMore ==
  ASSUME NEW c \in Calls, NEW set, NEW k \in Nat \ {0}, AllIn(c, k - 1, set), Ops(c)[k] \in set
  PROVE  AllIn(c, k, set)
<1>1. ASSUME NEW j \in 1 .. k PROVE Ops(c)[j] \in set
  <2>1. j = k \/ j \in 1 .. k - 1
    OBVIOUS
  <2>2. QED
    BY <2>1 DEF AllIn
<1>2. QED
  BY <1>1 DEF AllIn

LEMMA InvokeModels ==
  ASSUME IInv, ModelsOK, NEW c \in Calls, Invoke(c)
  PROVE  ModelsOK'
<1>1. /\ at[c].pc = "idle" /\ at'[c].pc = "check" /\ \A d \in Calls : d # c => at'[d] = at[d]
      /\ \A d \in Calls : d # c => call'[d] = call[d]
      /\ UNCHANGED <<told, supported, sModelInfo, read, mapped, overtaken>> /\ told[c] = <<>>
  BY DEF Invoke, Up, Goto, IInv, CallsOK, ControlOK, ThreadsOK
<1>2. ModelOK(c)' /\ OwnOK(c)'
  <2>1. read[c] = {}
    BY <1>1 DEF ModelsOK, ModelOK
  <2>2. ~Prepared(c)' /\ told'[c] # <<"NONE">>
    BY <1>1 DEF Prepared
  <2>3. ModelOK(c)'
    BY <1>1, <2>1, <2>2 DEF ModelOK, Working
  <2>4. OwnOK(c)'
    BY <1>1, <2>1, <2>2 DEF OwnOK, Checked, Translating
  <2>5. QED
    BY <2>3, <2>4
<1>3. ASSUME NEW d \in Calls, d # c PROVE ModelOK(d)' /\ OwnOK(d)'
  <2>1. ModelOK(d) /\ OwnOK(d)
    BY DEF ModelsOK
  <2>2. QED
    BY <1>1, <1>3, <2>1, OtherModel
<1>4. QED
  BY <1>2, <1>3 DEF ModelsOK

LEMMA PrepareModelOwn ==
  ASSUME IInv, ModelsOK, NEW c \in Calls, PrepareModel(c)
  PROVE  ModelOK(c)' /\ OwnOK(c)'
<1>1. /\ at[c].pc = "check" /\ call[c].method = "prepare" /\ at[c].pc \notin {"idle", "done"}
      /\ UNCHANGED <<device, call, supported, sModelInfo, read, mapped, overtaken>>
  BY DEF PrepareModel, Up
<1>2. told[c] = <<>> /\ DOMAIN at = Calls /\ read[c] = {} /\ ModelOK(c) /\ OwnOK(c)
  BY <1>1, OwnFacts DEF ModelOK
<1>3. /\ <<>> \in Seq(Status) /\ <<"INVALID_ARGUMENT">> \in Seq(Status)
      /\ <<>> # <<"NONE">> /\ <<"INVALID_ARGUMENT">> # <<"NONE">>
  BY DEF Status
<1>4. CASE End(c, <<>>, "INVALID_ARGUMENT") \/ End(c, <<"INVALID_ARGUMENT">>, "INVALID_ARGUMENT")
  <2>1. at'[c].pc = "done" /\ told'[c] # <<"NONE">>
    BY <1>1, <1>3, <1>4, EndsAs
  <2>2. QED
    BY <1>1, <1>2, <2>1, RefusedModel
<1>5. CASE Accepted(call[c]) /\ Goto(c, "pools", 1) /\ UNCHANGED <<told, ret>>
  <2>1. at'[c] = [pc |-> "pools", k |-> 1] /\ ~Prepared(c)'
    BY <1>1, <1>2, <1>5 DEF Goto, Prepared
  <2>2. ModelOK(c)'
    BY <1>1, <1>2, <1>5, <2>1 DEF ModelOK, Accepted
  <2>3. OwnOK(c)'
    BY <1>1, <1>2, <2>1 DEF OwnOK, Translating, Checked
  <2>4. QED
    BY <2>2, <2>3
<1>6. CASE UNCHANGED <<at, told>>
  BY <1>1, <1>2, <1>6, OtherModel
<1>7. QED
  BY <1>4, <1>5, <1>6 DEF PrepareModel

LEMMA GetSupportedOperationsOwn ==
  ASSUME IInv, ModelsOK, NEW c \in Calls, GetSupportedOperations(c)
  PROVE  ModelOK(c)' /\ OwnOK(c)'
<1>1. /\ at[c].pc = "check" /\ call[c].method = "supported" /\ at[c].pc \notin {"idle", "done"}
      /\ UNCHANGED <<call, sModelInfo, read, mapped, overtaken>>
  BY DEF GetSupportedOperations, Up
<1>2. told[c] = <<>> /\ DOMAIN at = Calls /\ read[c] = {} /\ ModelOK(c) /\ OwnOK(c)
  BY <1>1, OwnFacts DEF ModelOK
<1>3. CASE ~call[c].model.valid /\ End(c, <<"INVALID_ARGUMENT">>, "NONE")
  <2>1. at'[c].pc = "done" /\ told'[c] # <<"NONE">>
    BY <1>1, <1>3, FailsAs DEF Fail
  <2>2. QED
    BY <1>1, <1>2, <1>3, <2>1, RefusedModel
<1>4. CASE Goto(c, "factory", 1) /\ UNCHANGED <<told, ret>>
  <2>1. at'[c] = [pc |-> "factory", k |-> 1] /\ told'[c] # <<"NONE">>
    BY <1>1, <1>2, <1>4 DEF Goto
  <2>2. ModelOK(c)'
    BY <1>1, <1>2, <2>1 DEF ModelOK
  <2>3. OwnOK(c)'
    BY <1>1, <1>2, <2>1 DEF OwnOK, Translating
  <2>4. QED
    BY <2>2, <2>3
<1>5. QED
  BY <1>3, <1>4 DEF GetSupportedOperations

LEMMA PrepareModelFromCacheOwn ==
  ASSUME IInv, ModelsOK, NEW c \in Calls, PrepareModelFromCache(c)
  PROVE  ModelOK(c)' /\ OwnOK(c)'
<1>1. /\ at[c].pc = "check" /\ call[c].method = "cache" /\ at[c].pc \notin {"idle", "done"}
      /\ UNCHANGED <<call, supported, sModelInfo, read, mapped, overtaken>>
  BY DEF PrepareModelFromCache, Up
<1>2. read[c] = {} /\ ModelOK(c) /\ OwnOK(c)
  BY <1>1, OwnFacts DEF ModelOK
<1>3. /\ <<>> \in Seq(Status) /\ <<"GENERAL_FAILURE">> \in Seq(Status)
      /\ <<>> # <<"NONE">> /\ <<"GENERAL_FAILURE">> # <<"NONE">>
  BY DEF Status
<1>4. CASE End(c, <<"GENERAL_FAILURE">>, "GENERAL_FAILURE") \/ End(c, <<>>, "INVALID_ARGUMENT")
  <2>1. at'[c].pc = "done" /\ told'[c] # <<"NONE">>
    BY <1>1, <1>3, <1>4, EndsAs
  <2>2. QED
    BY <1>1, <1>2, <2>1, RefusedModel
<1>5. CASE UNCHANGED <<at, told>>
  BY <1>1, <1>2, <1>5, OtherModel
<1>6. QED
  BY <1>4, <1>5 DEF PrepareModelFromCache

LEMMA InitRuntimeInfoOwn ==
  ASSUME IInv, ModelsOK, NEW c \in Calls, InitRuntimeInfo(c)
  PROVE  ModelOK(c)' /\ OwnOK(c)'
<1>1. /\ at[c].pc = "pools" /\ at[c].pc \notin {"idle", "done"} /\ at[c].pc \in Working
      /\ UNCHANGED <<call, supported, sModelInfo, read, overtaken>>
  BY DEF InitRuntimeInfo, Up, Working
<1>2. /\ told[c] = <<>> /\ DOMAIN at = Calls /\ read[c] = {} /\ call[c].method = "prepare"
      /\ ModelOK(c)
  BY <1>1, OwnFacts DEF ModelOK
<1>3. CASE Fail(c)
  <2>1. at'[c].pc = "done" /\ told'[c] # <<"NONE">>
    BY <1>1, <1>3, FailsAs
  <2>2. QED
    BY <1>1, <1>2, <2>1, RefusedModel
<1>4. CASE /\ call[c].model.maps /\ OperandsKnown(c) /\ Goto(c, "factory", 1)
           /\ UNCHANGED <<told, ret>>
  <2>1. at'[c] = [pc |-> "factory", k |-> 1] /\ ~Prepared(c)'
    BY <1>1, <1>2, <1>4 DEF Goto, Prepared
  <2>2. c \in mapped'
    BY <1>4 DEF InitRuntimeInfo
  <2>3. ModelOK(c)'
    BY <1>1, <1>2, <1>4, <2>1, <2>2 DEF ModelOK, Accepted, OperandsKnown
  <2>4. OwnOK(c)'
    BY <1>1, <1>2, <2>1 DEF OwnOK, Translating, Checked
  <2>5. QED
    BY <2>3, <2>4
<1>5. QED
  BY <1>3, <1>4 DEF InitRuntimeInfo

LEMMA CreateFactoryOwn ==
  ASSUME IInv, ModelsOK, NEW c \in Calls, CreateFactory(c)
  PROVE  ModelOK(c)' /\ OwnOK(c)'
<1>1. /\ at[c].pc = "factory" /\ at[c].pc \notin {"idle", "done"} /\ sModelInfo' = c
      /\ UNCHANGED <<call, told, supported, read, mapped>> /\ Goto(c, "operations", 1)
  BY DEF CreateFactory, Up, Latest
<1>2. told[c] = <<>> /\ DOMAIN at = Calls /\ read[c] = {} /\ ModelOK(c)
  BY <1>1, OwnFacts DEF ModelOK
<1>3. at'[c] = [pc |-> "operations", k |-> 1] /\ ~Prepared(c)' /\ told'[c] # <<"NONE">>
  BY <1>1, <1>2 DEF Goto, Prepared
<1>4. ModelOK(c)'
  BY <1>1, <1>2, <1>3 DEF ModelOK, Accepted, OperandsKnown, Working
<1>5. OwnOK(c)'
  BY <1>1, <1>2, <1>3 DEF OwnOK, Checked
<1>6. QED
  BY <1>4, <1>5

\* A call that has not been overtaken reads its own model's information.
LEMMA NotForeign ==
  ASSUME IInv, ModelsOK, NEW c \in Calls, c \in Translating, c \notin overtaken
  PROVE  sModelInfo = c /\ ~Foreign(c)
  BY DEF ModelsOK, OwnOK, Foreign

LEMMA CreateOperationOwn ==
  ASSUME IInv, ModelsOK, NEW c \in Calls, CreateOperation(c)
  PROVE  ModelOK(c)' /\ OwnOK(c)'
<1>1. /\ at[c].pc = "operations" /\ at[c].pc \notin {"idle", "done"} /\ at[c].pc \in Loops
      /\ c \in Translating
  BY DEF CreateOperation, Up, Loops, Translating
<1>2. told[c] = <<>> /\ DOMAIN read = Calls /\ ModelOK(c) /\ OwnOK(c)
  BY <1>1, OwnFacts
<1>3. CASE Down
  BY <1>2, <1>3, OtherModel DEF Down
<1>4. CASE /\ read' = IF Ops(c)[at[c].k] = "unknown" THEN read
                      ELSE [read EXCEPT ![c] = @ \cup {sModelInfo}]
           /\ Iterate(c, "validate")
           /\ UNCHANGED <<device, call, told, ret, supported, sModelInfo, mapped, overtaken>>
  <2>0. /\ Iterate(c, "validate")
        /\ UNCHANGED <<device, call, told, ret, supported, sModelInfo, mapped, overtaken>>
    BY <1>4
  <2>1. at'[c].pc = "operations" \/ (at'[c].pc = "validate" /\ at'[c].k = 1)
    <3>1. \/ at'[c] = [pc |-> "operations", k |-> at[c].k + 1]
          \/ at'[c] = [pc |-> "validate", k |-> 1]
      BY <1>1, <2>0, IteratesAs
    <3>2. QED
      BY <3>1
  <2>2. ~Prepared(c)' /\ told'[c] # <<"NONE">>
    BY <1>2, <2>0 DEF Prepared
  <2>3. ModelOK(c)'
    BY <1>1, <1>2, <2>0, <2>1, <2>2 DEF ModelOK, Accepted, OperandsKnown, Working
  <2>4. ASSUME c \notin overtaken' PROVE sModelInfo' = c /\ read'[c] \subseteq {c}
    <3>1. sModelInfo = c /\ read[c] \subseteq {c}
      BY <1>1, <1>2, <1>4, <2>4 DEF OwnOK
    <3>2. QED
      BY <1>2, <1>4, <3>1
  <2>5. \A set : AllIn(c, 1 - 1, set)' /\ Judged(c, 1 - 1)'
    BY DEF AllIn, Judged
  <2>6. OwnOK(c)'
    BY <2>1, <2>2, <2>4, <2>5 DEF OwnOK, Checked
  <2>7. QED
    BY <2>3, <2>6
<1>5. QED
  BY <1>3, <1>4 DEF CreateOperation

LEMMA ValidateOperationOwn ==
  ASSUME IInv, ModelsOK, NEW c \in Calls, ValidateOperation(c)
  PROVE  ModelOK(c)' /\ OwnOK(c)'
<1>0. PICK k : k = at[c].k
  OBVIOUS
<1>1. /\ at[c].pc = "validate" /\ at[c].pc \notin {"idle", "done"} /\ at[c].pc \in Loops
      /\ c \in Translating /\ at[c].pc \in Working
  BY DEF ValidateOperation, Up, Loops, Translating, Working
<1>2. /\ told[c] = <<>> /\ DOMAIN read = Calls /\ ModelOK(c) /\ OwnOK(c) /\ ~Prepared(c)
      /\ k \in 1 .. Len(Ops(c)) /\ k \in Nat \ {0} /\ Len(Ops(c)) \in Nat \ {0}
      /\ Ops(c)[k] \in OpKind
  <2>1. Ops(c) \in Seq(OpKind)
    BY <1>0, <1>1, OwnFacts
  <2>2. k \in 1 .. Len(Ops(c))
    BY <1>0, <1>1, OwnFacts
  <2>3. Ops(c)[k] \in OpKind
    BY <2>1, <2>2
  <2>4. QED
    BY <1>0, <1>1, <2>2, <2>3, OwnFacts
<1>3. CASE Down
  BY <1>0, <1>2, <1>3, OtherModel DEF Down
<1>4. ASSUME NEW ok \in Validates(c, k), UNCHANGED <<device, call, sModelInfo, mapped, overtaken>>,
             Foreign(c) \/ Ops(c)[k] # "blind",
             read' = IF Ops(c)[k] = "unknown" THEN read
                     ELSE [read EXCEPT ![c] = @ \cup {sModelInfo}]
      PROVE  /\ c \notin overtaken =>
                 /\ sModelInfo' = c /\ read'[c] \subseteq {c}
                 /\ ok = (Ops(c)[k] \notin {"unknown", "refused"})
                 /\ ok => read'[c] = {c} /\ Ops(c)[k] \in Valid
             /\ Ops(c)' = Ops(c)
             /\ \A n, set : AllIn(c, n, set)' <=> AllIn(c, n, set)
  <2>1. Ops(c)' = Ops(c) /\ \A n, set : AllIn(c, n, set)' <=> AllIn(c, n, set)
    BY <1>0, <1>4 DEF Ops, AllIn
  <2>2. ASSUME c \notin overtaken
        PROVE  /\ sModelInfo' = c /\ read'[c] \subseteq {c}
               /\ ok = (Ops(c)[k] \notin {"unknown", "refused"})
               /\ ok => read'[c] = {c} /\ Ops(c)[k] \in Valid
    <3>1. sModelInfo = c /\ ~Foreign(c) /\ read[c] \subseteq {c}
      BY <1>0, <1>1, <1>2, <2>2, NotForeign DEF OwnOK
    <3>2. ok = (Ops(c)[k] \notin {"unknown", "refused"})
      BY <1>0, <1>4, <3>1 DEF Validates
    <3>3. read'[c] \subseteq {c} /\ (Ops(c)[k] # "unknown" => read'[c] = {c})
      BY <1>0, <1>2, <1>4, <3>1
    <3>4. ok => Ops(c)[k] \in Valid
      BY <1>0, <1>2, <1>4, <3>1, <3>2 DEF OpKind, Valid
    <3>5. QED
      BY <1>0, <1>4, <3>1, <3>2, <3>3, <3>4
  <2>3. QED
    BY <2>1, <2>2
<1>5. ASSUME NEW ok \in Validates(c, k), UNCHANGED <<device, call, sModelInfo, mapped, overtaken>>,
             Foreign(c) \/ Ops(c)[k] # "blind",
             read' = IF Ops(c)[k] = "unknown" THEN read
                     ELSE [read EXCEPT ![c] = @ \cup {sModelInfo}],
             call[c].method = "prepare",
             IF ok THEN Iterate(c, "inputs") /\ UNCHANGED <<told, ret>> ELSE Fail(c)
      PROVE  ModelOK(c)' /\ OwnOK(c)'
  <2>1. CASE ok
    <3>1. /\ Iterate(c, "inputs") /\ UNCHANGED told /\ ~Prepared(c)'
      BY <1>0, <1>2, <1>5, <2>1 DEF Prepared
    <3>2. \/ at'[c] = [pc |-> "validate", k |-> k + 1]
          \/ at'[c] = [pc |-> "inputs", k |-> 1] /\ k = Len(Ops(c))
      BY <1>0, <1>1, <3>1, IteratesAs
    <3>3. ModelOK(c)'
      BY <1>0, <1>1, <1>2, <1>5, <3>1, <3>2 DEF ModelOK, Accepted, OperandsKnown, Working
    <3>4. ASSUME c \notin overtaken' PROVE sModelInfo' = c /\ read'[c] = {c} /\ AllIn(c, k, Valid)'
      <4>1. AllIn(c, k - 1, Valid)
        BY <1>0, <1>1, <1>2, <1>5, <3>4 DEF OwnOK
      <4>2. sModelInfo' = c /\ read'[c] = {c} /\ Ops(c)[k] \in Valid
        BY <1>0, <1>4, <1>5, <2>1, <3>4
      <4>3. AllIn(c, k, Valid)
        BY <1>0, <1>2, <4>1, <4>2, OneMore
      <4>4. QED
        BY <1>0, <1>4, <1>5, <4>2, <4>3
    <3>6. OwnOK(c)'
      <4>1. CASE at'[c] = [pc |-> "validate", k |-> k + 1]
        <5>1. at'[c].pc = "validate" /\ at'[c].k - 1 = k
          BY <1>0, <1>2, <4>1
        <5>2. QED
          BY <1>5, <3>1, <3>4, <5>1 DEF OwnOK, Checked
      <4>2. CASE at'[c] = [pc |-> "inputs", k |-> 1] /\ k = Len(Ops(c))
        <5>1. Len(Ops(c))' = k
          BY <1>0, <1>5, <4>2 DEF Ops
        <5>2. QED
          BY <1>0, <1>5, <3>1, <3>4, <4>2, <5>1 DEF OwnOK, Checked
      <4>3. QED
        BY <3>2, <4>1, <4>2
    <3>7. QED
      BY <3>3, <3>6
  <2>2. CASE ~ok
    <3>1. at'[c].pc = "done" /\ told'[c] # <<"NONE">>
      BY <1>0, <1>1, <1>5, <2>2, FailsAs
    <3>2. QED
      BY <1>0, <1>4, <1>5, <3>1, RefusedModel
  <2>3. QED
    BY <2>1, <2>2
<1>6. ASSUME NEW ok \in Validates(c, k), UNCHANGED <<device, call, sModelInfo, mapped, overtaken>>,
             Foreign(c) \/ Ops(c)[k] # "blind",
             read' = IF Ops(c)[k] = "unknown" THEN read
                     ELSE [read EXCEPT ![c] = @ \cup {sModelInfo}],
             call[c].method = "supported",
             supported' = [supported EXCEPT ![c][k] = ok],
             IF k < Len(Ops(c)) THEN Iterate(c, "done") /\ UNCHANGED <<told, ret>>
                                ELSE End(c, <<"NONE">>, "NONE")
      PROVE  ModelOK(c)' /\ OwnOK(c)'
  <2>1. supported'[c] = [supported[c] EXCEPT ![k] = ok] /\ k \in DOMAIN supported[c]
    <3>1. supported[c] \in [DOMAIN Ops(c) -> BOOLEAN]
      BY <1>0, <1>1, <1>6 DEF IInv, SupportedOK
    <3>2. DOMAIN Ops(c) = 1 .. Len(Ops(c))
      BY <1>0, <1>1, OwnFacts
    <3>3. QED
      BY <1>0, <1>2, <1>6, <3>1, <3>2 DEF IInv
  <2>2. ASSUME c \notin overtaken' PROVE sModelInfo' = c /\ read'[c] \subseteq {c} /\ Judged(c, k)'
    <3>1. Judged(c, k - 1)
      BY <1>0, <1>1, <1>2, <1>6, <2>2 DEF OwnOK
    <3>2. sModelInfo' = c /\ read'[c] \subseteq {c} /\ ok = (Ops(c)[k] \notin {"unknown", "refused"})
          /\ Ops(c)' = Ops(c)
      BY <1>0, <1>4, <1>6, <2>2
    <3>3. ASSUME NEW j \in 1 .. k, Ops(c)[j] \in Valid PROVE supported'[c][j] = TRUE
      <4>1. CASE j = k
        <5>1. ok = TRUE
          BY <3>2, <3>3, <4>1 DEF Valid
        <5>2. QED
          BY <2>1, <4>1, <5>1
      <4>2. CASE j # k
        <5>1. j \in 1 .. k - 1
          BY <1>0, <1>2, <4>2
        <5>2. supported[c][j] = TRUE
          BY <3>1, <3>3, <5>1 DEF Judged
        <5>3. QED
          BY <2>1, <4>2, <5>2
      <4>3. QED
        BY <4>1, <4>2
    <3>4. QED
      BY <3>2, <3>3 DEF Judged
  <2>3. CASE k < Len(Ops(c)) /\ Iterate(c, "done") /\ UNCHANGED <<told, ret>>
    <3>1. at'[c] = [pc |-> "validate", k |-> k + 1]
      <4>1. at[c].k # Len(Ops(c))
        BY <1>0, <1>2, <2>3
      <4>2. QED
        BY <1>0, <1>1, <2>3, <4>1, IteratesAs
    <3>2. at'[c].pc = "validate" /\ at'[c].k - 1 = k /\ told'[c] # <<"NONE">>
      <4>1. at'[c].pc = "validate" /\ at'[c].k - 1 = k
        BY <1>2, <3>1
      <4>2. told'[c] = <<>>
        BY <1>2, <2>3
      <4>3. QED
        BY <4>1, <4>2
    <3>3. ModelOK(c)'
      BY <1>6, <3>2 DEF ModelOK
    <3>4. OwnOK(c)'
      BY <1>6, <2>2, <3>2 DEF OwnOK
    <3>5. QED
      BY <3>3, <3>4
  <2>4. CASE k = Len(Ops(c)) /\ End(c, <<"NONE">>, "NONE")
    <3>1. <<"NONE">> \in Seq(Status)
      BY DEF Status
    <3>2. at'[c].pc = "done" /\ told'[c] = <<"NONE">>
      BY <1>0, <1>1, <2>4, <3>1, EndsAs
    <3>3. Len(Ops(c))' = k
      BY <1>0, <1>6, <2>4 DEF Ops
    <3>4. ModelOK(c)'
      BY <1>0, <1>6, <3>2 DEF ModelOK
    <3>5. OwnOK(c)'
      BY <1>0, <1>6, <2>2, <3>2, <3>3 DEF OwnOK, Translating
    <3>6. QED
      BY <3>4, <3>5
  <2>5. QED
    BY <1>0, <1>2, <1>6, <2>3, <2>4
<1>7. QED
  <2>1. ASSUME ~Down PROVE \E ok \in Validates(c, k) :
           /\ UNCHANGED <<device, call, sModelInfo, mapped, overtaken>>
           /\ Foreign(c) \/ Ops(c)[k] # "blind"
           /\ read' = IF Ops(c)[k] = "unknown" THEN read
                      ELSE [read EXCEPT ![c] = @ \cup {sModelInfo}]
           /\ \/ /\ call[c].method = "prepare"
                 /\ IF ok THEN Iterate(c, "inputs") /\ UNCHANGED <<told, ret>> ELSE Fail(c)
              \/ /\ call[c].method = "supported"
                 /\ supported' = [supported EXCEPT ![c][k] = ok]
                 /\ IF k < Len(Ops(c)) THEN Iterate(c, "done") /\ UNCHANGED <<told, ret>>
                                       ELSE End(c, <<"NONE">>, "NONE")
    BY <1>0, <2>1 DEF ValidateOperation
  <2>2. QED
    BY <1>0, <1>3, <1>5, <1>6, <2>1

LEMMA CreateInputParamsOwn ==
  ASSUME IInv, ModelsOK, NEW c \in Calls, CreateInputParams(c)
  PROVE  ModelOK(c)' /\ OwnOK(c)'
<1>1. /\ at[c].pc = "inputs" /\ at[c].pc \notin {"idle", "done"} /\ at[c].pc \in Working
      /\ UNCHANGED <<call, supported, sModelInfo, read, mapped, overtaken>>
  BY DEF CreateInputParams, Up, Working
<1>2. /\ told[c] = <<>> /\ DOMAIN at = Calls /\ call[c].method = "prepare"
      /\ ModelOK(c) /\ OwnOK(c) /\ (c \notin overtaken => read[c] \subseteq {c})
  BY <1>1, OwnFacts DEF OwnOK
<1>3. CASE Fail(c)
  <2>1. at'[c].pc = "done" /\ told'[c] # <<"NONE">>
    BY <1>1, <1>3, FailsAs
  <2>2. QED
    BY <1>1, <1>2, <2>1, RefusedModel
<1>4. CASE Goto(c, "connect", 1) /\ UNCHANGED <<told, ret>>
  <2>1. at'[c] = [pc |-> "connect", k |-> 1] /\ ~Prepared(c)'
    BY <1>1, <1>2, <1>4 DEF Goto, Prepared
  <2>2. ModelOK(c)'
    BY <1>1, <1>2, <1>4, <2>1 DEF ModelOK, Accepted, OperandsKnown, Working
  <2>3. /\ AllIn(c, 1 - 1, Made)' /\ Ops(c)' = Ops(c)
        /\ \A n, set : AllIn(c, n, set)' <=> AllIn(c, n, set)
    BY <1>1 DEF AllIn, Ops
  <2>4. OwnOK(c)'
    BY <1>1, <1>2, <2>1, <2>3 DEF OwnOK, Translating, Checked
  <2>5. QED
    BY <2>2, <2>4
<1>5. QED
  BY <1>3, <1>4 DEF CreateInputParams

LEMMA ConnectOperationOwn ==
  ASSUME IInv, ModelsOK, NEW c \in Calls, ConnectOperation(c)
  PROVE  ModelOK(c)' /\ OwnOK(c)'
<1>0. PICK k : k = at[c].k
  OBVIOUS
<1>1. /\ at[c].pc = "connect" /\ at[c].pc \notin {"idle", "done"} /\ at[c].pc \in Loops
      /\ c \in Translating /\ at[c].pc \in Working /\ at[c].pc \in Checked
  BY DEF ConnectOperation, Up, Loops, Translating, Working, Checked
<1>2. /\ told[c] = <<>> /\ DOMAIN read = Calls /\ ModelOK(c) /\ OwnOK(c)
      /\ k \in 1 .. Len(Ops(c)) /\ k \in Nat \ {0} /\ call[c].method = "prepare"
  BY <1>0, <1>1, OwnFacts
<1>3. CASE Down
  BY <1>2, <1>3, OtherModel DEF Down
<1>4. ASSUME ~Down
      PROVE  /\ UNCHANGED <<device, call, supported, sModelInfo, mapped, overtaken>>
             /\ read' = [read EXCEPT ![c] = @ \cup {sModelInfo}]
             /\ Foreign(c) \/ Ops(c)[k] \notin {"faults", "blind"}
             /\ \/ Fail(c)
                \/ /\ Ops(c)[k] # "throws" \/ Foreign(c)
                   /\ Iterate(c, "function") /\ UNCHANGED <<told, ret>>
  BY <1>0, <1>4 DEF ConnectOperation
<1>5. ASSUME ~Down, c \notin overtaken'
      PROVE  /\ sModelInfo' = c /\ read'[c] = {c} /\ ~Foreign(c)
             /\ AllIn(c, Len(Ops(c)), Valid) /\ AllIn(c, k - 1, Made)
  <2>1. c \notin overtaken /\ sModelInfo' = sModelInfo /\ read'[c] = read[c] \cup {sModelInfo}
    BY <1>2, <1>4, <1>5
  <2>2. sModelInfo = c /\ ~Foreign(c)
    BY <1>1, <2>1, NotForeign
  <2>3. read[c] = {c} /\ AllIn(c, Len(Ops(c)), Valid) /\ AllIn(c, k - 1, Made)
    BY <1>0, <1>1, <1>2, <2>1 DEF OwnOK
  <2>4. QED
    BY <2>1, <2>2, <2>3
<1>6. CASE ~Down /\ Fail(c)
  <2>1. at'[c].pc = "done" /\ told'[c] # <<"NONE">> /\ call' = call
    BY <1>1, <1>4, <1>6, FailsAs
  <2>2. QED
    BY <1>2, <1>5, <1>6, <2>1, RefusedModel
<1>7. CASE /\ ~Down
           /\ Ops(c)[k] # "throws" \/ Foreign(c)
           /\ Iterate(c, "function") /\ UNCHANGED <<told, ret>>
  <2>1. /\ \/ at'[c] = [pc |-> "connect", k |-> k + 1]
           \/ at'[c] = [pc |-> "function", k |-> 1] /\ k = Len(Ops(c))
        /\ ~Prepared(c)'
    <3>1. \/ at'[c] = [pc |-> "connect", k |-> k + 1]
          \/ at'[c] = [pc |-> "function", k |-> 1] /\ k = Len(Ops(c))
      BY <1>0, <1>1, <1>7, IteratesAs
    <3>2. ~Prepared(c)'
      <4>1. told'[c] = <<>>
        BY <1>2, <1>7
      <4>2. QED
        BY <4>1 DEF Prepared
    <3>3. QED
      BY <3>1, <3>2
  <2>2. UNCHANGED <<call, mapped>> /\ Ops(c)' = Ops(c)
    BY <1>4, <1>7 DEF Ops
  <2>3. ModelOK(c)'
    BY <1>1, <1>2, <2>1, <2>2 DEF ModelOK, Accepted, OperandsKnown, Working
  <2>4. ASSUME c \notin overtaken'
        PROVE  /\ sModelInfo' = c /\ read'[c] = {c}
               /\ AllIn(c, Len(Ops(c)), Valid)' /\ AllIn(c, k, Made)'
    <3>1. /\ sModelInfo' = c /\ read'[c] = {c} /\ ~Foreign(c)
          /\ AllIn(c, Len(Ops(c)), Valid) /\ AllIn(c, k - 1, Made)
      BY <1>5, <1>7, <2>4
    <3>2. Ops(c)[k] \in Made
      <4>1. Ops(c)[k] \in Valid
        BY <1>2, <3>1 DEF AllIn
      <4>2. QED
        BY <1>4, <1>7, <3>1, <4>1 DEF Valid, Made
    <3>3. AllIn(c, k, Made)
      BY <1>2, <3>1, <3>2, OneMore
    <3>4. \A n, set : AllIn(c, n, set)' <=> AllIn(c, n, set)
      BY <2>2 DEF AllIn
    <3>5. QED
      BY <2>2, <3>1, <3>3, <3>4
  <2>5. OwnOK(c)'
    <3>1. CASE at'[c] = [pc |-> "connect", k |-> k + 1]
      <4>1. at'[c].pc = "connect" /\ at'[c].k - 1 = k
        BY <1>2, <3>1
      <4>2. QED
        BY <1>2, <2>1, <2>2, <2>4, <4>1 DEF OwnOK
    <3>2. CASE at'[c] = [pc |-> "function", k |-> 1] /\ k = Len(Ops(c))
      <4>1. at'[c].pc = "function" /\ Len(Ops(c))' = k
        BY <2>2, <3>2
      <4>2. QED
        BY <1>2, <2>1, <2>2, <2>4, <4>1 DEF OwnOK, Translating
    <3>3. QED
      BY <2>1, <3>1, <3>2
  <2>6. QED
    BY <2>3, <2>5
<1>8. QED
  BY <1>3, <1>4, <1>6, <1>7

LEMMA GenerateGraphOwn ==
  ASSUME IInv, ModelsOK, NEW c \in Calls, GenerateGraph(c)
  PROVE  ModelOK(c)' /\ OwnOK(c)'
<1>1. /\ at[c].pc = "function" /\ at[c].pc \notin {"idle", "done"} /\ at[c].pc \in Working
      /\ UNCHANGED <<call, supported, sModelInfo, read, mapped, overtaken>>
  BY DEF GenerateGraph, Up, Working
<1>2. /\ told[c] = <<>> /\ DOMAIN at = Calls /\ call[c].method = "prepare"
      /\ ModelOK(c) /\ OwnOK(c) /\ (c \notin overtaken => read[c] \subseteq {c})
  BY <1>1, OwnFacts DEF OwnOK
<1>3. CASE Fail(c)
  <2>1. at'[c].pc = "done" /\ told'[c] # <<"NONE">>
    BY <1>1, <1>3, FailsAs
  <2>2. QED
    BY <1>1, <1>2, <2>1, RefusedModel
<1>4. CASE Goto(c, "load", 1) /\ UNCHANGED <<told, ret>>
  <2>1. at'[c] = [pc |-> "load", k |-> 1] /\ ~Prepared(c)'
    BY <1>1, <1>2, <1>4 DEF Goto, Prepared
  <2>2. ModelOK(c)'
    BY <1>1, <1>2, <1>4, <2>1 DEF ModelOK, Accepted, OperandsKnown, Working
  <2>3. /\ Ops(c)' = Ops(c)
        /\ \A n, set : AllIn(c, n, set)' <=> AllIn(c, n, set)
    BY <1>1 DEF AllIn, Ops
  <2>4. OwnOK(c)'
    BY <1>1, <1>2, <2>1, <2>3 DEF OwnOK, Translating, Checked
  <2>5. QED
    BY <2>2, <2>4
<1>5. QED
  BY <1>3, <1>4 DEF GenerateGraph

LEMMA LoadNetworkOwn ==
  ASSUME IInv, ModelsOK, NEW c \in Calls, LoadNetwork(c)
  PROVE  ModelOK(c)' /\ OwnOK(c)'
<1>1. /\ at[c].pc = "load" /\ at[c].pc \notin {"idle", "done"} /\ at[c].pc \in Working
      /\ UNCHANGED <<call, supported, sModelInfo, read, mapped, overtaken>>
  BY DEF LoadNetwork, Up, Working
<1>2. /\ told[c] = <<>> /\ call[c].method = "prepare"
      /\ ModelOK(c) /\ OwnOK(c) /\ (c \notin overtaken => read[c] \subseteq {c})
  BY <1>1, OwnFacts DEF OwnOK
<1>3. CASE Fail(c)
  <2>1. at'[c].pc = "done" /\ told'[c] # <<"NONE">>
    BY <1>1, <1>3, FailsAs
  <2>2. QED
    BY <1>1, <1>2, <2>1, RefusedModel
<1>4. CASE End(c, <<"NONE">>, "NONE")
  <2>1. <<"NONE">> \in Seq(Status)
    BY DEF Status
  <2>2. at'[c].pc = "done" /\ told'[c] = <<"NONE">>
    BY <1>1, <1>4, <2>1, EndsAs
  <2>3. ModelOK(c)'
    BY <1>1, <1>2, <2>2 DEF ModelOK, Accepted, OperandsKnown, Working
  <2>4. /\ Ops(c)' = Ops(c)
        /\ \A n, set : AllIn(c, n, set)' <=> AllIn(c, n, set)
    BY <1>1 DEF AllIn, Ops
  <2>5. OwnOK(c)'
    BY <1>1, <1>2, <2>2, <2>4 DEF OwnOK, Translating, Checked
  <2>6. QED
    BY <2>3, <2>5
<1>5. CASE UNCHANGED <<at, told>>
  BY <1>1, <1>2, <1>5, OtherModel
<1>6. QED
  BY <1>3, <1>4, <1>5 DEF LoadNetwork

LEMMA NextModelsOK ==
  ASSUME IInv, ModelsOK, [Next]_vars
  PROVE  ModelsOK'
<1>1. ASSUME NEW c \in Calls, Invoke(c) PROVE ModelsOK'
  BY <1>1, InvokeModels
<1>2. ASSUME NEW c \in Calls, Runs(c) PROVE ModelsOK'
  <2>1. ModelOK(c)' /\ OwnOK(c)'
    BY <1>2, PrepareModelOwn, GetSupportedOperationsOwn, PrepareModelFromCacheOwn,
       InitRuntimeInfoOwn, CreateFactoryOwn, CreateOperationOwn, ValidateOperationOwn,
       CreateInputParamsOwn, ConnectOperationOwn, GenerateGraphOwn, LoadNetworkOwn DEF Runs
  <2>2. QED
    BY <1>2, <2>1, RunsOthers DEF ModelsOK
<1>3. CASE UNCHANGED vars
  <2>1. ASSUME NEW c \in Calls PROVE ModelOK(c)' /\ OwnOK(c)'
    BY <1>3, OtherModel DEF vars, ModelsOK
  <2>2. QED
    BY <2>1 DEF ModelsOK
<1>4. QED
  BY <1>1, <1>2, <1>3 DEF Next, Quiescent

-----------------------------------------------------------------------------
(* What ends the service.                                                  *)

\* Why a call can end the service: the cases of FailuresContained.
Excused(c) ==
    \/ /\ at[c].pc = "check" /\ call[c].version = "1.3"
       /\ ~HasModelClass(device)
    \/ at[c].pc = "check" /\ call[c].method = "cache" /\ ~call[c].callback
    \/ at[c].pc = "load" /\ device = "GNA"
    \/ call[c].method = "supported" /\ \E k \in DOMAIN Ops(c) : Ops(c)[k] = "pooled"
    \/ /\ at[c].pc \in {"validate", "connect"}
       /\ Ops(c)[at[c].k] \in {"faults", "blind"}
    \/ c \in overtaken

\* The step of a call that ends the service is excused.
LEMMA RunsExcused ==
  ASSUME IInv, ModelsOK, NEW c \in Calls, Runs(c)
  PROVE  service' = service \/ (Excused(c) /\ UNCHANGED <<device, at, call, overtaken>>)
<1>1. CASE PrepareModel(c)
  BY <1>1 DEF PrepareModel, Up, Excused
<1>2. CASE PrepareModelFromCache(c)
  BY <1>2 DEF PrepareModelFromCache, Up, Excused
<1>3. CASE CreateOperation(c)
  <2>1. CASE Foreign(c) /\ Down
    <3>1. c \in Translating
      BY <1>3 DEF CreateOperation, Up, Translating
    <3>2. c \in overtaken
      BY <2>1, <3>1, NotForeign
    <3>3. QED
      BY <2>1, <3>2 DEF Excused, Down
  <2>2. CASE UNCHANGED service
    BY <2>2
  <2>3. QED
    BY <1>3, <2>1, <2>2 DEF CreateOperation
<1>4. ASSUME at[c].pc \in {"validate", "connect"}, Ops(c)[at[c].k] = "pooled", sModelInfo \notin mapped
      PROVE  Excused(c)
  <2>1. /\ at[c].pc \notin {"idle", "done"} /\ at[c].pc \in Working \ {"pools"}
        /\ c \in Translating /\ at[c].pc \in Loops
    BY <1>4 DEF Working, Loops, Translating
  <2>2. CASE c \in overtaken
    BY <2>2 DEF Excused
  <2>3. CASE c \notin overtaken
    <3>1. sModelInfo = c
      BY <2>1, <2>3, NotForeign
    <3>2. call[c].method = "supported"
      BY <1>4, <2>1, <3>1, OwnFacts DEF ModelOK
    <3>3. at[c].k \in DOMAIN Ops(c)
      BY <2>1, OwnFacts
    <3>4. QED
      BY <1>4, <3>2, <3>3 DEF Excused
  <2>4. QED
    BY <2>2, <2>3
<1>5. ASSUME at[c].pc \in {"validate", "connect"}, Foreign(c)
      PROVE  Excused(c)
  <2>1. c \in Translating
    BY <1>5 DEF Translating
  <2>2. QED
    BY <1>5, <2>1, NotForeign DEF Excused
<1>6. CASE ValidateOperation(c)
  <2>1. at[c].pc = "validate"
    BY <1>6 DEF ValidateOperation, Up
  <2>2. CASE UNCHANGED service
    BY <2>2
  <2>3. CASE /\ Down
             /\ Foreign(c) \/ ReadsUnmapped(c, at[c].k) \/ Ops(c)[at[c].k] = "blind"
    <3>1. Excused(c)
      BY <1>4, <1>5, <2>1, <2>3 DEF ReadsUnmapped, Excused
    <3>2. QED
      BY <2>3, <3>1 DEF Down
  <2>4. QED
    BY <1>6, <2>2, <2>3 DEF ValidateOperation
<1>7. CASE ConnectOperation(c)
  <2>1. at[c].pc = "connect"
    BY <1>7 DEF ConnectOperation, Up
  <2>2. CASE UNCHANGED service
    BY <2>2
  <2>3. CASE /\ Down
             /\ Foreign(c) \/ ReadsUnmapped(c, at[c].k) \/ Ops(c)[at[c].k] \in {"faults", "blind"}
    <3>1. Excused(c)
      BY <1>4, <1>5, <2>1, <2>3 DEF ReadsUnmapped, Excused
    <3>2. QED
      BY <2>3, <3>1 DEF Down
  <2>4. QED
    BY <1>7, <2>2, <2>3 DEF ConnectOperation
<1>8. CASE LoadNetwork(c)
  <2>1. at[c].pc = "load" /\ at[c].pc \in Working
    BY <1>8 DEF LoadNetwork, Up, Working
  <2>2. HasModelClass(device)
    BY <2>1 DEF IInv, CallsOK, ControlOK, Admitted
  <2>3. CASE ~CatchesLoad(device) /\ UNCHANGED at
    <3>1. Excused(c)
      BY <2>1, <2>2, <2>3 DEF Excused, HasModelClass, CatchesLoad
    <3>2. QED
      BY <1>8, <2>3, <3>1 DEF LoadNetwork
  <2>4. QED
    BY <1>8, <2>3 DEF LoadNetwork
<1>9. CASE \/ GetSupportedOperations(c) \/ InitRuntimeInfo(c) \/ CreateFactory(c)
           \/ CreateInputParams(c) \/ GenerateGraph(c)
  BY <1>9 DEF GetSupportedOperations, InitRuntimeInfo, CreateFactory, CreateInputParams,
     GenerateGraph
<1>10. QED
  BY <1>1, <1>2, <1>3, <1>6, <1>7, <1>8, <1>9 DEF Runs

\* FailuresContained is kept: a step needs the service up, and the one that
\* ends it is excused.
LEMMA NextContained ==
  ASSUME IInv, ModelsOK, FailuresContained, [Next]_vars
  PROVE  FailuresContained'
<1>1. FailuresContained <=> (service = "down" => \E c \in Calls : Excused(c))
  BY DEF FailuresContained, Excused
<1>2. FailuresContained' <=> (service' = "down" => \E c \in Calls : Excused(c)')
  BY DEF FailuresContained, Excused
<1>3. ASSUME NEW c \in Calls, UNCHANGED <<device, at, call, overtaken>>, Excused(c)
      PROVE  Excused(c)'
  BY <1>3 DEF Excused, Ops
<1>4. ASSUME NEW c \in Calls, Runs(c) PROVE FailuresContained'
  <2>1. service = "up"
    BY <1>4 DEF Runs, PrepareModel, GetSupportedOperations, PrepareModelFromCache,
       InitRuntimeInfo, CreateFactory, CreateOperation, ValidateOperation, CreateInputParams,
       ConnectOperation, GenerateGraph, LoadNetwork, Up
  <2>2. QED
    BY <1>2, <1>3, <1>4, <2>1, RunsExcused
<1>5. ASSUME NEW c \in Calls, Invoke(c) PROVE FailuresContained'
  BY <1>2, <1>5 DEF Invoke, Up
<1>6. CASE UNCHANGED vars
  BY <1>1, <1>2, <1>3, <1>6 DEF vars
<1>7. QED
  BY <1>4, <1>5, <1>6 DEF Next, Quiescent

\* What a call can be told and read, of the model it came with.
LEMMA ModelsInvariance == Spec => [](IInv /\ ModelsOK)
<1>1. ASSUME Init PROVE ModelsOK
  <2>1. ASSUME NEW c \in Calls PROVE ModelOK(c) /\ OwnOK(c)
    <3>1. /\ at[c].pc = "idle" /\ call[c].method = "none" /\ read[c] = {} /\ told[c] = <<>>
      BY <1>1 DEF Init
    <3>2. ModelOK(c)
      BY <3>1 DEF ModelOK
    <3>3. OwnOK(c)
      BY <3>1 DEF OwnOK, Translating
    <3>4. QED
      BY <3>2, <3>3
  <2>2. QED
    BY <2>1 DEF ModelsOK
<1>2. IInv /\ ModelsOK /\ [Next]_vars => (IInv /\ ModelsOK)'
  BY NextIInv, NextModelsOK
<1>3. QED
  BY <1>1, <1>2, InitIInv, PTL DEF Spec

\* A model is handed out only if its arguments were accepted, its pools mapped
\* and its operands known; and if no other creation set sModelInfo in between,
\* each of its operations was validated and made from its own information.
THEOREM PreparedFromOwn == Spec => []PreparedFromOwnModel
<1>1. ASSUME IInv, ModelsOK PROVE PreparedFromOwnModel
  <2>1. SUFFICES ASSUME NEW c \in Calls, Prepared(c)
                 PROVE  /\ Accepted(call[c]) /\ c \in mapped /\ OperandsKnown(c)
                        /\ c \notin overtaken =>
                            /\ read[c] = {c}
                            /\ \A k \in DOMAIN Ops(c) : Ops(c)[k] \in {"plain", "scalar", "pooled"}
    BY DEF PreparedFromOwnModel
  <2>2. ModelOK(c) /\ OwnOK(c) /\ call[c].method = "prepare"
    BY <1>1, <2>1 DEF ModelsOK, Prepared
  <2>3. Accepted(call[c]) /\ c \in mapped /\ OperandsKnown(c)
    BY <2>1, <2>2 DEF ModelOK
  <2>4. ASSUME c \notin overtaken PROVE read[c] = {c} /\ AllIn(c, Len(Ops(c)), Made)
    BY <2>1, <2>2, <2>4 DEF OwnOK
  <2>5. DOMAIN Ops(c) = 1 .. Len(Ops(c))
    <3>1. at[c].pc # "idle"
      BY <1>1, <2>1 DEF Prepared, IInv, CallsOK, ControlOK
    <3>2. QED
      BY <1>1, <3>1, OpsType DEF IInv
  <2>6. QED
    BY <2>3, <2>4, <2>5 DEF AllIn, Made
<1>2. QED
  BY <1>1, ModelsInvariance, PTL

\* The preparation and the query of a model agree: if one client's preparation
\* of it succeeded, another is told that every operation is supported, unless a
\* creation overtook one of the two calls.
THEOREM SupportAgreed == Spec => []SupportAgrees
<1>1. ASSUME IInv, ModelsOK PROVE SupportAgrees
  <2>1. SUFFICES ASSUME NEW c \in Calls, NEW d \in Calls, Prepared(c), c \notin overtaken,
                        at[d].pc = "done", call[d].method = "supported", d \notin overtaken,
                        call[c].model = call[d].model
                 PROVE  told[d] = <<"NONE">> /\ \A k \in DOMAIN Ops(d) : supported[d][k]
    BY DEF SupportAgrees
  <2>2. Accepted(call[c]) /\ AllIn(c, Len(Ops(c)), Made)
    BY <1>1, <2>1 DEF ModelsOK, ModelOK, OwnOK, Prepared
  <2>3. Ops(c) = Ops(d) /\ call[d].model.valid
    BY <2>1, <2>2 DEF Ops, Accepted
  <2>4. told[d] = <<"NONE">> /\ Judged(d, Len(Ops(d)))
    BY <1>1, <2>1, <2>3 DEF ModelsOK, ModelOK, OwnOK
  <2>5. DOMAIN Ops(d) = 1 .. Len(Ops(d))
    BY <1>1, <2>1, OpsType DEF IInv
  <2>6. ASSUME NEW k \in DOMAIN Ops(d) PROVE supported[d][k]
    <3>1. Ops(d)[k] \in Valid
      BY <2>2, <2>3, <2>5 DEF AllIn, Made, Valid
    <3>2. supported[d][k] = TRUE
      BY <2>4, <2>5, <3>1 DEF Judged
    <3>3. QED
      BY <3>2
  <2>7. QED
    BY <2>4, <2>6
<1>2. QED
  BY <1>1, ModelsInvariance, PTL

\* The service ends only for one of the reasons FailuresContained names: every
\* other failure, of any call and however calls interleave, stays in its call.
THEOREM FailuresStayContained == Spec => []FailuresContained
<1>1. Init => FailuresContained
  BY DEF Init, FailuresContained
<1>2. (IInv /\ ModelsOK) /\ FailuresContained /\ [Next]_vars => FailuresContained'
  BY NextContained
<1>3. QED
  BY <1>1, <1>2, ModelsInvariance, PTL DEF Spec

===============================================================================
