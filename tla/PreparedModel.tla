---------------------------- MODULE PreparedModel ----------------------------
(***************************************************************************)
(* Executions of ONE prepared model (BasePreparedModel.cpp), as the binder *)
(* threads and the detached threads of the driver service run them.        *)
(*                                                                         *)
(* Every execution of a prepared model works on the same, unlocked state:  *)
(* the request pools and output shapes of its NnapiModelInfo               *)
(* (ModelManager.h:202-206) and the blobs of its single InferRequest       *)
(* (IENetwork.cpp:28-33).  An execution is a thread with a program         *)
(* counter; one action is one iteration of a loop of the code, or one call *)
(* that touches the shared state.                                          *)
(***************************************************************************)
EXTENDS Naturals, Sequences

CONSTANTS
    Execs,           \* the executions a client asks for
    NumInputs,       \* request.inputs.size(), fixed by the model
    NumOutputs,      \* request.outputs.size()
    NamedInputs,     \* the inputs whose getNodeName() is not ""
    NamedOutputs,    \* the outputs whose getNodeName() is not ""
    MaxPools,        \* bound on request.pools.size()
    Requests,        \* the requests clients send
    FenceLists,      \* the waitFor arguments of executeFenced
    Serial,          \* the client waits for an answer before its next call
    InferMayTimeOut, \* an inference may outlast IENetwork's Wait(10000)
    ReleaseEarly,    \* the client may drop the model before its callbacks
    Absent,          \* an index beyond mRequestPoolInfos.size()
    Unmapped,        \* a RunTimePoolInfo with no usable buffer
    NoExec,          \* the InferRequest is idle / a blob was never written
    Mixed,           \* a blob whose bytes are not those of one execution
    Kept             \* a part of a client's memory that nothing was written to

Inputs  == 1 .. NumInputs
Outputs == 1 .. NumOutputs
Slots   == 1 .. MaxPools

PoolKind == {"ashmem", "mmap_fd", "token"}

\* The length of an argument: "none" is that of an omitted one (hasNoValue), and
\* an input is "long", an output "outside", if it is not all within its blob and
\* its pool although the driver copies it.
InLength  == {"none", "short", "exact", "long"}
OutLength == {"none", "other", "exact", "outside"}

RequestType ==
    [ pools     : Seq(PoolKind),            \* request.pools
      in        : [Inputs -> Slots],        \* inputs[i].location.poolIndex
      out       : [Outputs -> Slots],       \* outputs[o].location.poolIndex
      inLength  : [Inputs -> InLength],     \* inputs[i].location.length
      outLength : [Outputs -> OutLength],   \* outputs[o].location.length
      specified : BOOLEAN ]                 \* no output is of unspecified size

ASSUME SizesAssumption ==
    /\ NumInputs \in Nat \ {0} /\ NumOutputs \in Nat \ {0}
    /\ MaxPools \in Nat \ {0}
    /\ NamedInputs \subseteq Inputs /\ NamedOutputs \subseteq Outputs

ASSUME RequestsAssumption ==
    \A r \in Requests : r \in RequestType /\ Len(r.pools) <= MaxPools

ASSUME FencesAssumption == FenceLists \subseteq Seq({"fence", "null"})

ASSUME FlagsAssumption ==
    Serial \in BOOLEAN /\ InferMayTimeOut \in BOOLEAN /\ ReleaseEarly \in BOOLEAN

ASSUME SentinelsAssumption ==
    /\ {Absent, Unmapped, NoExec, Mixed} \cap Execs = {}
    /\ Absent # Unmapped

VARIABLES
    at,           \* where the thread of an execution is: [pc, k]
    call,         \* the arguments of the execution: [kind, req, waitFor, callback]
    ret,          \* what the HAL method execute() has returned
    answers,      \* notify() calls and results callbacks, in order
    pools,        \* mRequestPoolInfos: whose memory each slot maps
    inBlob,       \* input blobs: the execution whose data each holds
    outBlob,      \* output blobs: the inputs they were computed from
    device,       \* the execution whose inference is running
    raised,       \* the executions whose inference ended with an exception
    overran,      \* the executions that copied past the end of a blob or a pool
    insufficient, \* outputs with mOutputShapes[o].isSufficient = false
    mem,          \* the client memory: mem[e][s][o], output o's part of pool s
    dirty,        \* <<e, s>>: pool s of e, written and not yet committed
    model,        \* "live" until ~BasePreparedModel
    service       \* "up" until abort(), std::terminate() or a fault

modelInfo == <<pools, insufficient>>
plugin    == <<inBlob, outBlob, device, raised, overran>>
memory    == <<mem, dirty>>
client    == <<call, ret, answers>>
vars      == <<at, client, modelInfo, plugin, memory, model, service>>

NoStatus == "not returned"
NoCall   == [kind |-> "none"]
Status == {"NONE", "GENERAL_FAILURE", "INVALID_ARGUMENT",
           "OUTPUT_INSUFFICIENT_SIZE", "MISSED_DEADLINE_PERSISTENT"}

\* A computed value: for each input that has a node, whose data it is.
Data    == [NamedInputs -> Execs \cup {NoExec, Mixed}]
NoData  == [i \in NamedInputs |-> NoExec]
Inference(e) == [i \in NamedInputs |-> e]

ASSUME KeptAssumption == Kept \notin Data

\* Blobs b, and any of them damaged by a write past the end of something else.
Damaged(b) == {[i \in NamedInputs |-> IF i \in hit THEN Mixed ELSE b[i]] :
                  hit \in SUBSET NamedInputs}

(***************************************************************************)
(* The driver's validateRequest (Android's NN utilities): the location of  *)
(* every argument names one of the request's pools, or is all zero if the  *)
(* argument is omitted; there may be no pools then.  Lengths are not       *)
(* compared with anything.  executeFenced also refuses outputs of          *)
(* unspecified size.                                                       *)
(***************************************************************************)
Located(slot, length, r) == IF length = "none" THEN slot = 1 ELSE slot <= Len(r.pools)

Valid(r) ==
    /\ \A i \in Inputs  : Located(r.in[i], r.inLength[i], r)
    /\ \A o \in Outputs : Located(r.out[o], r.outLength[o], r)

ValidFenced(r) == Valid(r) /\ r.specified

-----------------------------------------------------------------------------
(* Steps of a thread.                                                      *)

Up(e, pc) == service = "up" /\ at[e].pc = pc

Goto(e, pc, k) == at' = [at EXCEPT ![e] = [pc |-> pc, k |-> k]]

\* Not the code: a loop that starts over when it is through.
IterateAgain(e, n, next) ==
    IF at[e].k < n THEN Goto(e, at[e].pc, at[e].k + 1) ELSE Goto(e, at[e].pc, 1)

\* Not the code: a loop with one iteration too many.
IteratePastEnd(e, n, next) ==
    IF at[e].k <= n THEN Goto(e, at[e].pc, at[e].k + 1) ELSE Goto(e, next, 1)

\* The next iteration of a loop of n iterations, or what follows the loop.
Iterate(e, n, next) ==
    IF at[e].k < n THEN Goto(e, at[e].pc, at[e].k + 1) ELSE Goto(e, next, 1)

\* notify() of an execution callback, or the cb of a synchronous method.
Answer(e, status, shapes) ==
    answers' = [answers EXCEPT ![e] = Append(@, [status |-> status, short |-> shapes])]

\* Not the code: the error is notified, and the return after it is missing.
FailWithoutReturn(e, status) ==
    /\ Answer(e, status, {})
    /\ Goto(e, "report", 1)
    /\ UNCHANGED <<call, ret>>

\* The answer and the return that follows it; no output shapes are given.
Fail(e, status) ==
    /\ Answer(e, status, {})
    /\ Goto(e, "done", 1)
    /\ UNCHANGED <<call, ret>>

\* nnAssert's abort(), an uncaught exception or a fault ends the service.
Down ==
    /\ service' = "down"
    /\ UNCHANGED <<at, client, modelInfo, plugin, memory, model>>

InFlight(e) == at[e].pc \notin {"idle", "done"} \/ ret[e] = "returning"

CanCall(e) ==
    /\ Up(e, "idle") /\ model = "live"
    /\ Serial => \A f \in Execs : ~InFlight(f)

-----------------------------------------------------------------------------
(* The HAL methods, up to the point where the shared state is touched.     *)

Accept(e, kind, r, waitFor, cb) ==
    call' = [call EXCEPT ![e] =
                [kind |-> kind, req |-> r, waitFor |-> waitFor, callback |-> cb]]

\* executeBase, for execute, execute_1_2 and execute_1_3.
Execute(e) ==
    /\ CanCall(e)
    /\ \E r \in Requests, cb \in BOOLEAN :
        /\ Accept(e, "async", r, <<>>, cb)
        /\ \/ /\ ~cb
              /\ ret' = [ret EXCEPT ![e] = "INVALID_ARGUMENT"]
              /\ Goto(e, "done", 1)
              /\ UNCHANGED answers
           \/ /\ cb /\ ~Valid(r)
              /\ Answer(e, "INVALID_ARGUMENT", {})
              /\ ret' = [ret EXCEPT ![e] = "INVALID_ARGUMENT"]
              /\ Goto(e, "done", 1)
           \/ /\ cb /\ Valid(r)
              /\ ret' = [ret EXCEPT ![e] = "returning"]
              /\ Goto(e, "attach", 1)
              /\ UNCHANGED answers
    /\ UNCHANGED <<modelInfo, plugin, memory, model, service>>

\* executeBase returns; its detached thread may be anywhere by now.
ExecuteReturns(e) ==
    /\ service = "up" /\ ret[e] = "returning"
    /\ ret' = [ret EXCEPT ![e] = "NONE"]
    /\ UNCHANGED <<at, call, answers, modelInfo, plugin, memory, model, service>>

\* executeSynchronously and executeSynchronously_1_3; a burst calls the former.
ExecuteSynchronously(e) ==
    /\ CanCall(e)
    /\ \E r \in Requests :
        /\ Accept(e, "sync", r, <<>>, TRUE)
        /\ IF Valid(r) THEN Goto(e, "resize", 1) /\ UNCHANGED answers
                       ELSE Goto(e, "done", 1) /\ Answer(e, "INVALID_ARGUMENT", {})
    /\ UNCHANGED <<ret, modelInfo, plugin, memory, model, service>>

\* executeFenced up to its wait loop: the deadline is looked at only here.
ExecuteFenced(e) ==
    /\ CanCall(e)
    /\ \E r \in Requests, waitFor \in FenceLists, late \in BOOLEAN :
        /\ Accept(e, "fenced", r, waitFor, TRUE)
        /\ \/ /\ ~ValidFenced(r)
              /\ Answer(e, "INVALID_ARGUMENT", {}) /\ Goto(e, "done", 1)
           \/ /\ ValidFenced(r) /\ late
              /\ Answer(e, "MISSED_DEADLINE_PERSISTENT", {}) /\ Goto(e, "done", 1)
           \/ /\ ValidFenced(r) /\ ~late
              /\ Goto(e, IF waitFor = <<>> THEN "resize" ELSE "fences", 1)
              /\ UNCHANGED answers
    /\ UNCHANGED <<ret, modelInfo, plugin, memory, model, service>>

\* syncWait(fd, -1): signalled, or the fence is in an error state.  A thread
\* whose fence is still pending simply does not take this step.
WaitFence(e) ==
    /\ Up(e, "fences")
    /\ LET w == call[e].waitFor IN
        \/ w[at[e].k] = "null" /\ Fail(e, "INVALID_ARGUMENT")
        \/ w[at[e].k] = "fence" /\ Fail(e, "GENERAL_FAILURE")
        \/ /\ w[at[e].k] = "fence"
           /\ Iterate(e, Len(w), "resize")
           /\ UNCHANGED client
    /\ UNCHANGED <<modelInfo, plugin, memory, model, service>>

\* asyncExecute copies its shared_ptrs out of the raw preparedModel pointer;
\* a pointer to a destroyed model is followed into freed memory.
Attach(e) ==
    /\ Up(e, "attach")
    /\ IF model = "destroyed"
       THEN Down
       ELSE /\ Goto(e, "resize", 1)
            /\ UNCHANGED <<client, modelInfo, plugin, memory, model, service>>

-----------------------------------------------------------------------------
(* setRunTimePoolInfosFromHidlMemories.                                    *)

\* Not the code: the vector is left as it is.
NotResized(n) == pools

\* mRequestPoolInfos.resize(n): elements are added or destroyed at the end.
Resized(n) ==
    [s \in Slots |-> IF s > n THEN Absent
                     ELSE IF pools[s] = Absent THEN Unmapped ELSE pools[s]]

\* Not the code: a pool that is mapped already is not mapped again.
MappedOnce(e, s) == IF pools[s] \in Execs THEN pools ELSE [pools EXCEPT ![s] = e]

\* RunTimePoolInfo::set() succeeds: the slot maps the memory of e, whatever
\* it mapped before.
Mapped(e, s) == [pools EXCEPT ![s] = e]

\* Only executeFenced sees the token of a driver buffer; the 1.0 request of the
\* other methods has an unmappable memory in its place.
Unsupported(e, s) == call[e].req.pools[s] = "token" /\ call[e].kind = "fenced"

\* executeFenced passes the status on, the others replace it.
PoolFailure(e, s) ==
    IF Unsupported(e, s) THEN "INVALID_ARGUMENT" ELSE "GENERAL_FAILURE"

ResizePools(e) ==
    /\ Up(e, "resize")
    /\ pools' = Resized(Len(call[e].req.pools))
    /\ Goto(e, IF call[e].req.pools = <<>> THEN "inputs" ELSE "pools", 1)
    /\ UNCHANGED <<client, insufficient, plugin, memory, model, service>>

\* Another execution's resize() may have removed the slot by now: writing the
\* element past the end is undefined, and ends the service here.
SetPool(e) ==
    /\ Up(e, "pools")
    /\ LET s == at[e].k
           r == call[e].req
       IN \/ /\ pools[s] # Absent /\ r.pools[s] # "token"
             /\ pools' = Mapped(e, s)
             /\ Iterate(e, Len(r.pools), "inputs")
             /\ UNCHANGED <<client, insufficient, plugin, memory, model, service>>
          \/ /\ pools[s] # Absent
             /\ pools' = [pools EXCEPT ![s] = IF Unsupported(e, s) THEN @ ELSE Unmapped]
             /\ Fail(e, PoolFailure(e, s))
             /\ UNCHANGED <<insufficient, plugin, memory, model, service>>
          \/ pools[s] = Absent /\ Down

-----------------------------------------------------------------------------
(* Inputs, inference, outputs.                                             *)

\* InferRequest::GetBlob, called outside the try blocks: a busy request may
\* refuse it with an exception nobody catches.
GetBlobThrows == device # NoExec /\ Down

\* Where a copy past the end of a blob or a pool lands is undefined: it may damage
\* other blobs, and end the service at once or at any later time.
Overrun(e, blobs) ==
    /\ overran' = overran \cup {e}
    /\ inBlob' \in Damaged(blobs) /\ outBlob' \in Damaged(outBlob)

OverrunFaults == service = "up" /\ overran # {} /\ Down

\* One iteration of the input loop: getBlobFromMemoryPoolIn (with its
\* nnAssert), then the copy of location.length bytes, whatever that is, into the
\* plugin's blob.
CopyInput(e) ==
    /\ Up(e, "inputs")
    /\ LET i == at[e].k
           s == call[e].req.in[i]
           length == call[e].req.inLength[i]
       IN \/ pools[s] = Absent /\ Down
          \/ /\ pools[s] # Absent /\ (i \notin NamedInputs \/ length = "none")
             /\ Iterate(e, NumInputs, "start")
             /\ UNCHANGED <<client, modelInfo, plugin, memory, model, service>>
          \/ pools[s] # Absent /\ i \in NamedInputs /\ GetBlobThrows
          \/ pools[s] = Unmapped /\ i \in NamedInputs /\ length # "none" /\ Down
          \/ /\ pools[s] \in Execs /\ i \in NamedInputs /\ length \in {"short", "exact"}
             /\ inBlob' = [inBlob EXCEPT ![i] =
                             IF length = "exact" \/ @ = pools[s] THEN pools[s] ELSE Mixed]
             /\ Iterate(e, NumInputs, "start")
             /\ UNCHANGED <<client, modelInfo, outBlob, device, raised, overran>>
             /\ UNCHANGED <<memory, model, service>>
          \/ /\ pools[s] \in Execs /\ i \in NamedInputs /\ length = "long"
             /\ Overrun(e, [inBlob EXCEPT ![i] = pools[s]])
             /\ Iterate(e, NumInputs, "start")
             /\ UNCHANGED <<client, modelInfo, device, raised, memory, model, service>>
          \/ pools[s] \in Execs /\ i \in NamedInputs /\ length = "long" /\ Down

\* IENetwork::infer, its StartAsync: a busy request refuses it.
StartAsync(e) ==
    /\ Up(e, "start")
    /\ IF device # NoExec
       THEN Fail(e, "GENERAL_FAILURE") /\ UNCHANGED device
       ELSE device' = e /\ Goto(e, "wait", 1) /\ UNCHANGED client
    /\ UNCHANGED <<modelInfo, inBlob, outBlob, raised, overran, memory, model, service>>

\* The device finishes: it has read the input blobs and written all outputs.
DeviceFinishes ==
    /\ service = "up" /\ device # NoExec
    /\ device' = NoExec
    /\ \/ outBlob' = inBlob /\ UNCHANGED raised
       \/ raised' = raised \cup {device} /\ UNCHANGED outBlob
    /\ UNCHANGED <<at, client, modelInfo, inBlob, overran, memory, model, service>>

\* Wait(10000) returns, or rethrows what the inference threw.
WaitReturns(e) ==
    /\ Up(e, "wait") /\ device # e
    /\ IF e \in raised
       THEN Fail(e, "GENERAL_FAILURE")
       ELSE Goto(e, "outputs", 1) /\ UNCHANGED client
    /\ UNCHANGED <<modelInfo, plugin, memory, model, service>>

\* Wait(10000) gives up; infer() drops its status and returns normally.
WaitTimesOut(e) ==
    /\ Up(e, "wait") /\ device = e /\ InferMayTimeOut
    /\ Goto(e, "outputs", 1)
    /\ UNCHANGED <<client, modelInfo, plugin, memory, model, service>>

\* Not the code: the lengths are not compared.
IgnoreMismatch(e, o) == FALSE

\* actualLength != expectedLength
Mismatch(e, o) == call[e].req.outLength[o] \notin {"exact", "outside"}

\* updateOutputshapes(o, dims, isLengthSufficient)
UpdateOutputShapes(o, isLengthSufficient) ==
    insufficient' = IF isLengthSufficient THEN insufficient \ {o} ELSE insufficient \cup {o}

\* An answer carries a copy of mOutputShapes, but the cb of executeFenced has
\* no room for it.
ShapesTold(e, shapes) == IF call[e].kind = "fenced" THEN {} ELSE shapes

\* One iteration of the output loop: getBlobFromMemoryPoolOut, the length
\* check, and the copy to the client's memory.
CopyOutput(e) ==
    /\ Up(e, "outputs")
    /\ LET o == at[e].k
           s == call[e].req.out[o]
           outside == call[e].req.outLength[o] = "outside"
       IN \/ /\ o \notin NamedOutputs
             /\ Iterate(e, NumOutputs, "update")
             /\ UNCHANGED <<client, modelInfo, plugin, memory, model, service>>
          \/ o \in NamedOutputs /\ GetBlobThrows
          \/ o \in NamedOutputs /\ pools[s] = Absent /\ Down
          \/ /\ o \in NamedOutputs /\ pools[s] # Absent /\ Mismatch(e, o)
             /\ UpdateOutputShapes(o, FALSE)
             /\ Answer(e, "OUTPUT_INSUFFICIENT_SIZE", ShapesTold(e, insufficient'))
             /\ Goto(e, "done", 1)
             /\ UNCHANGED <<call, ret, pools, plugin, memory, model, service>>
          \/ o \in NamedOutputs /\ pools[s] = Unmapped /\ ~Mismatch(e, o) /\ Down
          \/ o \in NamedOutputs /\ pools[s] \in Execs /\ outside /\ Down
          \/ /\ o \in NamedOutputs /\ pools[s] \in Execs /\ ~Mismatch(e, o)
             /\ UpdateOutputShapes(o, TRUE)
             /\ mem' = [mem EXCEPT ![pools[s]][s][o] = outBlob]
             /\ dirty' = dirty \cup {<<pools[s], s>>}
             /\ IF outside THEN Overrun(e, inBlob)
                           ELSE UNCHANGED <<overran, inBlob, outBlob>>
             /\ Iterate(e, NumOutputs, "update")
             /\ UNCHANGED <<client, pools, device, raised, model, service>>

\* Not the code: update() is not called.
NotCommitted == dirty

\* What is left uncommitted after update() of every current pool.
Uncommitted == {d \in dirty : pools[d[2]] # d[1]}

\* updateRequestPoolInfos: update() of every current pool.  Its result is
\* dropped; a pool whose mapping failed may fault.
UpdateRequestPoolInfos(e) ==
    /\ Up(e, "update")
    /\ \/ /\ dirty' = Uncommitted
          /\ Goto(e, "report", 1)
          /\ UNCHANGED <<client, modelInfo, plugin, mem, model, service>>
       \/ (\E s \in Slots : pools[s] = Unmapped) /\ Down

\* The final notify() or cb, with a copy of mOutputShapes as it is now.
Report(e) ==
    /\ Up(e, "report")
    /\ Answer(e, "NONE", ShapesTold(e, insufficient))
    /\ Goto(e, "done", 1)
    /\ UNCHANGED <<call, ret, modelInfo, plugin, memory, model, service>>

-----------------------------------------------------------------------------
(* The client drops its last reference: ~BasePreparedModel unmaps the      *)
(* request pools.  A binder call in progress holds a reference of its own; *)
(* a detached thread does not.                                             *)

HoldsReference(e) ==
    \/ at[e].pc \notin {"idle", "done"} /\ call[e].kind # "async"
    \/ ret[e] = "returning"

Destroy ==
    /\ service = "up" /\ model = "live"
    /\ \A e \in Execs : ~HoldsReference(e) /\ (InFlight(e) => ReleaseEarly)
    /\ model' = "destroyed"
    /\ pools' = [s \in Slots |->
                    IF pools[s] \in Execs /\ call[pools[s]].req.pools[s] = "mmap_fd"
                    THEN Unmapped ELSE pools[s]]
    /\ UNCHANGED <<at, client, insufficient, plugin, memory, service>>

\* Nothing is left to do.
Quiescent ==
    /\ \/ service = "down"
       \/ \A e \in Execs : ~InFlight(e) /\ (at[e].pc = "done" \/ model = "destroyed")
    /\ UNCHANGED vars

-----------------------------------------------------------------------------
Init ==
    /\ at = [e \in Execs |-> [pc |-> "idle", k |-> 1]]
    /\ call = [e \in Execs |-> NoCall]
    /\ ret = [e \in Execs |-> NoStatus]
    /\ answers = [e \in Execs |-> <<>>]
    /\ pools = [s \in Slots |-> Absent]
    /\ inBlob = NoData
    /\ outBlob = NoData
    /\ device = NoExec
    /\ raised = {}
    /\ overran = {}
    /\ insufficient = {}
    /\ mem = [e \in Execs |-> [s \in Slots |-> [o \in Outputs |-> Kept]]]
    /\ dirty = {}
    /\ model = "live"
    /\ service = "up"

Calls(e) == Execute(e) \/ ExecuteSynchronously(e) \/ ExecuteFenced(e)

\* What asyncExecute, executeSynchronouslyBase and executeFenced have in common:
\* the same program, written three times.
Infers(e) ==
    \/ ResizePools(e)
    \/ SetPool(e)
    \/ CopyInput(e)
    \/ StartAsync(e)
    \/ WaitReturns(e)
    \/ WaitTimesOut(e)
    \/ CopyOutput(e)
    \/ UpdateRequestPoolInfos(e)
    \/ Report(e)

Runs(e) == ExecuteReturns(e) \/ WaitFence(e) \/ Attach(e) \/ Infers(e)

Next ==
    \/ \E e \in Execs : Calls(e) \/ Runs(e)
    \/ DeviceFinishes
    \/ OverrunFaults
    \/ Destroy
    \/ Quiescent

(***************************************************************************)
(* Fairness: the kernel schedules every thread that can run, fences that   *)
(* are waited for are settled by their owners, and, unless inferences may  *)
(* outlast the wait, the device finishes what it starts.                   *)
(***************************************************************************)
Fairness ==
    /\ \A e \in Execs : WF_vars(Runs(e))
    /\ ~InferMayTimeOut => WF_vars(DeviceFinishes)

Spec == Init /\ [][Next]_vars /\ Fairness
-----------------------------------------------------------------------------
(* Properties.                                                             *)

PcType == {"idle", "fences", "attach", "resize", "pools", "inputs", "start",
           "wait", "outputs", "update", "report", "done"}

CallType ==
    [kind : {"async", "sync", "fenced"}, req : Requests,
     waitFor : FenceLists \cup {<<>>}, callback : BOOLEAN]

ThreadType == [pc : PcType, k : Nat \ {0}]
AnswerType == [status : Status, short : SUBSET Outputs]
MemoryType == [Slots -> [Outputs -> Data \cup {Kept}]]

ThreadsOK == at \in [Execs -> ThreadType]

\* No thread counts past its fences, pools, inputs or outputs.
LoopsOK ==
    \A e \in Execs :
        /\ at[e].pc = "fences"  => at[e].k <= Len(call[e].waitFor)
        /\ at[e].pc = "pools"   => at[e].k <= Len(call[e].req.pools)
        /\ at[e].pc = "inputs"  => at[e].k \in Inputs
        /\ at[e].pc = "outputs" => at[e].k \in Outputs

ClientOK ==
    /\ call \in [Execs -> CallType \cup {NoCall}]
    /\ ret \in [Execs -> {NoStatus, "returning", "NONE", "INVALID_ARGUMENT"}]
    /\ answers \in [Execs -> Seq(AnswerType)]

ModelInfoOK ==
    /\ pools \in [Slots -> Execs \cup {Absent, Unmapped}]
    /\ insufficient \subseteq Outputs

PluginOK ==
    /\ inBlob \in Data /\ outBlob \in Data
    /\ device \in Execs \cup {NoExec}
    /\ raised \subseteq Execs /\ overran \subseteq Execs

MemoryOK == mem \in [Execs -> MemoryType] /\ dirty \subseteq Execs \X Slots

LifeOK == model \in {"live", "destroyed"} /\ service \in {"up", "down"}

\* The variables hold what the C++ types allow, and the loops of the three copies
\* of the program stay within what they go through (BasePreparedModel.cpp:160-330).
TypeOK ==
    ThreadsOK /\ ClientOK /\ LoopsOK /\ ModelInfoOK /\ PluginOK /\ MemoryOK /\ LifeOK

Answered(e, status) == answers[e] # <<>> /\ answers[e][1].status = status

Disciplined(e) ==
    /\ Len(answers[e]) = IF at[e].pc = "done" /\ call[e].callback THEN 1 ELSE 0
    /\ ret[e] = "INVALID_ARGUMENT" =>
         at[e].pc = "done" /\ (call[e].callback => Answered(e, "INVALID_ARGUMENT"))
    /\ ret[e] \in {"returning", "NONE"} =>
         call[e].callback /\ ~Answered(e, "INVALID_ARGUMENT")

\* Whatever the clients do, a call is answered at most once, never before its
\* thread is at its end, and not at all without a callback; and what execute()
\* returns agrees with what the callback is told: INVALID_ARGUMENT twice, or a
\* NONE that only a running execution answers (BasePreparedModel.cpp:126-141).
AnswerDiscipline == \A e \in Execs : Disciplined(e)

\* The client has given every input its graph reads at its length, and room for
\* every output: the driver checks neither.
Sized(r) ==
    /\ \A i \in NamedInputs  : r.inLength[i] = "exact"
    /\ \A o \in NamedOutputs : r.outLength[o] # "outside"

\* Output o has been written where e asked for it; and, if e gave all it should,
\* it has been computed from the inputs of e and nothing else.
Delivered(e, o) ==
    LET value == mem[e][call[e].req.out[o]][o]
    IN value # Kept /\ (Sized(call[e].req) => value = Inference(e))

\* Every output the graph produces is delivered; and update() has been called on
\* the pools it is in.
Written(e)   == \A o \in NamedOutputs : Delivered(e, o)
Committed(e) == \A o \in NamedOutputs : <<e, call[e].req.out[o]>> \notin dirty

\* "Making sure the output data are correctly updated after execution"
\* (utils.cpp:433): once NONE is reported, every output the graph produces is
\* in the client's own memory and its pool has been committed; it is computed from
\* the client's own inputs, unless the client itself gave one of another length
\* (BasePreparedModel.cpp:181 then leaves bytes of an earlier execution in the
\* blob, or writes past it).
OutputDataUpdated ==
    \A e \in Execs : Answered(e, "NONE") => Written(e) /\ Committed(e)

\* The status tells the client what it can rely on: NONE, that every output
\* fitted and none is reported short; OUTPUT_INSUFFICIENT_SIZE, that the first
\* short output is the one reported and those before it were delivered; any
\* other status, that none of the client's outputs was touched.
AnswerTellsTruth ==
    \A e \in Execs : answers[e] # <<>> =>
        LET r     == call[e].req
            short == answers[e][1].short
            Bad   == {o \in NamedOutputs : r.outLength[o] \notin {"exact", "outside"}}
        IN CASE answers[e][1].status = "NONE" ->
                  Bad = {} /\ short \cap NamedOutputs = {}
             [] answers[e][1].status = "OUTPUT_INSUFFICIENT_SIZE" ->
                  \E first \in Bad :
                    /\ call[e].kind # "fenced" => first \in short
                    /\ \A o \in NamedOutputs : o < first =>
                         o \notin Bad \cup short /\ Delivered(e, o)
             [] OTHER ->
                  \A s \in Slots, o \in Outputs : mem[e][s][o] = Kept

\* At no time are e and another execution of the model in flight together, or is
\* e past its wait (IENetwork.cpp:74) while its inference is running.
Careful(e) ==
    /\ \A f \in Execs \ {e} : ~(InFlight(e) /\ InFlight(f))
    /\ device = e => at[e].pc = "wait"

\* The model outlives the execution.
KeepsModel(e) == InFlight(e) => model = "live"

\* The shared blobs, pools and shapes need no lock for an execution that no other
\* execution of its model overlaps and whose inference ends within the wait: when
\* it is told NONE, its outputs are its own, whatever other executions do before
\* and after it, however late those were, and even if the client destroys the
\* model early; and they are committed if it does not (an mmap_fd pool that
\* ~BasePreparedModel has unmapped is reported without its msync)
\* (IENetwork.cpp:71-76, ModelManager.h:202-206, utils.cpp:419-446).
CarefulExecutionsDeliver ==
    \A e \in Execs :
        /\ []Careful(e) => [](Answered(e, "NONE") => Written(e))
        /\ [](Careful(e) /\ KeepsModel(e)) => [](Answered(e, "NONE") => Committed(e))

\* The arguments no check of the driver refuses and no code of it can work with:
\* no pools at all (ModelManager.cpp:219), an input longer than its blob or its pool
\* (BasePreparedModel.cpp:181, 351, 625), an output beyond the end of its pool (255,
\* 424, 683).
Unchecked(r) ==
    \/ r.pools = <<>>
    \/ \E i \in NamedInputs  : r.inLength[i] = "long"
    \/ \E o \in NamedOutputs : r.outLength[o] = "outside"

\* e is at such an argument, or has been and has written past the end of something.
Culprit(e) ==
    /\ Unchecked(call[e].req)
    /\ \/ e \in overran
       \/ at[e].pc = "inputs" /\ (call[e].req.pools = <<>> \/
                                   call[e].req.inLength[at[e].k] = "long")
       \/ at[e].pc = "outputs" /\ call[e].req.outLength[at[e].k] = "outside"

LostToCulprit == \E e \in Execs : call[e] # NoCall /\ Culprit(e)

\* What ends the service while executions run is one of these: two executions of
\* a model at the same time, an inference that outlives its wait, a model destroyed
\* before its answers, or an argument that nobody checks (ModelManager.cpp:202 and
\* 219, IENetwork.cpp:74, BasePreparedModel.cpp:137 and 181).
CarefulClientsStayUp ==
    [](\A e \in Execs : Careful(e)) =>
        [](service = "down" =>
              \/ model = "destroyed" /\ \E e \in Execs : at[e].pc \notin {"idle", "done"}
              \/ LostToCulprit)

\* Nothing writes to a client's memory, or answers it again, once it has been
\* answered and may have given the memory another use.
AnsweredRequestsAreLeftAlone ==
    [][\A e \in Execs : at[e].pc = "done" =>
            mem'[e] = mem[e] /\ answers'[e] = answers[e]]_vars

\* A client that waits for its answers ends the service with an argument that
\* nobody checks, and in no other way: no other nnAssert fails, no exception
\* escapes, no pool is touched that is not mapped, and no pool or blob of an
\* earlier execution is taken for its own (ModelManager.cpp:219 and 244,
\* BasePreparedModel.cpp:171, 181 and 205).
OnlyUncheckedArgumentsEndService == service = "down" => LostToCulprit

\* "nnAssert(poolIndex < mRequestPoolInfos.size())" (ModelManager.cpp:219 and
\* 244), at the moments a thread is about to evaluate it.
PoolIndexInRange ==
    \A e \in Execs :
        /\ at[e].pc = "inputs" => pools[call[e].req.in[at[e].k]] # Absent
        /\ at[e].pc = "outputs" /\ at[e].k \in NamedOutputs =>
               pools[call[e].req.out[at[e].k]] # Absent

\* "This thread is intentionally detached because the driver service is
\* expected to live forever" (BasePreparedModel.cpp:135): what a detached
\* thread works on lives as long as the thread.
DetachedThreadOutlivedByModel ==
    \A e \in Execs :
        call[e].kind = "async" /\ at[e].pc \notin {"idle", "done"} => model = "live"

\* Every call is eventually answered (or refused by its return value), unless
\* the service goes down.
EveryCallEnds ==
    \A e \in Execs : at[e].pc # "idle" ~> (at[e].pc = "done" \/ service = "down")
=============================================================================
