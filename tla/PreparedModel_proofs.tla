------------------------- MODULE PreparedModel_proofs -------------------------
(***************************************************************************)
(* Theorems about PreparedModel.  Of any client, any schedule and any      *)
(* failure: TypeOK and AnswerDiscipline.  Of an execution that no other    *)
(* overlaps and whose inference ends in time: its data are delivered, and  *)
(* the service stays up.  Of a client that waits for its answers: all the  *)
(* properties of the serial run, and that PreparedModel implements         *)
(* ExecutionService.                                                       *)
(***************************************************************************)
EXTENDS PreparedModelRefinement, SequenceTheorems, TLAPS

Running(e) == at[e].pc \notin {"idle", "done"}

Bare(e) == call[e] = NoCall /\ answers[e] = <<>> /\ ret[e] = NoStatus

\* The program counter of e agrees with what e was asked to do and with what
\* it was told; the loop counters stay within their loops.
ControlOK(e) ==
    /\ at[e].pc = "idle" => Bare(e)
    /\ at[e].pc # "idle" => call[e] \in CallType
    /\ Running(e) => Valid(call[e].req) /\ call[e].callback /\ answers[e] = <<>>
    /\ Running(e) => ret[e] # "INVALID_ARGUMENT"
    /\ Running(e) /\ call[e].kind = "async" => ret[e] \in {"returning", "NONE"}
    /\ at[e].pc # "idle" /\ call[e].kind # "async" => ret[e] = NoStatus
    /\ at[e].pc = "fences" =>
         call[e].kind = "fenced" /\ at[e].k \in 1 .. Len(call[e].waitFor)
    /\ at[e].pc = "pools"   => at[e].k \in 1 .. Len(call[e].req.pools)
    /\ at[e].pc = "inputs"  => at[e].k \in Inputs
    /\ at[e].pc = "outputs" => at[e].k \in Outputs

\* Of an execution at its end, AnswerDiscipline.
EndOK(e) ==
    at[e].pc = "done" =>
        /\ answers[e] \in Seq(AnswerType)
        /\ Len(answers[e]) = IF call[e].callback THEN 1 ELSE 0
        /\ ret[e] = "INVALID_ARGUMENT" =>
             (call[e].callback => Answered(e, "INVALID_ARGUMENT"))
        /\ ret[e] \in {"returning", "NONE"} =>
             call[e].callback /\ ~Answered(e, "INVALID_ARGUMENT")

IInv == TypeOK /\ \A e \in Execs : ControlOK(e) /\ EndOK(e)

-----------------------------------------------------------------------------
(* The building blocks of the actions.                                     *)

\* Goto moves one thread to a program counter of the code.
LEMMA GotoType ==
  ASSUME ThreadsOK, NEW e \in Execs, NEW pc \in PcType, NEW k \in Nat \ {0},
         Goto(e, pc, k)
  PROVE  /\ ThreadsOK'
         /\ at'[e].pc = pc /\ at'[e].k = k
         /\ \A f \in Execs : f # e => at'[f] = at[f]
  BY DEF ThreadsOK, ThreadType, Goto

\* A loop stays within its bounds, and is left for its continuation.
LEMMA IterateType ==
  ASSUME ThreadsOK, NEW e \in Execs, NEW n \in Nat, NEW next \in PcType,
         at[e].k \in 1 .. n, Iterate(e, n, next)
  PROVE  /\ ThreadsOK'
         /\ \/ at'[e].pc = at[e].pc /\ at'[e].k \in 1 .. n
            \/ at'[e].pc = next /\ at'[e].k = 1
         /\ \A f \in Execs : f # e => at'[f] = at[f]
<1>1. at[e].pc \in PcType /\ at[e].k \in Nat \ {0} /\ at[e].k + 1 \in Nat \ {0}
  BY DEF ThreadsOK, ThreadType
<1>2. CASE at[e].k < n
  <2>1. Goto(e, at[e].pc, at[e].k + 1)
    BY <1>2 DEF Iterate
  <2>2. at[e].k + 1 \in 1 .. n
    BY <1>1, <1>2
  <2>3. QED
    BY <1>1, <2>1, <2>2, GotoType
<1>3. CASE ~(at[e].k < n)
  <2>1. Goto(e, next, 1)
    BY <1>3 DEF Iterate
  <2>2. QED
    BY <2>1, GotoType
<1>4. QED
  BY <1>2, <1>3

\* Appending an element of S keeps a sequence over S, one longer.
LEMMA AppendType ==
  ASSUME NEW S, NEW s \in Seq(S), NEW x \in S
  PROVE  /\ Append(s, x) \in Seq(S)
         /\ s = <<>> => Append(s, x)[1] = x /\ Len(Append(s, x)) = 1
  OBVIOUS

\* A sequence with an element is not the empty one.
LEMMA NotEmpty ==
  ASSUME NEW S, NEW s \in Seq(S), Len(s) = 1
  PROVE  s # <<>>
<1>1. Len(<<>>) = 0
  OBVIOUS
<1>2. QED
  BY <1>1

\* An answer adds one record to the answers of one execution.
LEMMA AnswerAdds ==
  ASSUME answers \in [Execs -> Seq(AnswerType)], NEW e \in Execs,
         NEW st \in Status, NEW sh \in SUBSET Outputs, Answer(e, st, sh)
  PROVE  /\ answers' \in [Execs -> Seq(AnswerType)]
         /\ answers[e] = <<>> => Len(answers'[e]) = 1 /\ answers'[e][1].status = st
         /\ \A f \in Execs : f # e => answers'[f] = answers[f]
<1>1. [status |-> st, short |-> sh] \in AnswerType
  BY DEF AnswerType
<1>2. /\ Append(answers[e], [status |-> st, short |-> sh]) \in Seq(AnswerType)
      /\ answers[e] = <<>> =>
           /\ Append(answers[e], [status |-> st, short |-> sh])[1] = [status |-> st, short |-> sh]
           /\ Len(Append(answers[e], [status |-> st, short |-> sh])) = 1
  BY <1>1, AppendType
<1>3. answers' = [answers EXCEPT ![e] = Append(@, [status |-> st, short |-> sh])]
  BY DEF Answer
<1>4. answers'[e] = Append(answers[e], [status |-> st, short |-> sh])
  BY <1>3
<1>5. QED
  BY <1>2, <1>3, <1>4

\* Accept records the arguments of one execution.
LEMMA AcceptType ==
  ASSUME call \in [Execs -> CallType \cup {NoCall}], NEW e \in Execs,
         NEW kind \in {"async", "sync", "fenced"}, NEW r \in Requests,
         NEW w \in FenceLists \cup {<<>>}, NEW cb \in BOOLEAN,
         Accept(e, kind, r, w, cb)
  PROVE  /\ call' \in [Execs -> CallType \cup {NoCall}]
         /\ call'[e] \in CallType
         /\ call'[e].kind = kind /\ call'[e].req = r
         /\ call'[e].waitFor = w /\ call'[e].callback = cb
         /\ \A f \in Execs : f # e => call'[f] = call[f]
<1>1. [kind |-> kind, req |-> r, waitFor |-> w, callback |-> cb] \in CallType
  BY DEF CallType
<1>2. QED
  BY <1>1 DEF Accept

\* What an execution does not touch keeps its invariant.
LEMMA Frame ==
  ASSUME NEW f \in Execs, ControlOK(f), EndOK(f), at'[f] = at[f], call'[f] = call[f],
         ret'[f] = ret[f], answers'[f] = answers[f]
  PROVE  ControlOK(f)' /\ EndOK(f)'
  BY DEF ControlOK, EndOK, Running, Bare, Answered

\* A thread that goes on changes nothing its client sees.
LEMMA Advance ==
  ASSUME IInv, NEW e \in Execs, Running(e), UNCHANGED client, ThreadsOK',
         \A f \in Execs : f # e => at'[f] = at[f],
         at'[e].pc \notin {"idle", "done", "attach"},
         at'[e].pc = "fences" =>
            call[e].kind = "fenced" /\ at'[e].k \in 1 .. Len(call[e].waitFor),
         at'[e].pc = "pools"   => at'[e].k \in 1 .. Len(call[e].req.pools),
         at'[e].pc = "inputs"  => at'[e].k \in Inputs,
         at'[e].pc = "outputs" => at'[e].k \in Outputs
  PROVE  ClientOK' /\ \A f \in Execs : ControlOK(f)' /\ EndOK(f)'
<1>1. ClientOK' /\ call' = call /\ ret' = ret /\ answers' = answers
  BY DEF IInv, TypeOK, ClientOK, client
<1>2. ControlOK(e)' /\ EndOK(e)'
  BY <1>1 DEF IInv, ControlOK, EndOK, Running, Bare
<1>3. ASSUME NEW f \in Execs, f # e PROVE ControlOK(f)' /\ EndOK(f)'
  BY <1>1, <1>3, Frame DEF IInv
<1>4. QED
  BY <1>1, <1>2, <1>3

\* The one answer a running thread gives is its last step.
LEMMA AnswerEnds ==
  ASSUME IInv, NEW e \in Execs, Running(e),
         NEW st \in Status, NEW sh \in SUBSET Outputs,
         Answer(e, st, sh), Goto(e, "done", 1), UNCHANGED <<call, ret>>,
         st = "INVALID_ARGUMENT" => call[e].kind # "async"
  PROVE  /\ ThreadsOK' /\ ClientOK'
         /\ \A f \in Execs : ControlOK(f)' /\ EndOK(f)'
<1>1. /\ ThreadsOK' /\ at'[e].pc = "done"
      /\ \A f \in Execs : f # e => at'[f] = at[f]
  <2>1. "done" \in PcType /\ 1 \in Nat \ {0}
    BY DEF PcType
  <2>2. QED
    BY <2>1, GotoType DEF IInv, TypeOK
<1>2. /\ answers' \in [Execs -> Seq(AnswerType)]
      /\ answers[e] = <<>> => Len(answers'[e]) = 1 /\ answers'[e][1].status = st
      /\ \A f \in Execs : f # e => answers'[f] = answers[f]
  BY AnswerAdds DEF IInv, TypeOK, ClientOK
<1>3. ClientOK' /\ call' = call /\ ret' = ret
  BY <1>2 DEF IInv, TypeOK, ClientOK
<1>4. answers[e] = <<>> /\ call[e] \in CallType /\ call[e].callback
  BY DEF IInv, ControlOK, Running
<1>5. ControlOK(e)'
  BY <1>1, <1>3 DEF IInv, ControlOK, Running
<1>6. EndOK(e)'
  <2>1. ret[e] # "INVALID_ARGUMENT"
    BY DEF IInv, ControlOK
  <2>2. call[e].kind # "async" => ret[e] = NoStatus
    BY DEF IInv, ControlOK, Running
  <2>3. answers'[e] \in Seq(AnswerType) /\ answers'[e] # <<>>
    BY <1>2, <1>4, NotEmpty
  <2>4. QED
    BY <1>1, <1>2, <1>3, <1>4, <2>1, <2>2, <2>3 DEF EndOK, Answered, NoStatus
<1>7. ASSUME NEW f \in Execs, f # e PROVE ControlOK(f)' /\ EndOK(f)'
  BY <1>1, <1>2, <1>3, <1>7, Frame DEF IInv
<1>8. QED
  BY <1>1, <1>3, <1>5, <1>6, <1>7

\* Fail is an answer without output shapes.
LEMMA FailEnds ==
  ASSUME IInv, NEW e \in Execs, Running(e), NEW st \in Status, Fail(e, st),
         st = "INVALID_ARGUMENT" => call[e].kind # "async"
  PROVE  /\ ThreadsOK' /\ ClientOK'
         /\ \A f \in Execs : ControlOK(f)' /\ EndOK(f)'
<1>1. Answer(e, st, {}) /\ Goto(e, "done", 1) /\ UNCHANGED <<call, ret>>
  BY DEF Fail
<1>2. {} \in SUBSET Outputs
  OBVIOUS
<1>3. QED
  BY <1>1, <1>2, AnswerEnds

\* Loop counters that agree with the program counters are within their loops.
LEMMA LoopsFollow == (\A f \in Execs : ControlOK(f)) => LoopsOK
  BY DEF ControlOK, LoopsOK

LEMMA LoopsFollowNext == (\A f \in Execs : ControlOK(f)') => LoopsOK'
  BY DEF ControlOK, LoopsOK

\* A step that leaves every variable but service as it is.
LEMMA DownType == IInv /\ Down => IInv'
<1> SUFFICES ASSUME IInv, Down PROVE IInv'
  OBVIOUS
<1>1. ThreadsOK' /\ ClientOK' /\ ModelInfoOK' /\ PluginOK' /\ MemoryOK' /\ LifeOK'
  BY DEF IInv, Down, TypeOK, ThreadsOK, ClientOK, ModelInfoOK, PluginOK, MemoryOK, LifeOK,
         client, modelInfo, plugin, memory
<1>2. ASSUME NEW f \in Execs PROVE ControlOK(f)' /\ EndOK(f)'
  BY Frame DEF IInv, Down, client
<1>3. QED
  BY <1>1, <1>2, LoopsFollowNext DEF IInv, TypeOK

-----------------------------------------------------------------------------
(* One lemma per operation.                                                *)

\* A call that is refused at once, or accepted, keeps the invariant.
LEMMA CallKept ==
  ASSUME IInv, NEW e \in Execs, at[e].pc = "idle",
         NEW kind \in {"async", "sync", "fenced"}, NEW r \in Requests,
         NEW w \in FenceLists \cup {<<>>}, NEW cb \in BOOLEAN,
         Accept(e, kind, r, w, cb),
         NEW pc \in {"attach", "fences", "resize", "done"}, Goto(e, pc, 1),
         ret' \in [Execs -> {NoStatus, "returning", "NONE", "INVALID_ARGUMENT"}],
         \A f \in Execs : f # e => ret'[f] = ret[f],
         kind # "async" => ret'[e] = NoStatus /\ cb,
         pc # "done" => Valid(r) /\ cb /\ ret'[e] # "INVALID_ARGUMENT" /\ UNCHANGED answers,
         pc # "done" /\ kind = "async" => ret'[e] \in {"returning", "NONE"},
         pc = "fences" => kind = "fenced" /\ Len(w) \in Nat \ {0},
         pc = "done" /\ ~cb => UNCHANGED answers,
         pc = "done" /\ cb =>
            \E st \in {"INVALID_ARGUMENT", "MISSED_DEADLINE_PERSISTENT"} :
                Answer(e, st, {}) /\ (kind = "async" => st = "INVALID_ARGUMENT"),
         pc = "done" /\ kind = "async" => ret'[e] = "INVALID_ARGUMENT"
  PROVE  /\ ThreadsOK' /\ ClientOK'
         /\ \A f \in Execs : ControlOK(f)' /\ EndOK(f)'
<1>1. /\ ThreadsOK' /\ at'[e].pc = pc /\ at'[e].k = 1
      /\ \A f \in Execs : f # e => at'[f] = at[f]
  <2>1. pc \in PcType /\ 1 \in Nat \ {0}
    BY DEF PcType
  <2>2. QED
    BY <2>1, GotoType DEF IInv, TypeOK
<1>2. /\ call' \in [Execs -> CallType \cup {NoCall}]
      /\ call'[e] \in CallType
      /\ call'[e].kind = kind /\ call'[e].req = r
      /\ call'[e].waitFor = w /\ call'[e].callback = cb
      /\ \A f \in Execs : f # e => call'[f] = call[f]
  <2>1. call \in [Execs -> CallType \cup {NoCall}]
    BY DEF IInv, TypeOK, ClientOK
  <2>2. QED
    BY <2>1, AcceptType
<1>3. answers[e] = <<>> /\ answers \in [Execs -> Seq(AnswerType)]
  BY DEF IInv, ControlOK, Bare, TypeOK, ClientOK
<1>4. /\ answers' \in [Execs -> Seq(AnswerType)]
      /\ \A f \in Execs : f # e => answers'[f] = answers[f]
      /\ pc = "done" /\ cb => Len(answers'[e]) = 1
      /\ pc = "done" /\ cb /\ kind = "async" => answers'[e][1].status = "INVALID_ARGUMENT"
      /\ ~(pc = "done" /\ cb) => answers'[e] = <<>>
  <2>1. CASE pc = "done" /\ cb
    <3>1. PICK st \in {"INVALID_ARGUMENT", "MISSED_DEADLINE_PERSISTENT"} :
             Answer(e, st, {}) /\ (kind = "async" => st = "INVALID_ARGUMENT")
      BY <2>1
    <3>2. st \in Status /\ {} \in SUBSET Outputs
      BY DEF Status
    <3>3. QED
      BY <1>3, <2>1, <3>1, <3>2, AnswerAdds
  <2>2. CASE ~(pc = "done" /\ cb)
    BY <1>3, <2>2
  <2>3. QED
    BY <2>1, <2>2
<1>5. ClientOK'
  BY <1>2, <1>4 DEF ClientOK
<1>6. ControlOK(e)'
  BY <1>1, <1>2, <1>4 DEF ControlOK, Running
<1>7. EndOK(e)'
  <2>1. answers'[e] \in Seq(AnswerType) /\ (Len(answers'[e]) = 1 => answers'[e] # <<>>)
    BY <1>4, NotEmpty
  <2>2. QED
    BY <1>1, <1>2, <1>4, <2>1 DEF EndOK, Answered, NoStatus
<1>8. ASSUME NEW f \in Execs, f # e PROVE ControlOK(f)' /\ EndOK(f)'
  BY <1>1, <1>2, <1>4, <1>8, Frame DEF IInv
<1>9. QED
  BY <1>1, <1>5, <1>6, <1>7, <1>8

\* What no step of a call, and few steps of a thread, touch.
LEMMA SharedKept ==
  ASSUME IInv
  PROVE  /\ UNCHANGED modelInfo => ModelInfoOK'
         /\ UNCHANGED plugin => PluginOK'
         /\ UNCHANGED memory => MemoryOK'
         /\ UNCHANGED <<model, service>> => LifeOK'
  BY DEF IInv, TypeOK, ModelInfoOK, PluginOK, MemoryOK, LifeOK, modelInfo, plugin, memory

\* Threads, client and executions, put together with the rest.
LEMMA Together ==
  ASSUME ThreadsOK', ClientOK', \A f \in Execs : ControlOK(f)' /\ EndOK(f)',
         ModelInfoOK', PluginOK', MemoryOK', LifeOK'
  PROVE  IInv'
  BY LoopsFollowNext DEF IInv, TypeOK

LEMMA ExecuteKept == ASSUME IInv, NEW e \in Execs, Execute(e) PROVE IInv'
<1>1. PICK r \in Requests, cb \in BOOLEAN :
        /\ Accept(e, "async", r, <<>>, cb)
        /\ \/ /\ ~cb
              /\ ret' = [ret EXCEPT ![e] = "INVALID_ARGUMENT"]
              /\ Goto(e, "done", 1)
              /\ UNCHANGED answers
           \/ /\ cb /\ ~Valid(r)
              /\ Answer(e, "INVALID_ARGUMENT", {})
              /\ ret' = [ret EXCEPT ![e] = "INVALID_ARGUMENT"]
              /\ Goto(e, "done", 1)
           \/ /\ cb /\ Valid(r)
              /\ ret' = [ret EXCEPT ![e] = "returning"]
              /\ Goto(e, "attach", 1)
              /\ UNCHANGED answers
  BY DEF Execute
<1>2. /\ at[e].pc = "idle" /\ <<>> \in FenceLists \cup {<<>>}
      /\ "async" \in {"async", "sync", "fenced"}
      /\ ret \in [Execs -> {NoStatus, "returning", "NONE", "INVALID_ARGUMENT"}]
  BY DEF Execute, CanCall, Up, IInv, TypeOK, ClientOK
<1>3. ThreadsOK' /\ ClientOK' /\ \A f \in Execs : ControlOK(f)' /\ EndOK(f)'
  <2>1. CASE ~cb
    BY <1>1, <1>2, <2>1, CallKept
  <2>2. CASE cb /\ ~Valid(r)
    <3>1. /\ Accept(e, "async", r, <<>>, cb) /\ Goto(e, "done", 1)
          /\ Answer(e, "INVALID_ARGUMENT", {})
          /\ ret' = [ret EXCEPT ![e] = "INVALID_ARGUMENT"]
      BY <1>1, <2>2
    <3>2. /\ ret' \in [Execs -> {NoStatus, "returning", "NONE", "INVALID_ARGUMENT"}]
          /\ ret'[e] = "INVALID_ARGUMENT"
          /\ \A f \in Execs : f # e => ret'[f] = ret[f]
      BY <1>2, <3>1
    <3>3. \E st \in {"INVALID_ARGUMENT", "MISSED_DEADLINE_PERSISTENT"} :
             Answer(e, st, {}) /\ ("async" = "async" => st = "INVALID_ARGUMENT")
      BY <3>1
    <3>4. QED
      BY <1>2, <2>2, <3>1, <3>2, <3>3, CallKept
  <2>3. CASE cb /\ Valid(r)
    BY <1>1, <1>2, <2>3, CallKept
  <2>4. QED
    BY <2>1, <2>2, <2>3
<1>4. QED
  BY <1>3, SharedKept, Together DEF Execute

LEMMA ExecuteSynchronouslyKept ==
  ASSUME IInv, NEW e \in Execs, ExecuteSynchronously(e) PROVE IInv'
<1>1. PICK r \in Requests :
        /\ Accept(e, "sync", r, <<>>, TRUE)
        /\ IF Valid(r) THEN Goto(e, "resize", 1) /\ UNCHANGED answers
                       ELSE Goto(e, "done", 1) /\ Answer(e, "INVALID_ARGUMENT", {})
  BY DEF ExecuteSynchronously
<1>2. /\ at[e].pc = "idle" /\ <<>> \in FenceLists \cup {<<>>} /\ ret[e] = NoStatus
      /\ "sync" \in {"async", "sync", "fenced"} /\ TRUE \in BOOLEAN
      /\ ret \in [Execs -> {NoStatus, "returning", "NONE", "INVALID_ARGUMENT"}]
      /\ ret' = ret
  BY DEF ExecuteSynchronously, CanCall, Up, IInv, TypeOK, ClientOK, ControlOK, Bare
<1>3. ThreadsOK' /\ ClientOK' /\ \A f \in Execs : ControlOK(f)' /\ EndOK(f)'
  <2>1. CASE Valid(r)
    BY <1>1, <1>2, <2>1, CallKept DEF NoStatus
  <2>2. CASE ~Valid(r)
    BY <1>1, <1>2, <2>2, CallKept
  <2>3. QED
    BY <2>1, <2>2
<1>4. QED
  BY <1>3, SharedKept, Together DEF ExecuteSynchronously

LEMMA ExecuteFencedKept ==
  ASSUME IInv, NEW e \in Execs, ExecuteFenced(e) PROVE IInv'
<1>1. PICK r \in Requests, w \in FenceLists, late \in BOOLEAN :
        /\ Accept(e, "fenced", r, w, TRUE)
        /\ \/ /\ ~ValidFenced(r)
              /\ Answer(e, "INVALID_ARGUMENT", {}) /\ Goto(e, "done", 1)
           \/ /\ ValidFenced(r) /\ late
              /\ Answer(e, "MISSED_DEADLINE_PERSISTENT", {}) /\ Goto(e, "done", 1)
           \/ /\ ValidFenced(r) /\ ~late
              /\ Goto(e, IF w = <<>> THEN "resize" ELSE "fences", 1)
              /\ UNCHANGED answers
  BY DEF ExecuteFenced
<1>2. /\ at[e].pc = "idle" /\ w \in FenceLists \cup {<<>>} /\ ret[e] = NoStatus
      /\ "fenced" \in {"async", "sync", "fenced"} /\ TRUE \in BOOLEAN
      /\ ret \in [Execs -> {NoStatus, "returning", "NONE", "INVALID_ARGUMENT"}]
      /\ ret' = ret
  BY DEF ExecuteFenced, CanCall, Up, IInv, TypeOK, ClientOK, ControlOK, Bare
<1>3. w # <<>> => Len(w) \in Nat \ {0}
  BY FencesAssumption
<1>4. ThreadsOK' /\ ClientOK' /\ \A f \in Execs : ControlOK(f)' /\ EndOK(f)'
  <2>1. CASE ~ValidFenced(r)
    BY <1>1, <1>2, <2>1, CallKept
  <2>2. CASE ValidFenced(r) /\ late
    BY <1>1, <1>2, <2>2, CallKept
  <2>3. CASE ValidFenced(r) /\ ~late /\ w = <<>>
    BY <1>1, <1>2, <2>3, CallKept DEF NoStatus, ValidFenced
  <2>4. CASE ValidFenced(r) /\ ~late /\ w # <<>>
    BY <1>1, <1>2, <1>3, <2>4, CallKept DEF NoStatus, ValidFenced
  <2>5. QED
    BY <2>1, <2>2, <2>3, <2>4
<1>5. QED
  BY <1>4, SharedKept, Together DEF ExecuteFenced

LEMMA ExecuteReturnsKept ==
  ASSUME IInv, NEW e \in Execs, ExecuteReturns(e) PROVE IInv'
<1>1. /\ ret' = [ret EXCEPT ![e] = "NONE"] /\ ret[e] = "returning"
      /\ UNCHANGED <<at, call, answers>>
      /\ ret \in [Execs -> {NoStatus, "returning", "NONE", "INVALID_ARGUMENT"}]
  BY DEF ExecuteReturns, IInv, TypeOK, ClientOK
<1>2. ThreadsOK' /\ ClientOK'
  BY <1>1 DEF IInv, TypeOK, ThreadsOK, ClientOK
<1>3. ControlOK(e)' /\ EndOK(e)'
  BY <1>1 DEF IInv, ControlOK, EndOK, Running, Bare, Answered, NoStatus
<1>4. ASSUME NEW f \in Execs, f # e PROVE ControlOK(f)' /\ EndOK(f)'
  BY <1>1, <1>4, Frame DEF IInv
<1>5. QED
  BY <1>2, <1>3, <1>4, SharedKept, Together DEF ExecuteReturns

\* What the type of a request says of an execution that runs.
LEMMA RunningType ==
  ASSUME IInv, NEW e \in Execs, Running(e)
  PROVE  /\ call[e].req \in Requests /\ call[e].waitFor \in FenceLists \cup {<<>>}
         /\ call[e].req \in RequestType
         /\ Len(call[e].req.pools) \in 0 .. MaxPools /\ Len(call[e].req.pools) \in Nat
         /\ Len(call[e].waitFor) \in Nat
         /\ call[e].req.pools = <<>> <=> Len(call[e].req.pools) = 0
         /\ \A i \in Inputs : call[e].req.in[i] \in Slots
         /\ \A o \in Outputs : call[e].req.out[o] \in Slots
         /\ at[e].pc \in PcType /\ at[e].k \in Nat \ {0}
         /\ ThreadsOK
<1>1. call[e] \in CallType
  BY DEF IInv, ControlOK, Running
<1>2. call[e].req \in Requests /\ call[e].waitFor \in FenceLists \cup {<<>>}
  BY <1>1 DEF CallType
<1>3. /\ call[e].req \in RequestType /\ Len(call[e].req.pools) \in 0 .. MaxPools
      /\ call[e].req.pools = <<>> <=> Len(call[e].req.pools) = 0
  <2>1. call[e].req \in RequestType /\ Len(call[e].req.pools) <= MaxPools
    BY <1>2, RequestsAssumption
  <2>2. call[e].req.pools \in Seq(PoolKind)
    BY <2>1 DEF RequestType
  <2>3. QED
    BY <2>1, <2>2, EmptySeq, SizesAssumption
<1>4. Len(call[e].waitFor) \in Nat
  BY <1>2, FencesAssumption
<1>5. \A i \in Inputs : call[e].req.in[i] \in Slots
  BY <1>3 DEF RequestType
<1>6. \A o \in Outputs : call[e].req.out[o] \in Slots
  BY <1>3 DEF RequestType
<1>7. ThreadsOK /\ at[e].pc \in PcType /\ at[e].k \in Nat \ {0}
  BY DEF IInv, TypeOK, ThreadsOK, ThreadType
<1>8. QED
  BY <1>2, <1>3, <1>4, <1>5, <1>6, <1>7

LEMMA SizesType ==
  /\ NumInputs \in Nat \ {0} /\ NumOutputs \in Nat \ {0}
  /\ NamedInputs \subseteq Inputs /\ NamedOutputs \subseteq Outputs
  /\ 1 \in Inputs /\ 1 \in Outputs
  BY SizesAssumption DEF Inputs, Outputs

\* A thread that goes to the start of a later part of its program.
LEMMA GotoAdvances ==
  ASSUME IInv, NEW e \in Execs, Running(e), UNCHANGED client,
         NEW pc \in {"resize", "pools", "inputs", "start", "wait", "outputs",
                     "update", "report"},
         pc = "pools" => call[e].req.pools # <<>>,
         Goto(e, pc, 1)
  PROVE  ThreadsOK' /\ ClientOK' /\ \A f \in Execs : ControlOK(f)' /\ EndOK(f)'
<1>1. /\ ThreadsOK' /\ at'[e].pc = pc /\ at'[e].k = 1
      /\ \A f \in Execs : f # e => at'[f] = at[f]
  <2>1. pc \in PcType /\ 1 \in Nat \ {0}
    BY DEF PcType
  <2>2. QED
    BY <2>1, GotoType DEF IInv, TypeOK
<1>2. pc = "pools" => 1 \in 1 .. Len(call[e].req.pools)
  BY RunningType
<1>3. QED
  BY <1>1, <1>2, SizesType, Advance

\* A thread that goes on with a loop, or leaves it.
LEMMA IterateAdvances ==
  ASSUME IInv, NEW e \in Execs, Running(e), UNCHANGED client,
         NEW next \in {"resize", "inputs", "start", "update"}, NEW n \in Nat,
         at[e].pc \in {"fences", "pools", "inputs", "outputs"},
         at[e].pc = "fences"  => n = Len(call[e].waitFor),
         at[e].pc = "pools"   => n = Len(call[e].req.pools),
         at[e].pc = "inputs"  => n = NumInputs,
         at[e].pc = "outputs" => n = NumOutputs,
         Iterate(e, n, next)
  PROVE  ThreadsOK' /\ ClientOK' /\ \A f \in Execs : ControlOK(f)' /\ EndOK(f)'
<1>1. /\ at[e].k \in 1 .. n
      /\ at[e].pc = "fences" => call[e].kind = "fenced"
  BY DEF IInv, ControlOK, Inputs, Outputs
<1>2. /\ ThreadsOK'
      /\ \/ at'[e].pc = at[e].pc /\ at'[e].k \in 1 .. n
         \/ at'[e].pc = next /\ at'[e].k = 1
      /\ \A f \in Execs : f # e => at'[f] = at[f]
  <2>1. next \in PcType
    BY DEF PcType
  <2>2. QED
    BY <1>1, <2>1, IterateType DEF IInv, TypeOK
<1>3. CASE at'[e].pc = at[e].pc /\ at'[e].k \in 1 .. n
  BY <1>1, <1>2, <1>3, Advance DEF Inputs, Outputs
<1>4. CASE at'[e].pc = next /\ at'[e].k = 1
  BY <1>2, <1>4, SizesType, Advance
<1>5. QED
  BY <1>2, <1>3, <1>4

LEMMA WaitFenceKept == ASSUME IInv, NEW e \in Execs, WaitFence(e) PROVE IInv'
<1>1. Running(e) /\ at[e].pc = "fences" /\ call[e].kind = "fenced"
  BY DEF WaitFence, Up, Running, IInv, ControlOK
<1>2. "INVALID_ARGUMENT" \in Status /\ "GENERAL_FAILURE" \in Status
  BY DEF Status
<1>3. ThreadsOK' /\ ClientOK' /\ \A f \in Execs : ControlOK(f)' /\ EndOK(f)'
  <2>1. CASE Fail(e, "INVALID_ARGUMENT")
    BY <1>1, <1>2, <2>1, FailEnds
  <2>2. CASE Fail(e, "GENERAL_FAILURE")
    BY <1>1, <1>2, <2>2, FailEnds
  <2>3. CASE Iterate(e, Len(call[e].waitFor), "resize") /\ UNCHANGED client
    BY <1>1, <2>3, RunningType, IterateAdvances
  <2>4. QED
    BY <2>1, <2>2, <2>3 DEF WaitFence
<1>4. QED
  BY <1>3, SharedKept, Together DEF WaitFence

LEMMA AttachKept == ASSUME IInv, NEW e \in Execs, Attach(e) PROVE IInv'
<1>1. Running(e)
  BY DEF Attach, Up, Running
<1>2. CASE Down
  BY <1>2, DownType
<1>3. CASE /\ Goto(e, "resize", 1)
           /\ UNCHANGED <<client, modelInfo, plugin, memory, model, service>>
  BY <1>1, <1>3, GotoAdvances, SharedKept, Together
<1>4. QED
  BY <1>2, <1>3 DEF Attach

LEMMA ResizePoolsKept == ASSUME IInv, NEW e \in Execs, ResizePools(e) PROVE IInv'
<1> DEFINE next == IF call[e].req.pools = <<>> THEN "inputs" ELSE "pools"
<1>1. ThreadsOK' /\ ClientOK' /\ \A f \in Execs : ControlOK(f)' /\ EndOK(f)'
  <2>1. Running(e) /\ UNCHANGED client /\ Goto(e, next, 1)
    BY DEF ResizePools, Up, Running
  <2>2. next \in {"inputs", "pools"} /\ (next = "pools" => call[e].req.pools # <<>>)
    OBVIOUS
  <2>3. QED
    BY <2>1, <2>2, GotoAdvances
<1>2. ModelInfoOK'
  BY DEF IInv, TypeOK, ModelInfoOK, ResizePools, Resized
<1>3. QED
  BY <1>1, <1>2, SharedKept, Together DEF ResizePools

LEMMA SetPoolKept == ASSUME IInv, NEW e \in Execs, SetPool(e) PROVE IInv'
<1> DEFINE s == at[e].k
           r == call[e].req
<1>1. /\ Running(e) /\ at[e].pc = "pools" /\ s \in 1 .. Len(r.pools)
      /\ Len(r.pools) \in Nat
  BY RunningType DEF SetPool, Up, Running, IInv, ControlOK
<1>2. CASE Down
  BY <1>2, DownType
<1>3. CASE /\ pools' = Mapped(e, s)
           /\ Iterate(e, Len(r.pools), "inputs")
           /\ UNCHANGED <<client, insufficient, plugin, memory, model, service>>
  <2>1. ThreadsOK' /\ ClientOK' /\ \A f \in Execs : ControlOK(f)' /\ EndOK(f)'
    BY <1>1, <1>3, IterateAdvances
  <2>2. ModelInfoOK'
    BY <1>3 DEF IInv, TypeOK, ModelInfoOK, Mapped
  <2>3. QED
    BY <1>3, <2>1, <2>2, SharedKept, Together
<1>4. CASE /\ pools' = [pools EXCEPT ![s] = IF Unsupported(e, s) THEN @ ELSE Unmapped]
           /\ Fail(e, PoolFailure(e, s))
           /\ UNCHANGED <<insufficient, plugin, memory, model, service>>
  <2>1. "INVALID_ARGUMENT" \in Status /\ "GENERAL_FAILURE" \in Status
    BY DEF Status
  <2>2. ThreadsOK' /\ ClientOK' /\ \A f \in Execs : ControlOK(f)' /\ EndOK(f)'
    <3>1. CASE Unsupported(e, s)
      BY <1>1, <1>4, <2>1, <3>1, FailEnds DEF PoolFailure, Unsupported
    <3>2. CASE ~Unsupported(e, s)
      BY <1>1, <1>4, <2>1, <3>2, FailEnds DEF PoolFailure
    <3>3. QED
      BY <3>1, <3>2
  <2>3. ModelInfoOK'
    BY <1>4 DEF IInv, TypeOK, ModelInfoOK
  <2>4. QED
    BY <1>4, <2>2, <2>3, SharedKept, Together
<1>5. QED
  BY <1>2, <1>3, <1>4 DEF SetPool

\* A copy past the end of something leaves blobs, and the execution on its list.
LEMMA OverrunType ==
  ASSUME PluginOK, NEW e \in Execs, NEW blobs \in Data, Overrun(e, blobs),
         UNCHANGED <<device, raised>>
  PROVE  PluginOK'
<1>1. ASSUME NEW b \in Data, NEW d \in Damaged(b) PROVE d \in Data
  BY <1>1 DEF Damaged, Data
<1>2. QED
  BY <1>1 DEF Overrun, PluginOK

LEMMA CopyInputKept == ASSUME IInv, NEW e \in Execs, CopyInput(e) PROVE IInv'
<1> DEFINE i == at[e].k
           s == call[e].req.in[i]
<1>1. Running(e) /\ at[e].pc = "inputs" /\ i \in Inputs
  BY DEF CopyInput, Up, Running, IInv, ControlOK
<1>2. CASE Down
  BY <1>2, DownType
<1>3. CASE /\ Iterate(e, NumInputs, "start")
           /\ UNCHANGED <<client, modelInfo, plugin, memory, model, service>>
  BY <1>1, <1>3, SizesType, IterateAdvances, SharedKept, Together
<1>4. CASE /\ pools[s] \in Execs /\ i \in NamedInputs
           /\ inBlob' = [inBlob EXCEPT ![i] =
                            IF call[e].req.inLength[i] = "exact" \/ @ = pools[s]
                            THEN pools[s] ELSE Mixed]
           /\ Iterate(e, NumInputs, "start")
           /\ UNCHANGED <<client, modelInfo, outBlob, device, raised, overran>>
           /\ UNCHANGED <<memory, model, service>>
  <2>1. ThreadsOK' /\ ClientOK' /\ \A f \in Execs : ControlOK(f)' /\ EndOK(f)'
    BY <1>1, <1>4, SizesType, IterateAdvances
  <2>2. PluginOK'
    BY <1>4 DEF IInv, TypeOK, PluginOK, Data
  <2>3. QED
    BY <1>4, <2>1, <2>2, SharedKept, Together
<1>5. CASE /\ pools[s] \in Execs /\ i \in NamedInputs
           /\ Overrun(e, [inBlob EXCEPT ![i] = pools[s]])
           /\ Iterate(e, NumInputs, "start")
           /\ UNCHANGED <<client, modelInfo, device, raised, memory, model, service>>
  <2>1. ThreadsOK' /\ ClientOK' /\ \A f \in Execs : ControlOK(f)' /\ EndOK(f)'
    BY <1>1, <1>5, SizesType, IterateAdvances
  <2>2. [inBlob EXCEPT ![i] = pools[s]] \in Data
    BY <1>5 DEF IInv, TypeOK, PluginOK, Data
  <2>3. PluginOK'
    BY <1>5, <2>2, OverrunType DEF IInv, TypeOK
  <2>4. QED
    BY <1>5, <2>1, <2>3, SharedKept, Together
<1>6. QED
  BY <1>2, <1>3, <1>4, <1>5 DEF CopyInput, GetBlobThrows

LEMMA StartAsyncKept == ASSUME IInv, NEW e \in Execs, StartAsync(e) PROVE IInv'
<1>1. Running(e)
  BY DEF StartAsync, Up, Running
<1>2. ThreadsOK' /\ ClientOK' /\ \A f \in Execs : ControlOK(f)' /\ EndOK(f)'
  <2>1. CASE Fail(e, "GENERAL_FAILURE")
    <3>1. "GENERAL_FAILURE" \in Status
      BY DEF Status
    <3>2. QED
      BY <1>1, <2>1, <3>1, FailEnds
  <2>2. CASE Goto(e, "wait", 1) /\ UNCHANGED client
    BY <1>1, <2>2, GotoAdvances
  <2>3. QED
    BY <2>1, <2>2 DEF StartAsync
<1>3. PluginOK'
  BY DEF StartAsync, IInv, TypeOK, PluginOK
<1>4. QED
  BY <1>2, <1>3, SharedKept, Together DEF StartAsync

LEMMA WaitReturnsKept == ASSUME IInv, NEW e \in Execs, WaitReturns(e) PROVE IInv'
<1>1. Running(e) /\ "GENERAL_FAILURE" \in Status
  BY DEF WaitReturns, Up, Running, Status
<1>2. ThreadsOK' /\ ClientOK' /\ \A f \in Execs : ControlOK(f)' /\ EndOK(f)'
  <2>1. CASE Fail(e, "GENERAL_FAILURE")
    BY <1>1, <2>1, FailEnds
  <2>2. CASE Goto(e, "outputs", 1) /\ UNCHANGED client
    BY <1>1, <2>2, GotoAdvances
  <2>3. QED
    BY <2>1, <2>2 DEF WaitReturns
<1>3. QED
  BY <1>2, SharedKept, Together DEF WaitReturns

LEMMA WaitTimesOutKept == ASSUME IInv, NEW e \in Execs, WaitTimesOut(e) PROVE IInv'
  BY GotoAdvances, SharedKept, Together DEF WaitTimesOut, Up, Running

LEMMA CopyOutputKept == ASSUME IInv, NEW e \in Execs, CopyOutput(e) PROVE IInv'
<1> DEFINE o == at[e].k
           s == call[e].req.out[o]
           shapes == ShapesTold(e, insufficient')
<1>1. /\ Running(e) /\ at[e].pc = "outputs" /\ o \in Outputs
      /\ s \in Slots
  BY RunningType DEF CopyOutput, Up, Running, IInv, ControlOK
<1>2. CASE Down
  BY <1>2, DownType
<1>3. CASE /\ Iterate(e, NumOutputs, "update")
           /\ UNCHANGED <<client, modelInfo, plugin, memory, model, service>>
  BY <1>1, <1>3, SizesType, IterateAdvances, SharedKept, Together
<1>4. CASE /\ UpdateOutputShapes(o, FALSE)
           /\ Answer(e, "OUTPUT_INSUFFICIENT_SIZE", shapes)
           /\ Goto(e, "done", 1)
           /\ UNCHANGED <<call, ret, pools, plugin, memory, model, service>>
  <2>1. insufficient' \subseteq Outputs
    BY <1>1, <1>4 DEF UpdateOutputShapes, IInv, TypeOK, ModelInfoOK
  <2>2. shapes \in SUBSET Outputs /\ "OUTPUT_INSUFFICIENT_SIZE" \in Status
    BY <2>1 DEF Status, ShapesTold
  <2>3. ThreadsOK' /\ ClientOK' /\ \A f \in Execs : ControlOK(f)' /\ EndOK(f)'
    BY <1>1, <1>4, <2>2, AnswerEnds
  <2>4. ModelInfoOK'
    BY <1>4, <2>1 DEF IInv, TypeOK, ModelInfoOK
  <2>5. QED
    BY <1>4, <2>3, <2>4, SharedKept, Together
<1>5. CASE /\ pools[s] \in Execs
           /\ UpdateOutputShapes(o, TRUE)
           /\ mem' = [mem EXCEPT ![pools[s]][s][o] = outBlob]
           /\ dirty' = dirty \cup {<<pools[s], s>>}
           /\ IF call[e].req.outLength[o] = "outside"
              THEN Overrun(e, inBlob) ELSE UNCHANGED <<overran, inBlob, outBlob>>
           /\ Iterate(e, NumOutputs, "update")
           /\ UNCHANGED <<client, pools, device, raised, model, service>>
  <2>0. PluginOK'
    <3>1. CASE Overrun(e, inBlob)
      BY <1>5, <3>1, OverrunType DEF IInv, TypeOK, PluginOK
    <3>2. CASE UNCHANGED <<overran, inBlob, outBlob>>
      BY <1>5, <3>2 DEF IInv, TypeOK, PluginOK
    <3>3. QED
      BY <1>5, <3>1, <3>2
  <2>1. ThreadsOK' /\ ClientOK' /\ \A f \in Execs : ControlOK(f)' /\ EndOK(f)'
    BY <1>1, <1>5, SizesType, IterateAdvances
  <2>2. ModelInfoOK'
    BY <1>5 DEF UpdateOutputShapes, IInv, TypeOK, ModelInfoOK
  <2>3. MemoryOK'
    <3>1. outBlob \in Data /\ mem \in [Execs -> MemoryType] /\ dirty \subseteq Execs \X Slots
      BY DEF IInv, TypeOK, MemoryOK, PluginOK
    <3>2. [mem[pools[s]] EXCEPT ![s][o] = outBlob] \in MemoryType
      <4>1. /\ mem[pools[s]] \in [Slots -> [Outputs -> Data \cup {Kept}]]
            /\ mem[pools[s]][s] \in [Outputs -> Data \cup {Kept}]
        BY <1>1, <1>5, <3>1 DEF MemoryType
      <4>2. [mem[pools[s]][s] EXCEPT ![o] = outBlob] \in [Outputs -> Data \cup {Kept}]
        BY <3>1, <4>1
      <4>3. [mem[pools[s]] EXCEPT ![s] = [mem[pools[s]][s] EXCEPT ![o] = outBlob]] \in MemoryType
        BY <4>1, <4>2 DEF MemoryType
      <4>4. QED
        BY <4>3
    <3>3. mem' = [mem EXCEPT ![pools[s]] = [mem[pools[s]] EXCEPT ![s][o] = outBlob]]
      BY <1>5
    <3>4. mem' \in [Execs -> MemoryType]
      BY <3>1, <3>2, <3>3
    <3>5. dirty' \subseteq Execs \X Slots
      <4>1. <<pools[s], s>> \in Execs \X Slots
        BY <1>1, <1>5
      <4>2. dirty' = dirty \cup {<<pools[s], s>>}
        BY <1>5
      <4>3. QED
        BY <3>1, <4>1, <4>2
    <3>6. QED
      BY <3>4, <3>5 DEF MemoryOK
  <2>4. QED
    BY <1>5, <2>0, <2>1, <2>2, <2>3, SharedKept, Together
<1>6. QED
  BY <1>2, <1>3, <1>4, <1>5 DEF CopyOutput, GetBlobThrows

LEMMA UpdateRequestPoolInfosKept ==
  ASSUME IInv, NEW e \in Execs, UpdateRequestPoolInfos(e) PROVE IInv'
<1>1. CASE Down
  BY <1>1, DownType
<1>2. CASE /\ dirty' = Uncommitted
           /\ Goto(e, "report", 1)
           /\ UNCHANGED <<client, modelInfo, plugin, mem, model, service>>
  <2>1. MemoryOK'
    BY <1>2 DEF IInv, TypeOK, MemoryOK, Uncommitted
  <2>2. QED
    BY <1>2, <2>1, GotoAdvances, SharedKept, Together
       DEF UpdateRequestPoolInfos, Up, Running
<1>3. QED
  BY <1>1, <1>2 DEF UpdateRequestPoolInfos

LEMMA ReportKept == ASSUME IInv, NEW e \in Execs, Report(e) PROVE IInv'
<1> DEFINE shapes == ShapesTold(e, insufficient)
<1>1. Running(e) /\ "NONE" \in Status /\ shapes \in SUBSET Outputs
  BY DEF Report, Up, Running, Status, ShapesTold, IInv, TypeOK, ModelInfoOK
<1>2. ThreadsOK' /\ ClientOK' /\ \A f \in Execs : ControlOK(f)' /\ EndOK(f)'
  BY <1>1, AnswerEnds DEF Report
<1>3. QED
  BY <1>2, SharedKept, Together DEF Report

\* Steps of the device, the destructor and stuttering move no thread.
LEMMA OthersKept ==
  ASSUME IInv, DeviceFinishes \/ OverrunFaults \/ Destroy \/ UNCHANGED vars PROVE IInv'
<1>1. UNCHANGED <<at, client>> => ThreadsOK' /\ ClientOK'
  BY DEF IInv, TypeOK, ThreadsOK, ClientOK, client
<1>2. UNCHANGED <<at, client>> => \A f \in Execs : ControlOK(f)' /\ EndOK(f)'
  BY Frame DEF IInv, client
<1>3. CASE DeviceFinishes
  <2>1. PluginOK'
    BY <1>3 DEF DeviceFinishes, IInv, TypeOK, PluginOK
  <2>2. QED
    BY <1>1, <1>2, <1>3, <2>1, SharedKept, Together DEF DeviceFinishes
<1>4. CASE Destroy
  <2>1. ModelInfoOK' /\ LifeOK'
    BY <1>4 DEF Destroy, IInv, TypeOK, ModelInfoOK, LifeOK
  <2>2. QED
    BY <1>1, <1>2, <1>4, <2>1, SharedKept, Together DEF Destroy
<1>5. CASE UNCHANGED vars
  BY <1>1, <1>2, <1>5, SharedKept, Together DEF vars
<1>6. CASE OverrunFaults
  BY <1>6, DownType DEF OverrunFaults
<1>7. QED
  BY <1>3, <1>4, <1>5, <1>6

-----------------------------------------------------------------------------
(* The theorems.                                                           *)

LEMMA InitIInv == Init => IInv
<1> SUFFICES ASSUME Init PROVE IInv
  OBVIOUS
<1>1. ThreadsOK
  BY DEF Init, ThreadsOK, ThreadType, PcType
<1>2. ClientOK
  BY DEF Init, ClientOK
<1>3. ModelInfoOK /\ LifeOK
  BY DEF Init, ModelInfoOK, LifeOK
<1>4. NoData \in Data
  BY DEF NoData, Data
<1>5. PluginOK
  BY <1>4 DEF Init, PluginOK
<1>6. MemoryOK
  BY <1>4 DEF Init, MemoryOK, MemoryType
<1>7. ASSUME NEW e \in Execs PROVE ControlOK(e) /\ EndOK(e)
  BY DEF Init, ControlOK, EndOK, Running, Bare
<1>8. QED
  BY <1>1, <1>2, <1>3, <1>5, <1>6, <1>7, LoopsFollow DEF IInv, TypeOK

LEMMA NextIInv == IInv /\ [Next]_vars => IInv'
<1> SUFFICES ASSUME IInv, [Next]_vars PROVE IInv'
  OBVIOUS
<1>1. ASSUME NEW e \in Execs, Calls(e) PROVE IInv'
  BY <1>1, ExecuteKept, ExecuteSynchronouslyKept, ExecuteFencedKept DEF Calls
<1>2. ASSUME NEW e \in Execs, Runs(e) PROVE IInv'
  BY <1>2, ExecuteReturnsKept, WaitFenceKept, AttachKept, ResizePoolsKept, SetPoolKept,
     CopyInputKept, StartAsyncKept, WaitReturnsKept, WaitTimesOutKept, CopyOutputKept,
     UpdateRequestPoolInfosKept, ReportKept DEF Runs, Infers
<1>3. ASSUME DeviceFinishes \/ OverrunFaults \/ Destroy \/ UNCHANGED vars PROVE IInv'
  BY <1>3, OthersKept
<1>4. QED
  BY <1>1, <1>2, <1>3 DEF Next, Quiescent

LEMMA InvariantHolds == Spec => []IInv
  BY InitIInv, NextIInv, PTL DEF Spec

\* The variables keep their types, whatever the clients, the schedule and the
\* device do, and no execution counts past its fences, pools, inputs or outputs.
THEOREM TypeCorrect == Spec => []TypeOK
<1>1. IInv => TypeOK
  BY DEF IInv
<1>2. QED
  BY <1>1, InvariantHolds, PTL

\* Every call is answered exactly once, by its last step, or not at all when
\* it has no callback; and what execute() returned agrees with the answer.
THEOREM AnswersDisciplined == Spec => []AnswerDiscipline
<1>1. IInv => AnswerDiscipline
  <2> SUFFICES ASSUME IInv, NEW e \in Execs PROVE Disciplined(e)
    BY DEF AnswerDiscipline
  <2> USE DEF Disciplined
  <2>1. CASE at[e].pc = "idle"
    <3>1. Bare(e)
      BY <2>1 DEF IInv, ControlOK
    <3>2. Len(<<>>) = 0
      OBVIOUS
    <3>3. Len(answers[e]) = 0 /\ at[e].pc # "done"
      BY <2>1, <3>1, <3>2 DEF Bare
    <3>4. ret[e] \notin {"returning", "NONE", "INVALID_ARGUMENT"}
      BY <3>1 DEF Bare, NoStatus
    <3>5. QED
      BY <3>3, <3>4
  <2>2. CASE Running(e)
    BY <2>2 DEF IInv, ControlOK, Running, Answered
  <2>3. CASE at[e].pc = "done"
    BY <2>3 DEF IInv, EndOK
  <2>4. QED
    BY <2>1, <2>2, <2>3 DEF Running
<1>2. QED
  BY <1>1, InvariantHolds, PTL

-----------------------------------------------------------------------------
(* An execution that no other overlaps, and whose inference ends in time.  *)

\* The steps of a thread before and after setRunTimePoolInfosFromHidlMemories.
BeforePools == {"idle", "fences", "attach", "resize"}
WithPools   == {"inputs", "start", "wait", "outputs", "update"}

\* The outputs e has copied so far, on its way to an answer.
Copied(e) ==
    {o \in NamedOutputs : \/ at[e].pc \in {"update", "report"}
                          \/ at[e].pc = "outputs" /\ o < at[e].k}

\* The memory of e holds the outputs in S, where e asked for them, and no more.
Holds(e, S) ==
    \A s \in Slots, o \in Outputs :
        IF o \in S /\ s = call[e].req.out[o]
        THEN mem[e][s][o] # Kept /\ (Sized(call[e].req) => mem[e][s][o] = Inference(e))
        ELSE mem[e][s][o] = Kept

\* The outputs in S fitted, and are not in the set of short ones.
Fits(r, o) == r.outLength[o] \in {"exact", "outside"}
Fitted(e, S, short) == \A o \in S : Fits(call[e].req, o) /\ o \notin short

\* Only ~BasePreparedModel unmaps a pool that e has mapped.
Mine(e, s) == pools[s] = e \/ (pools[s] = Unmapped /\ model = "destroyed")

\* The slots are those of e's request: all are there, and those e has been
\* through are its own.  Without a pool it does not get past its inputs.
PoolsOK(e) ==
    /\ at[e].pc \in BeforePools => \A s \in Slots : pools[s] # e
    /\ at[e].pc \in {"pools"} \cup WithPools =>
         \A s \in Slots : (pools[s] = Absent) <=> s > Len(call[e].req.pools)
    /\ at[e].pc = "pools" => \A s \in Slots : s < at[e].k => Mine(e, s)
    /\ at[e].pc \in WithPools =>
         \A s \in Slots : s <= Len(call[e].req.pools) => Mine(e, s)
    /\ at[e].pc \in {"start", "wait", "outputs", "update", "report"} =>
         call[e].req.pools # <<>>

\* The device works for e, or for nobody, from the start of its inference to its
\* end.  The blobs hold the inputs of e until then, and afterwards the outputs
\* computed from them, if e has given inputs of the right length.
BlobsOK(e) ==
    /\ Sized(call[e].req) =>
         /\ at[e].pc = "inputs" => \A i \in NamedInputs : i < at[e].k => inBlob[i] = e
         /\ at[e].pc \in {"start", "wait"} => inBlob = Inference(e)
         /\ at[e].pc = "wait" => device = e \/ e \in raised \/ outBlob = Inference(e)
         /\ at[e].pc \in {"outputs", "update", "report"} => outBlob = Inference(e)
    /\ at[e].pc = "wait" => device \in {e, NoExec}
    /\ at[e].pc \in {"outputs", "update", "report"} => device = NoExec
    /\ e \in raised => at[e].pc \in {"wait", "done"}
    /\ device = e => e \notin raised

\* The named outputs before o.
Before(o) == {p \in NamedOutputs : p < o}

\* What the memory of e, once it has ended, and its answer say of each other.
Untouched(e) ==
    /\ Holds(e, {})
    /\ ~Answered(e, "NONE") /\ ~Answered(e, "OUTPUT_INSUFFICIENT_SIZE")

Completed(e) ==
    /\ Answered(e, "NONE")
    /\ Holds(e, NamedOutputs)
    /\ Fitted(e, NamedOutputs, answers[e][1].short)

ShortAt(e, first) ==
    /\ Answered(e, "OUTPUT_INSUFFICIENT_SIZE")
    /\ ~Fits(call[e].req, first)
    /\ call[e].kind # "fenced" => first \in answers[e][1].short
    /\ Holds(e, Before(first))
    /\ Fitted(e, Before(first), answers[e][1].short)

\* The memory of e follows its progress, and once e has ended, its answer.
MemoryFollows(e) ==
    IF at[e].pc = "done"
    THEN Untouched(e) \/ Completed(e) \/ \E first \in NamedOutputs : ShortAt(e, first)
    ELSE Holds(e, Copied(e)) /\ Fitted(e, Copied(e), insufficient)

\* No execution that runs after e has ended writes to the pools of e.
LeftBehind(e) ==
    at[e].pc = "done" =>
        \A f \in Execs \ {e} :
            /\ at[f].pc = "pools" => \A s \in Slots : s < at[f].k => pools[s] # e
            /\ at[f].pc \in WithPools =>
                 \A s \in Slots : s <= Len(call[f].req.pools) => pools[s] # e

CarefulInv(e) == PoolsOK(e) /\ BlobsOK(e) /\ MemoryFollows(e) /\ LeftBehind(e)

\* What e has written is committed before NONE is reported.
CommitInv(e) == at[e].pc = "report" \/ (at[e].pc = "done" /\ Answered(e, "NONE")) => Committed(e)

\* A copy past the end of something is one of an argument that nobody checks.
OverranInv == \A e \in overran : at[e].pc # "idle" /\ Unchecked(call[e].req)

\* The service goes down under a thread that outlived its model, or is lost to an
\* argument that nobody checks, or not at all.
DownInv ==
    /\ OverranInv
    /\ service = "down" =>
         \/ model = "destroyed" /\ \E e \in Execs : at[e].pc \notin {"idle", "done"}
         \/ LostToCulprit

\* A client with one execution in flight, that keeps its model.
SerialInv ==
    /\ \A e, f \in Execs : InFlight(e) /\ InFlight(f) => e = f
    /\ \A e \in Execs : device = e => at[e].pc = "wait"
    /\ \A e \in Execs : KeepsModel(e)

-----------------------------------------------------------------------------
(* What the steps of the threads do to the state an execution relies on.   *)

\* The sentinels, apart from each other and from the executions.
LEMMA Sentinels ==
  ASSUME NEW e \in Execs
  PROVE  e # Absent /\ e # Unmapped /\ e # NoExec /\ e # Mixed /\ Absent # Unmapped
  BY SentinelsAssumption

\* The pool of an argument that is there, or of any argument if there is a pool.
LEMMA Locates ==
  ASSUME IInv, NEW e \in Execs, Running(e)
  PROVE  /\ call[e].req.pools # <<>> =>
               \A i \in Inputs : call[e].req.in[i] <= Len(call[e].req.pools)
         /\ \A o \in Outputs : call[e].req.pools # <<>> \/ ~Mismatch(e, o) =>
               call[e].req.out[o] <= Len(call[e].req.pools)
<1>1. Valid(call[e].req)
  BY DEF IInv, ControlOK
<1>2. call[e].req.pools # <<>> => 1 <= Len(call[e].req.pools)
  BY RunningType
<1>3. QED
  BY <1>1, <1>2 DEF Valid, Located, Mismatch

\* Named inputs and outputs are counted by the loops of the code.
LEMMA Counted ==
  /\ \A i \in NamedInputs  : i \in Nat /\ i <= NumInputs /\ ~(i < 1)
  /\ \A o \in NamedOutputs : o \in Nat /\ o <= NumOutputs /\ ~(o < 1)
<1>1. ASSUME NEW n \in Nat, NEW i \in 1 .. n PROVE i \in Nat /\ i <= n /\ ~(i < 1)
  OBVIOUS
<1>2. QED
  BY <1>1, SizesAssumption DEF Inputs, Outputs

\* A thread goes on at a program counter, and no other thread moves.
LEMMA GotoMoves ==
  ASSUME IInv, NEW e \in Execs, NEW pc \in PcType, NEW k \in Nat \ {0}, Goto(e, pc, k)
  PROVE  /\ at'[e].pc = pc /\ at'[e].k = k
         /\ \A f \in Execs : f # e => at'[f] = at[f]
  BY GotoType DEF IInv, TypeOK

\* A thread goes on with a loop or leaves it after its last iteration.
LEMMA IterateMoves ==
  ASSUME IInv, NEW e \in Execs, NEW n \in Nat, NEW next \in PcType, Iterate(e, n, next)
  PROVE  /\ \/ at[e].k < n /\ at'[e].pc = at[e].pc /\ at'[e].k = at[e].k + 1
            \/ ~(at[e].k < n) /\ at'[e].pc = next /\ at'[e].k = 1
         /\ \A f \in Execs : f # e => at'[f] = at[f]
<1>1. at[e].pc \in PcType /\ at[e].k \in Nat \ {0} /\ at[e].k + 1 \in Nat \ {0}
  BY DEF IInv, TypeOK, ThreadsOK, ThreadType
<1>2. CASE at[e].k < n
  BY <1>1, <1>2, GotoMoves DEF Iterate
<1>3. CASE ~(at[e].k < n)
  BY <1>1, <1>3, GotoMoves DEF Iterate
<1>4. QED
  BY <1>2, <1>3

\* The answer of an execution that has had none.
LEMMA AnswerIs ==
  ASSUME IInv, NEW e \in Execs, answers[e] = <<>>, NEW st, NEW sh, Answer(e, st, sh)
  PROVE  /\ answers'[e] # <<>>
         /\ answers'[e][1].status = st /\ answers'[e][1].short = sh
         /\ \A f \in Execs : f # e => answers'[f] = answers[f]
<1>1. answers \in [Execs -> Seq(AnswerType)]
  BY DEF IInv, TypeOK, ClientOK
<1>2. answers'[e] = Append(<<>>, [status |-> st, short |-> sh])
  BY <1>1 DEF Answer
<1>3. Append(<<>>, [status |-> st, short |-> sh]) = <<[status |-> st, short |-> sh]>>
  OBVIOUS
<1>4. Len(<<[status |-> st, short |-> sh]>>) = 1 /\ Len(<<>>) = 0
  OBVIOUS
<1>5. QED
  BY <1>1, <1>2, <1>3, <1>4 DEF Answer

\* A thread touches the program counter and the client's view of itself only.
LEMMA OthersUntouched ==
  ASSUME IInv, NEW f \in Execs, Calls(f) \/ Runs(f), NEW e \in Execs, e # f
  PROVE  at'[e] = at[e] /\ call'[e] = call[e] /\ ret'[e] = ret[e] /\ answers'[e] = answers[e]
<1> USE DEF IInv, TypeOK, ThreadsOK, ClientOK, client
<1>1. CASE Execute(f)
  BY <1>1 DEF Execute, Accept, Goto, Answer
<1>2. CASE ExecuteSynchronously(f)
  BY <1>2 DEF ExecuteSynchronously, Accept, Goto, Answer
<1>3. CASE ExecuteFenced(f)
  BY <1>3 DEF ExecuteFenced, Accept, Goto, Answer
<1>4. CASE ExecuteReturns(f)
  BY <1>4 DEF ExecuteReturns
<1>5. CASE WaitFence(f) \/ Attach(f) \/ ResizePools(f)
  BY <1>5 DEF WaitFence, Attach, ResizePools, Down, Fail, Iterate, Goto, Answer
<1>6. CASE SetPool(f)
  BY <1>6 DEF SetPool, Down, Fail, Iterate, Goto, Answer
<1>7. CASE CopyInput(f)
  BY <1>7 DEF CopyInput, GetBlobThrows, Down, Iterate, Goto
<1>8. CASE StartAsync(f) \/ WaitReturns(f) \/ WaitTimesOut(f)
  BY <1>8 DEF StartAsync, WaitReturns, WaitTimesOut, Fail, Goto, Answer
<1>9. CASE CopyOutput(f)
  BY <1>9 DEF CopyOutput, GetBlobThrows, Down, Iterate, Goto, Answer
<1>10. CASE UpdateRequestPoolInfos(f) \/ Report(f)
  BY <1>10 DEF UpdateRequestPoolInfos, Report, Down, Goto, Answer
<1>11. QED
  BY <1>1, <1>2, <1>3, <1>4, <1>5, <1>6, <1>7, <1>8, <1>9, <1>10 DEF Calls, Runs, Infers

\* The state that a step of thread f leaves as it is, or changes for itself only.
LEMMA SharedByThread ==
  ASSUME IInv, NEW f \in Execs, Calls(f) \/ Runs(f)
  PROVE  /\ raised' = raised /\ model' = model
         /\ device' = device \/ device' = f
         /\ \A s \in Slots : pools'[s] \in {pools[s], f, Absent, Unmapped}
         /\ dirty' \subseteq dirty \cup {<<pools[s], s>> : s \in Slots}
<1> USE DEF modelInfo, plugin, memory, Down
<1>1. CASE Calls(f) \/ ExecuteReturns(f) \/ WaitFence(f) \/ Attach(f)
  BY <1>1 DEF Calls, Execute, ExecuteSynchronously, ExecuteFenced, ExecuteReturns,
     WaitFence, Attach
<1>2. CASE ResizePools(f)
  BY <1>2 DEF ResizePools, Resized
<1>3. CASE SetPool(f)
  BY <1>3 DEF SetPool, Mapped, IInv, TypeOK, ModelInfoOK
<1>4. CASE CopyInput(f)
  BY <1>4 DEF CopyInput, GetBlobThrows
<1>5. CASE StartAsync(f) \/ WaitReturns(f) \/ WaitTimesOut(f) \/ Report(f)
  BY <1>5 DEF StartAsync, WaitReturns, WaitTimesOut, Report
<1>6. CASE CopyOutput(f)
  <2>1. Running(f) /\ at[f].pc = "outputs"
    BY <1>6 DEF CopyOutput, Up, Running
  <2>2. call[f].req.out[at[f].k] \in Slots
    BY <2>1, RunningType DEF IInv, ControlOK
  <2>3. QED
    BY <1>6, <2>2 DEF CopyOutput, GetBlobThrows
<1>7. CASE UpdateRequestPoolInfos(f)
  BY <1>7 DEF UpdateRequestPoolInfos, Uncommitted
<1>8. QED
  BY <1>1, <1>2, <1>3, <1>4, <1>5, <1>6, <1>7 DEF Runs, Infers

\* Memory of e is written only by a thread that takes a pool of e's for its own.
LEMMA MemoryByThread ==
  ASSUME IInv, NEW f \in Execs, Calls(f) \/ Runs(f), NEW e \in Execs, e # f
  PROVE  \/ mem'[e] = mem[e]
         \/ /\ at[f].pc = "outputs"
            /\ \E s \in Slots : pools[s] = e /\ s <= Len(call[f].req.pools)
<1> USE DEF memory, Down
<1>1. CASE Calls(f) \/ ExecuteReturns(f) \/ WaitFence(f) \/ Attach(f)
  BY <1>1 DEF Calls, Execute, ExecuteSynchronously, ExecuteFenced, ExecuteReturns,
     WaitFence, Attach
<1>2. CASE ResizePools(f) \/ SetPool(f)
  BY <1>2 DEF ResizePools, SetPool
<1>3. CASE CopyInput(f)
  BY <1>3 DEF CopyInput, GetBlobThrows
<1>4. CASE StartAsync(f) \/ WaitReturns(f) \/ WaitTimesOut(f) \/ Report(f)
  BY <1>4 DEF StartAsync, WaitReturns, WaitTimesOut, Report
<1>5. CASE CopyOutput(f)
  <2> DEFINE o == at[f].k
             s == call[f].req.out[o]
  <2>1. Running(f) /\ at[f].pc = "outputs"
    BY <1>5 DEF CopyOutput, Up, Running
  <2>2. o \in Outputs /\ s \in Slots /\ (~Mismatch(f, o) => s <= Len(call[f].req.pools))
    BY <2>1, RunningType, Locates DEF IInv, ControlOK
  <2>3. \/ mem' = mem
        \/ ~Mismatch(f, o) /\ mem' = [mem EXCEPT ![pools[s]][s][o] = outBlob]
    BY <1>5 DEF CopyOutput, GetBlobThrows
  <2>4. mem'[e] = mem[e] \/ (pools[s] = e /\ ~Mismatch(f, o))
    BY <2>3 DEF IInv, TypeOK, MemoryOK
  <2>5. QED
    BY <2>1, <2>2, <2>4
<1>6. CASE UpdateRequestPoolInfos(f)
  BY <1>6 DEF UpdateRequestPoolInfos
<1>7. QED
  BY <1>1, <1>2, <1>3, <1>4, <1>5, <1>6 DEF Runs, Infers

\* A call starts a thread, or ends the execution with a refusal.
LEMMA CallMoves ==
  ASSUME IInv, NEW f \in Execs, Calls(f)
  PROVE  /\ at[f].pc = "idle"
         /\ at'[f].pc \in {"fences", "attach", "resize", "done"}
         /\ at'[f].pc = "done" =>
              /\ ret'[f] # "returning"
              /\ ~Answered(f, "NONE")' /\ ~Answered(f, "OUTPUT_INSUFFICIENT_SIZE")'
         /\ UNCHANGED <<modelInfo, plugin, memory, model, service>>
<1>1. /\ at[f].pc = "idle" /\ UNCHANGED <<modelInfo, plugin, memory, model, service>>
  BY DEF Calls, Execute, ExecuteSynchronously, ExecuteFenced, CanCall, Up
<1>2. /\ answers[f] = <<>> /\ ret[f] = NoStatus
      /\ ret \in [Execs -> {NoStatus, "returning", "NONE", "INVALID_ARGUMENT"}]
  BY <1>1 DEF IInv, ControlOK, Bare, TypeOK, ClientOK
<1>3. ASSUME NEW st \in {"INVALID_ARGUMENT", "MISSED_DEADLINE_PERSISTENT"}, Answer(f, st, {})
      PROVE  ~Answered(f, "NONE")' /\ ~Answered(f, "OUTPUT_INSUFFICIENT_SIZE")'
  BY <1>2, <1>3, AnswerIs DEF Answered
<1>4. ASSUME UNCHANGED answers
      PROVE  ~Answered(f, "NONE")' /\ ~Answered(f, "OUTPUT_INSUFFICIENT_SIZE")'
  BY <1>2, <1>4 DEF Answered
<1>5. ASSUME NEW pc \in {"fences", "attach", "resize", "done"}, Goto(f, pc, 1)
      PROVE  at'[f].pc = pc
  <2>1. pc \in PcType /\ 1 \in Nat \ {0}
    BY DEF PcType
  <2>2. QED
    BY <1>5, <2>1, GotoMoves
<1>6. CASE Execute(f)
  <2>1. CASE ret' = [ret EXCEPT ![f] = "INVALID_ARGUMENT"] /\ Goto(f, "done", 1)
             /\ (UNCHANGED answers \/ Answer(f, "INVALID_ARGUMENT", {}))
    BY <1>1, <1>2, <1>3, <1>4, <1>5, <2>1
  <2>2. CASE Goto(f, "attach", 1)
    BY <1>1, <1>5, <2>2
  <2>3. QED
    BY <1>6, <2>1, <2>2 DEF Execute
<1>7. ASSUME UNCHANGED ret, NEW st \in {"INVALID_ARGUMENT", "MISSED_DEADLINE_PERSISTENT"},
             Answer(f, st, {}), Goto(f, "done", 1)
      PROVE  /\ at'[f].pc = "done" /\ ret'[f] # "returning"
             /\ ~Answered(f, "NONE")' /\ ~Answered(f, "OUTPUT_INSUFFICIENT_SIZE")'
  BY <1>2, <1>3, <1>5, <1>7 DEF NoStatus
<1>8. CASE ExecuteSynchronously(f)
  BY <1>1, <1>5, <1>7, <1>8 DEF ExecuteSynchronously
<1>9. CASE ExecuteFenced(f)
  <2>1. UNCHANGED ret
    BY <1>9 DEF ExecuteFenced
  <2>2. \/ Goto(f, "done", 1) /\ (Answer(f, "INVALID_ARGUMENT", {})
                                   \/ Answer(f, "MISSED_DEADLINE_PERSISTENT", {}))
        \/ Goto(f, "resize", 1)
        \/ Goto(f, "fences", 1)
    BY <1>9 DEF ExecuteFenced
  <2>3. QED
    BY <1>1, <1>5, <1>7, <2>1, <2>2
<1>10. QED
  BY <1>6, <1>8, <1>9 DEF Calls

\* A thread that has its pools keeps them, and its request, to its end.
LEMMA LaterSteps ==
  ASSUME IInv, NEW f \in Execs,
         \/ CopyInput(f) \/ StartAsync(f) \/ WaitReturns(f) \/ WaitTimesOut(f)
         \/ CopyOutput(f) \/ UpdateRequestPoolInfos(f) \/ Report(f)
  PROVE  /\ pools' = pools /\ call' = call
         /\ at[f].pc \in WithPools \cup {"report"}
         /\ at'[f].pc \in WithPools \cup {"report", "done"}
         /\ at[f].pc = "report" => at'[f].pc # "pools" /\ at'[f].pc \notin WithPools
<1> USE DEF modelInfo, client, WithPools, Down, Up, SizesAssumption
<1>1. ASSUME NEW pc \in PcType, NEW k \in Nat \ {0}, Goto(f, pc, k) PROVE at'[f].pc = pc
  BY <1>1, GotoMoves
<1>2. CASE CopyInput(f)
  <2>1. ASSUME Iterate(f, NumInputs, "start") PROVE at'[f].pc \in {"inputs", "start"}
    BY <1>2, <2>1, IterateMoves, SizesType DEF PcType, CopyInput
  <2>2. QED
    BY <1>2, <2>1 DEF CopyInput, GetBlobThrows
<1>3. CASE StartAsync(f) \/ WaitReturns(f) \/ WaitTimesOut(f) \/ Report(f)
  BY <1>1, <1>3 DEF StartAsync, WaitReturns, WaitTimesOut, Report, Fail, PcType
<1>4. CASE CopyOutput(f)
  <2>1. ASSUME Iterate(f, NumOutputs, "update") PROVE at'[f].pc \in {"outputs", "update"}
    BY <1>4, <2>1, IterateMoves, SizesType DEF PcType, CopyOutput
  <2>2. ASSUME Goto(f, "done", 1) PROVE at'[f].pc = "done"
    BY <1>1, <2>2 DEF PcType
  <2>3. QED
    BY <1>4, <2>1, <2>2 DEF CopyOutput, GetBlobThrows
<1>5. CASE UpdateRequestPoolInfos(f)
  BY <1>1, <1>5 DEF UpdateRequestPoolInfos, PcType
<1>6. QED
  BY <1>2, <1>3, <1>4, <1>5

\* No pool of an ended execution is used by a thread that goes on.
LEMMA LeftBehindByThread ==
  ASSUME IInv, NEW f \in Execs, Calls(f) \/ Runs(f), NEW e \in Execs, e # f,
         LeftBehind(e)
  PROVE  LeftBehind(e)'
<1> SUFFICES ASSUME at'[e].pc = "done", NEW g \in Execs \ {e}
             PROVE  /\ at'[g].pc = "pools" =>
                         \A s \in Slots : s < at'[g].k => pools'[s] # e
                    /\ at'[g].pc \in WithPools =>
                         \A s \in Slots : s <= Len(call'[g].req.pools) => pools'[s] # e
  BY DEF LeftBehind
<1> USE DEF WithPools
<1>1. at[e].pc = "done"
  BY OthersUntouched
<1>2. \A s \in Slots : pools'[s] = e => pools[s] = e
  BY SharedByThread, Sentinels
<1>3. CASE g # f
  <2>1. at'[g] = at[g] /\ call'[g] = call[g]
    BY <1>3, OthersUntouched
  <2>2. QED
    BY <1>1, <1>2, <2>1 DEF LeftBehind
<1>4. CASE g = f
  <2> USE <1>4
  <2>1. ASSUME NEW pc \in PcType \ ({"pools"} \cup WithPools), NEW k \in Nat \ {0},
               Goto(f, pc, k)
        PROVE  at'[f].pc \notin {"pools"} \cup WithPools
    BY <2>1, GotoMoves
  <2>2. CASE Calls(f)
    BY <2>2, CallMoves
  <2>3. CASE ExecuteReturns(f) \/ Down
    BY <1>1, <1>2, <2>3 DEF ExecuteReturns, Down, LeftBehind, client
  <2>4. CASE WaitFence(f) \/ Attach(f)
    <3>1. CASE Goto(f, "done", 1) \/ Goto(f, "resize", 1)
      BY <2>1, <3>1 DEF PcType
    <3>2. CASE at[f].pc = "fences" /\ Iterate(f, Len(call[f].waitFor), "resize")
      <4>1. Len(call[f].waitFor) \in Nat
        BY <3>2, RunningType DEF Running
      <4>2. QED
        BY <3>2, <4>1, IterateMoves DEF PcType
    <3>3. QED
      BY <2>3, <2>4, <3>1, <3>2 DEF WaitFence, Attach, Fail, Up
  <2>5. CASE ResizePools(f)
    <3>1. CASE call[f].req.pools # <<>>
      <4>1. at'[f].pc = "pools" /\ at'[f].k = 1
        BY <2>5, <3>1, GotoMoves DEF ResizePools, PcType
      <4>2. QED
        BY <4>1 DEF Slots
    <3>2. CASE call[f].req.pools = <<>>
      <4>1. at'[f].pc = "inputs" /\ call'[f] = call[f]
        BY <2>5, <3>2, GotoMoves DEF ResizePools, PcType, client
      <4>2. Len(call[f].req.pools) = 0
        BY <2>5, <3>2, RunningType DEF ResizePools, Up, Running
      <4>3. QED
        BY <4>1, <4>2 DEF Slots
    <3>3. QED
      BY <3>1, <3>2
  <2>6. CASE SetPool(f)
    <3>1. Running(f) /\ at[f].pc = "pools" /\ at[f].k \in Nat
      BY <2>6 DEF SetPool, Up, Running, IInv, ControlOK, TypeOK, ThreadsOK, ThreadType
    <3>2. Len(call[f].req.pools) \in Nat
      BY <3>1, RunningType DEF Slots
    <3>3. CASE pools' = Mapped(f, at[f].k) /\ Iterate(f, Len(call[f].req.pools), "inputs")
               /\ UNCHANGED client
      <4>1. \A s \in Slots : s <= at[f].k => pools'[s] # e
        BY <1>1, <3>1, <3>3 DEF LeftBehind, Mapped, IInv, TypeOK, ModelInfoOK, Slots
      <4>2. \/ at[f].k < Len(call[f].req.pools) /\ at'[f].pc = "pools" /\ at'[f].k = at[f].k + 1
            \/ ~(at[f].k < Len(call[f].req.pools)) /\ at'[f].pc = "inputs"
        BY <3>1, <3>2, <3>3, IterateMoves DEF PcType
      <4>3. call'[f] = call[f]
        BY <3>3 DEF client
      <4>4. QED
        BY <3>1, <3>2, <4>1, <4>2, <4>3 DEF Slots
    <3>4. CASE Goto(f, "done", 1)
      BY <2>1, <3>4 DEF PcType
    <3>5. QED
      BY <2>3, <2>6, <3>3, <3>4 DEF SetPool, Fail
  <2>7. CASE \/ CopyInput(f) \/ StartAsync(f) \/ WaitReturns(f) \/ WaitTimesOut(f)
             \/ CopyOutput(f) \/ UpdateRequestPoolInfos(f) \/ Report(f)
    BY <1>1, <2>7, LaterSteps DEF LeftBehind
  <2>8. QED
    BY <2>2, <2>3, <2>4, <2>5, <2>6, <2>7 DEF Runs, Infers
<1>5. QED
  BY <1>3, <1>4

-----------------------------------------------------------------------------
(* The steps of other threads.                                             *)

\* While e is in flight and no other may be, other executions are refused at most.
LEMMA OnlyRefusals ==
  ASSUME IInv, NEW e \in Execs, Careful(e)', NEW f \in Execs, f # e,
         ~InFlight(f), InFlight(e), Calls(f) \/ Runs(f)
  PROVE  UNCHANGED <<modelInfo, plugin, memory, model, service>>
<1>1. at[f].pc \in {"idle", "done"} /\ ret[f] # "returning"
  BY DEF InFlight
<1>2. ~Runs(f)
  BY <1>1 DEF Runs, ExecuteReturns, WaitFence, Attach, Infers, ResizePools, SetPool, CopyInput,
     StartAsync, WaitReturns, WaitTimesOut, CopyOutput, UpdateRequestPoolInfos, Report, Up
<1>3. QED
  BY <1>2, CallMoves

\* A step of another thread keeps what a careful execution relies on.
LEMMA OtherThread ==
  ASSUME IInv, NEW e \in Execs, CarefulInv(e), Careful(e), Careful(e)',
         NEW f \in Execs, f # e, Calls(f) \/ Runs(f)
  PROVE  CarefulInv(e)'
<1>1. /\ at'[e] = at[e] /\ call'[e] = call[e] /\ ret'[e] = ret[e] /\ answers'[e] = answers[e]
      /\ LeftBehind(e)'
  BY OthersUntouched, LeftBehindByThread DEF CarefulInv
<1>2. Copied(e)' = Copied(e)
  BY <1>1 DEF Copied
<1>3. CASE InFlight(e)
  <2>1. UNCHANGED <<modelInfo, plugin, memory, model, service>>
    BY <1>3, OnlyRefusals DEF Careful
  <2>2. PoolsOK(e)' /\ BlobsOK(e)'
    BY <1>1, <2>1 DEF CarefulInv, PoolsOK, BlobsOK, Mine, modelInfo, plugin
  <2>3. MemoryFollows(e)'
    BY <1>1, <1>2, <2>1 DEF CarefulInv, MemoryFollows, Untouched, Completed, ShortAt, Holds,
       Fitted, Answered, modelInfo, memory
  <2>4. QED
    BY <1>1, <2>2, <2>3 DEF CarefulInv
<1>4. CASE ~InFlight(e)
  <2>1. at[e].pc \in {"idle", "done"}
    BY <1>4 DEF InFlight
  <2>2. \A s \in Slots : pools'[s] = e => pools[s] = e
    BY SharedByThread, Sentinels
  <2>3. PoolsOK(e)'
    BY <1>1, <2>1, <2>2 DEF CarefulInv, PoolsOK, BeforePools, WithPools
  <2>4. BlobsOK(e)'
    <3>1. raised' = raised /\ (device' = device \/ device' = f)
      BY SharedByThread
    <3>2. QED
      BY <1>1, <2>1, <3>1 DEF CarefulInv, BlobsOK
  <2>5. mem'[e] = mem[e]
    BY <2>1, MemoryByThread DEF CarefulInv, PoolsOK, BeforePools, LeftBehind, WithPools
  <2>6. MemoryFollows(e)'
    <3>1. \A S : Holds(e, S)' <=> Holds(e, S)
      BY <1>1, <2>5 DEF Holds
    <3>2. at[e].pc = "idle" => Copied(e) = {}
      BY DEF Copied
    <3>3. CASE at[e].pc = "idle"
      BY <1>1, <1>2, <3>2, <3>3, <2>5 DEF CarefulInv, MemoryFollows, Fitted, Holds
    <3>4. CASE at[e].pc = "done"
      BY <1>1, <2>5, <3>4 DEF CarefulInv, MemoryFollows, Fitted, Holds, Untouched, Completed,
         ShortAt, Answered
    <3>5. QED
      BY <2>1, <3>3, <3>4
  <2>7. QED
    BY <1>1, <2>3, <2>4, <2>6 DEF CarefulInv
<1>5. QED
  BY <1>3, <1>4

\* The device keeps it: it computes e's outputs from e's inputs, or raises.
LEMMA DeviceKeeps ==
  ASSUME IInv, NEW e \in Execs, CarefulInv(e), Careful(e), DeviceFinishes
  PROVE  CarefulInv(e)'
<1>1. /\ UNCHANGED <<at, client, modelInfo, inBlob, memory, model>>
      /\ device # NoExec /\ device' = NoExec
      /\ \/ outBlob' = inBlob /\ UNCHANGED raised
         \/ raised' = raised \cup {device} /\ UNCHANGED outBlob
  BY DEF DeviceFinishes
<1>2. PoolsOK(e)' /\ LeftBehind(e)'
  BY <1>1 DEF CarefulInv, PoolsOK, LeftBehind, Mine, modelInfo, client
<1>3. BlobsOK(e)'
  BY <1>1, Sentinels DEF CarefulInv, BlobsOK, Careful, client
<1>4. MemoryFollows(e)'
  BY <1>1 DEF CarefulInv, MemoryFollows, Untouched, Completed, ShortAt, Holds, Fitted, Copied,
     Answered, memory, client, modelInfo
<1>5. QED
  BY <1>2, <1>3, <1>4 DEF CarefulInv

\* The client drops the model.
LEMMA DestroyKeeps ==
  ASSUME IInv, NEW e \in Execs, CarefulInv(e), Destroy
  PROVE  CarefulInv(e)'
<1>1. /\ UNCHANGED <<at, client, insufficient, plugin, memory>>
      /\ model = "live" /\ model' = "destroyed"
      /\ \A s \in Slots : pools'[s] = pools[s] \/ (pools[s] \in Execs /\ pools'[s] = Unmapped)
  BY DEF Destroy
<1>2. PoolsOK(e)'
  BY <1>1, Sentinels DEF CarefulInv, PoolsOK, Mine, client
<1>3. LeftBehind(e)'
  BY <1>1, Sentinels DEF CarefulInv, LeftBehind, client
<1>4. BlobsOK(e)'
  BY <1>1 DEF CarefulInv, BlobsOK, plugin, client
<1>5. MemoryFollows(e)'
  BY <1>1 DEF CarefulInv, MemoryFollows, Untouched, Completed, ShortAt, Holds, Fitted, Copied,
     Answered, memory, client
<1>6. QED
  BY <1>2, <1>3, <1>4, <1>5 DEF CarefulInv

-----------------------------------------------------------------------------
(* The steps of the execution itself.                                      *)

LEMMA DownKeeps ==
  ASSUME NEW e \in Execs, CarefulInv(e), Down PROVE CarefulInv(e)'
  BY DEF Down, CarefulInv, PoolsOK, BlobsOK, MemoryFollows, LeftBehind, Mine, Untouched,
     Completed, ShortAt, Holds, Fitted, Copied, Answered, client, modelInfo, plugin, memory

\* When a careful execution ends, no other thread is running.
LEMMA EndsAlone ==
  ASSUME NEW e \in Execs, Careful(e), Running(e),
         \A f \in Execs : f # e => at'[f] = at[f]
  PROVE  LeftBehind(e)'
  BY DEF LeftBehind, Careful, InFlight, Running, WithPools

\* An execution that fails before its outputs leaves its client's memory alone.
LEMMA FailKeeps ==
  ASSUME IInv, NEW e \in Execs, Careful(e), CarefulInv(e), Running(e),
         at[e].pc \notin {"outputs", "update", "report"},
         NEW st \in {"GENERAL_FAILURE", "INVALID_ARGUMENT"},
         Fail(e, st), device' = device, raised' = raised, UNCHANGED memory
  PROVE  CarefulInv(e)'
<1>1. at'[e].pc = "done" /\ \A f \in Execs : f # e => at'[f] = at[f]
  BY GotoMoves DEF Fail, PcType
<1>2. PoolsOK(e)' /\ BlobsOK(e)'
  BY <1>1 DEF CarefulInv, PoolsOK, BlobsOK, BeforePools, WithPools
<1>3. LeftBehind(e)'
  BY <1>1, EndsAlone
<1>4. MemoryFollows(e)'
  <2>1. Copied(e) = {}
    BY DEF Copied
  <2>2. Holds(e, {})'
    BY <2>1 DEF CarefulInv, MemoryFollows, Holds, memory, Running
  <2>3. answers[e] = <<>>
    BY DEF IInv, ControlOK
  <2>4. answers'[e] # <<>> /\ answers'[e][1].status = st
    BY <2>3, AnswerIs DEF Fail
  <2>5. Untouched(e)'
    BY <2>2, <2>4 DEF Untouched, Answered
  <2>6. QED
    BY <1>1, <2>5 DEF MemoryFollows
<1>5. QED
  BY <1>2, <1>3, <1>4 DEF CarefulInv

\* A thread that goes on before its outputs has written nothing yet.
LEMMA GoesOnEmpty ==
  ASSUME IInv, NEW e \in Execs, CarefulInv(e), at[e].pc # "done", Copied(e) = {},
         at'[e].pc \notin {"done", "update", "report"},
         at'[e].pc = "outputs" => at'[e].k = 1,
         UNCHANGED mem
  PROVE  MemoryFollows(e)' /\ LeftBehind(e)'
<1>1. Copied(e)' = {}
  BY Counted DEF Copied
<1>2. QED
  BY <1>1 DEF CarefulInv, MemoryFollows, Holds, Fitted, LeftBehind

LEMMA CallsKeep ==
  ASSUME IInv, NEW e \in Execs, CarefulInv(e), Calls(e) PROVE CarefulInv(e)'
<1>1. /\ at[e].pc = "idle"
      /\ at'[e].pc \in {"fences", "attach", "resize", "done"}
      /\ UNCHANGED <<modelInfo, plugin, memory, model, service>>
  BY CallMoves
<1>2. PoolsOK(e)' /\ BlobsOK(e)'
  BY <1>1 DEF CarefulInv, PoolsOK, BlobsOK, BeforePools, WithPools, modelInfo, plugin
<1>3. Copied(e) = {}
  BY <1>1 DEF Copied
<1>4. CASE at'[e].pc # "done"
  BY <1>1, <1>2, <1>3, <1>4, GoesOnEmpty DEF CarefulInv, memory
<1>5. CASE at'[e].pc = "done"
  <2>1. \A f \in Execs : f # e => at'[f] = at[f] /\ call'[f] = call[f]
    BY OthersUntouched
  <2>2. LeftBehind(e)'
    BY <1>1, <2>1 DEF CarefulInv, PoolsOK, BeforePools, LeftBehind, modelInfo
  <2>3. Untouched(e)'
    BY <1>1, <1>3, <1>5, CallMoves DEF CarefulInv, MemoryFollows, Untouched, Holds, memory
  <2>4. QED
    BY <1>2, <1>5, <2>2, <2>3 DEF CarefulInv, MemoryFollows
<1>6. QED
  BY <1>4, <1>5

LEMMA ExecuteReturnsKeeps ==
  ASSUME NEW e \in Execs, CarefulInv(e), ExecuteReturns(e) PROVE CarefulInv(e)'
  BY DEF ExecuteReturns, CarefulInv, PoolsOK, BlobsOK, MemoryFollows, LeftBehind, Mine,
     Untouched, Completed, ShortAt, Holds, Fitted, Copied, Answered, modelInfo, plugin, memory

LEMMA WaitFenceKeeps ==
  ASSUME IInv, NEW e \in Execs, Careful(e), CarefulInv(e), WaitFence(e) PROVE CarefulInv(e)'
<1>1. /\ Running(e) /\ at[e].pc = "fences" /\ Copied(e) = {}
      /\ UNCHANGED <<modelInfo, plugin, memory, model>>
  BY DEF WaitFence, Up, Running, Copied
<1>2. ASSUME NEW st \in {"GENERAL_FAILURE", "INVALID_ARGUMENT"}, Fail(e, st)
      PROVE  CarefulInv(e)'
  BY <1>1, <1>2, FailKeeps DEF plugin
<1>3. CASE Iterate(e, Len(call[e].waitFor), "resize")
  <2>1. at'[e].pc \in {"fences", "resize"}
    BY <1>1, <1>3, RunningType, IterateMoves DEF PcType
  <2>2. PoolsOK(e)' /\ BlobsOK(e)'
    BY <1>1, <2>1 DEF CarefulInv, PoolsOK, BlobsOK, BeforePools, WithPools, modelInfo, plugin
  <2>3. QED
    BY <1>1, <2>1, <2>2, GoesOnEmpty DEF CarefulInv, memory
<1>4. QED
  BY <1>2, <1>3 DEF WaitFence

LEMMA AttachKeeps ==
  ASSUME IInv, NEW e \in Execs, CarefulInv(e), Attach(e) PROVE CarefulInv(e)'
<1>1. CASE Down
  BY <1>1, DownKeeps
<1>2. CASE Goto(e, "resize", 1) /\ UNCHANGED <<client, modelInfo, plugin, memory, model, service>>
  <2>1. at[e].pc = "attach" /\ at'[e].pc = "resize" /\ Copied(e) = {}
    BY <1>2, GotoMoves DEF Attach, Up, PcType, Copied
  <2>2. PoolsOK(e)' /\ BlobsOK(e)'
    BY <1>2, <2>1 DEF CarefulInv, PoolsOK, BlobsOK, BeforePools, WithPools, modelInfo, plugin
  <2>3. QED
    BY <1>2, <2>1, <2>2, GoesOnEmpty DEF CarefulInv, memory
<1>3. QED
  BY <1>1, <1>2 DEF Attach

LEMMA ResizePoolsKeeps ==
  ASSUME IInv, NEW e \in Execs, CarefulInv(e), ResizePools(e) PROVE CarefulInv(e)'
<1>0. PICK n : n = Len(call[e].req.pools)
  OBVIOUS
<1>1. /\ at[e].pc = "resize" /\ at'[e].k = 1 /\ Copied(e) = {}
      /\ at'[e].pc = IF call[e].req.pools = <<>> THEN "inputs" ELSE "pools"
      /\ pools' = Resized(n)
      /\ UNCHANGED <<client, plugin, memory>>
  <2>1. "inputs" \in PcType /\ "pools" \in PcType /\ 1 \in Nat \ {0}
    BY DEF PcType
  <2>2. QED
    BY <1>0, <2>1, GotoMoves DEF ResizePools, Up, Copied
<1>2. PoolsOK(e)'
  <2>1. n \in Nat /\ (call[e].req.pools = <<>> => n = 0) /\ call'[e] = call[e]
    BY <1>0, <1>1, RunningType DEF Running, client
  <2>2. \A s \in Slots : s \in Nat /\ ~(s < 1)
    BY DEF Slots
  <2>3. \A s \in Slots : pools'[s] = Absent <=> s > n
    BY <1>1, <2>1, <2>2, Sentinels DEF Resized
  <2>4. QED
    BY <1>0, <1>1, <2>1, <2>2, <2>3 DEF PoolsOK, BeforePools, WithPools
<1>3. BlobsOK(e)'
  BY <1>1, Counted DEF CarefulInv, BlobsOK, plugin, client
<1>4. QED
  BY <1>1, <1>2, <1>3, GoesOnEmpty DEF CarefulInv, memory

LEMMA SetPoolKeeps ==
  ASSUME IInv, NEW e \in Execs, Careful(e), CarefulInv(e), SetPool(e) PROVE CarefulInv(e)'
<1> DEFINE s == at[e].k
           n == Len(call[e].req.pools)
<1>1. /\ Running(e) /\ at[e].pc = "pools" /\ Copied(e) = {} /\ UNCHANGED <<plugin, memory>>
      /\ s \in 1 .. n /\ n \in Slots
  <2>1. Running(e) /\ at[e].pc = "pools" /\ Copied(e) = {} /\ UNCHANGED <<plugin, memory>>
    BY DEF SetPool, Up, Running, Copied, Down
  <2>2. s \in 1 .. n
    BY <2>1 DEF IInv, ControlOK
  <2>3. n \in Slots
    BY <2>1, <2>2, RunningType, SizesAssumption DEF Slots
  <2>4. QED
    BY <2>1, <2>2, <2>3
<1>2. CASE Down
  BY <1>2, DownKeeps
<1>3. CASE pools' = Mapped(e, s) /\ Iterate(e, n, "inputs")
           /\ UNCHANGED <<client, insufficient, plugin, memory, model, service>>
  <2>1. \/ s < n /\ at'[e].pc = "pools" /\ at'[e].k = s + 1
        \/ ~(s < n) /\ at'[e].pc = "inputs" /\ at'[e].k = 1
    BY <1>1, <1>3, IterateMoves DEF PcType, Slots
  <2>2. /\ \A t \in Slots : pools'[t] = IF t = s THEN e ELSE pools[t]
        /\ model' = model /\ call' = call
    BY <1>1, <1>3 DEF Mapped, IInv, TypeOK, ModelInfoOK, client
  <2>3. \A t \in Slots : t < s => Mine(e, t)
    BY <1>1 DEF CarefulInv, PoolsOK
  <2>4. \A t \in Slots : t <= s => Mine(e, t)'
    BY <1>1, <2>2, <2>3 DEF Mine, Slots
  <2>5. \A t \in Slots : pools'[t] = Absent <=> t > n
    <3>1. \A t \in Slots : pools[t] = Absent <=> t > n
      BY <1>1 DEF CarefulInv, PoolsOK, WithPools
    <3>2. QED
      BY <1>1, <2>2, <3>1, Sentinels DEF Slots
  <2>6. PoolsOK(e)'
    <3>1. CASE s < n /\ at'[e].pc = "pools" /\ at'[e].k = s + 1
      <4>1. \A t \in Slots : t < s + 1 => Mine(e, t)'
        BY <1>1, <2>4 DEF Slots
      <4>2. QED
        BY <2>2, <2>5, <3>1, <4>1 DEF PoolsOK, BeforePools, WithPools
    <3>2. CASE ~(s < n) /\ at'[e].pc = "inputs"
      <4>1. \A t \in Slots : t <= n => Mine(e, t)'
        BY <1>1, <2>4, <3>2 DEF Slots
      <4>2. QED
        BY <2>2, <2>5, <3>2, <4>1 DEF PoolsOK, BeforePools, WithPools
    <3>3. QED
      BY <2>1, <3>1, <3>2
  <2>7. BlobsOK(e)'
    BY <1>1, <2>1, Counted DEF CarefulInv, BlobsOK, plugin
  <2>8. QED
    BY <1>1, <2>1, <2>6, <2>7, GoesOnEmpty DEF CarefulInv, memory
<1>4. CASE Fail(e, PoolFailure(e, s))
  BY <1>1, <1>4, FailKeeps DEF PoolFailure, plugin
<1>5. QED
  BY <1>2, <1>3, <1>4 DEF SetPool

\* The pool of every input and output of a thread that has its pools is its own.
LEMMA PoolIsMine ==
  ASSUME IInv, NEW e \in Execs, CarefulInv(e), at[e].pc \in WithPools,
         NEW s \in Slots, s <= Len(call[e].req.pools)
  PROVE  pools[s] # Absent /\ Mine(e, s) /\ (pools[s] \in Execs => pools[s] = e)
<1>1. Len(call[e].req.pools) \in Nat /\ s \in Nat
  BY RunningType DEF Running, WithPools, Slots
<1>2. ~(s > Len(call[e].req.pools))
  BY <1>1 DEF Slots
<1>3. QED
  BY <1>2, Sentinels DEF CarefulInv, PoolsOK, Mine

\* Pools are not touched after setRunTimePoolInfosFromHidlMemories.
LEMMA PoolsStay ==
  ASSUME NEW e \in Execs, CarefulInv(e), at[e].pc \in WithPools,
         at'[e].pc \in WithPools \cup {"report", "done"},
         at[e].pc = "inputs" => call[e].req.pools # <<>>,
         pools' = pools, model' = model, call' = call
  PROVE  PoolsOK(e)'
  BY DEF CarefulInv, PoolsOK, Mine, BeforePools, WithPools

\* A busy request belongs to an execution that waits, and is in flight.
LEMMA NotBusy ==
  ASSUME IInv, NEW e \in Execs, \A f \in Execs : Careful(f),
         at[e].pc \in {"inputs", "outputs"}
  PROVE  device = NoExec
<1>1. SUFFICES ASSUME device # NoExec PROVE FALSE
  OBVIOUS
<1>2. device \in Execs
  BY <1>1 DEF IInv, TypeOK, PluginOK
<1>3. at[device].pc = "wait"
  BY <1>2 DEF Careful
<1>4. InFlight(e) /\ InFlight(device) /\ device # e
  BY <1>3 DEF InFlight
<1>5. QED
  BY <1>2, <1>4 DEF Careful

LEMMA CopyInputKeeps ==
  ASSUME IInv, NEW e \in Execs, CarefulInv(e), CopyInput(e) PROVE CarefulInv(e)'
<1> DEFINE i == at[e].k
           s == call[e].req.in[i]
           length == call[e].req.inLength[i]
<1>1. /\ Running(e) /\ at[e].pc = "inputs" /\ Copied(e) = {} /\ UNCHANGED memory
      /\ i \in Inputs /\ s \in Slots
  <2>1. Running(e) /\ at[e].pc = "inputs" /\ UNCHANGED memory
    BY DEF CopyInput, Up, Running, Down, GetBlobThrows
  <2>2. QED
    BY <2>1, RunningType DEF IInv, ControlOK, Copied
<1>2. CASE Down
  BY <1>2, DownKeeps
<1>3. pools[s] # Absent => call[e].req.pools # <<>>
  <2>1. call[e].req.pools = <<>> => s > Len(call[e].req.pools)
    BY <1>1, RunningType DEF Slots
  <2>2. QED
    BY <1>1, <2>1 DEF CarefulInv, PoolsOK, WithPools
<1>4. ASSUME Iterate(e, NumInputs, "start"), pools[s] # Absent,
             UNCHANGED <<client, pools, device, raised, model>>,
             Sized(call[e].req) =>
                /\ \A j \in NamedInputs : inBlob'[j] = IF j = i THEN e ELSE inBlob[j]
                /\ inBlob' \in Data
      PROVE  CarefulInv(e)'
  <2>1. \/ i < NumInputs /\ at'[e].pc = "inputs" /\ at'[e].k = i + 1
        \/ ~(i < NumInputs) /\ at'[e].pc = "start" /\ at'[e].k = 1
    BY <1>1, <1>4, IterateMoves, SizesType DEF PcType
  <2>2. PoolsOK(e)'
    BY <1>1, <1>3, <1>4, <2>1, PoolsStay DEF WithPools, client
  <2>3. i \in Nat /\ \A j \in NamedInputs : j \in Nat /\ j <= NumInputs
    BY <1>1, Counted DEF Inputs
  <2>4. Sized(call[e].req) =>
          /\ \A j \in NamedInputs : j < i + 1 => inBlob'[j] = e
          /\ at'[e].pc = "start" => inBlob' = Inference(e)
    <3>1. SUFFICES ASSUME Sized(call[e].req)
                   PROVE  /\ \A j \in NamedInputs : j < i + 1 => inBlob'[j] = e
                          /\ at'[e].pc = "start" => inBlob' = Inference(e)
      OBVIOUS
    <3>2. \A j \in NamedInputs : j < i => inBlob[j] = e
      BY <1>1, <3>1 DEF CarefulInv, BlobsOK
    <3>3. \A j \in NamedInputs : j < i + 1 => inBlob'[j] = e
      BY <1>4, <2>3, <3>1, <3>2
    <3>4. ~(i < NumInputs) => \A j \in NamedInputs : inBlob'[j] = e
      BY <2>3, <3>3, SizesType
    <3>5. at'[e].pc = "start" => inBlob' = Inference(e)
      BY <1>4, <2>1, <3>1, <3>4 DEF Inference, Data
    <3>6. QED
      BY <3>3, <3>5
  <2>5. BlobsOK(e)'
    <3>1. e \notin raised /\ call'[e] = call[e]
      BY <1>1, <1>4 DEF CarefulInv, BlobsOK, client
    <3>2. QED
      BY <1>4, <2>1, <2>4, <3>1 DEF BlobsOK
  <2>6. QED
    BY <1>1, <2>1, <2>2, <2>5, GoesOnEmpty DEF CarefulInv, memory
<1>5. inBlob \in [NamedInputs -> Execs \cup {NoExec, Mixed}] /\ inBlob \in Data
  BY DEF IInv, TypeOK, PluginOK, Data
<1>6. CASE /\ pools[s] # Absent /\ (i \notin NamedInputs \/ length = "none")
           /\ Iterate(e, NumInputs, "start")
           /\ UNCHANGED <<client, modelInfo, plugin, memory, model, service>>
  <2>1. Sized(call[e].req) => i \notin NamedInputs
    BY <1>6 DEF Sized
  <2>2. QED
    BY <1>4, <1>5, <1>6, <2>1 DEF modelInfo, plugin
<1>7. CASE /\ pools[s] \in Execs /\ i \in NamedInputs
           /\ inBlob' = [inBlob EXCEPT ![i] =
                            IF length = "exact" \/ @ = pools[s] THEN pools[s] ELSE Mixed]
           /\ Iterate(e, NumInputs, "start")
           /\ UNCHANGED <<client, modelInfo, outBlob, device, raised, overran>>
           /\ UNCHANGED <<memory, model, service>>
  <2>1. pools[s] # Absent
    BY <1>7, Sentinels
  <2>2. pools[s] = e
    <3>1. s <= Len(call[e].req.pools)
      BY <1>1, <1>3, <2>1, Locates
    <3>2. QED
      BY <1>1, <1>7, <3>1, PoolIsMine DEF WithPools
  <2>3. Sized(call[e].req) => inBlob' = [inBlob EXCEPT ![i] = e]
    BY <1>5, <1>7, <2>2 DEF Sized
  <2>4. Sized(call[e].req) =>
          /\ \A j \in NamedInputs : inBlob'[j] = IF j = i THEN e ELSE inBlob[j]
          /\ inBlob' \in Data
    BY <1>5, <2>3 DEF Data
  <2>5. QED
    BY <1>4, <1>7, <2>1, <2>4 DEF modelInfo
<1>8. CASE /\ pools[s] \in Execs /\ i \in NamedInputs /\ length = "long"
           /\ Iterate(e, NumInputs, "start")
           /\ UNCHANGED <<client, modelInfo, device, raised, memory, model, service>>
  <2>1. ~Sized(call[e].req) /\ pools[s] # Absent
    BY <1>8, Sentinels DEF Sized
  <2>2. QED
    BY <1>4, <1>8, <2>1 DEF modelInfo
<1>9. QED
  BY <1>2, <1>6, <1>7, <1>8 DEF CopyInput, GetBlobThrows

LEMMA StartAsyncKeeps ==
  ASSUME IInv, NEW e \in Execs, Careful(e), CarefulInv(e), StartAsync(e) PROVE CarefulInv(e)'
<1>1. Running(e) /\ at[e].pc = "start" /\ Copied(e) = {}
  BY DEF StartAsync, Up, Running, Copied
<1>2. CASE Fail(e, "GENERAL_FAILURE") /\ UNCHANGED device
  BY <1>1, <1>2, FailKeeps DEF StartAsync
<1>3. CASE device' = e /\ Goto(e, "wait", 1) /\ UNCHANGED client
  <2>1. at'[e].pc = "wait"
    BY <1>3, GotoMoves DEF PcType
  <2>2. PoolsOK(e)'
    BY <1>1, <1>3, <2>1, PoolsStay DEF StartAsync, modelInfo, client, WithPools
  <2>3. BlobsOK(e)'
    BY <1>1, <1>3, <2>1 DEF StartAsync, CarefulInv, BlobsOK, client
  <2>4. QED
    BY <1>1, <2>1, <2>2, <2>3, GoesOnEmpty DEF StartAsync, CarefulInv, memory
<1>4. QED
  BY <1>2, <1>3 DEF StartAsync

LEMMA WaitReturnsKeeps ==
  ASSUME IInv, NEW e \in Execs, Careful(e), CarefulInv(e), WaitReturns(e) PROVE CarefulInv(e)'
<1>1. /\ Running(e) /\ at[e].pc = "wait" /\ Copied(e) = {} /\ device # e
      /\ UNCHANGED <<modelInfo, plugin, memory, model, service>>
  BY DEF WaitReturns, Up, Running, Copied
<1>2. CASE e \in raised /\ Fail(e, "GENERAL_FAILURE")
  BY <1>1, <1>2, FailKeeps DEF plugin
<1>3. CASE e \notin raised /\ Goto(e, "outputs", 1) /\ UNCHANGED client
  <2>1. at'[e].pc = "outputs" /\ at'[e].k = 1
    BY <1>3, GotoMoves DEF PcType
  <2>2. PoolsOK(e)'
    BY <1>1, <1>3, <2>1, PoolsStay DEF modelInfo, client, WithPools
  <2>3. BlobsOK(e)'
    BY <1>1, <1>3, <2>1 DEF CarefulInv, BlobsOK, plugin, client
  <2>4. QED
    BY <1>1, <2>1, <2>2, <2>3, GoesOnEmpty DEF CarefulInv, memory
<1>4. QED
  BY <1>2, <1>3 DEF WaitReturns

\* A careful execution does not give up its wait.
LEMMA WaitTimesOutKeeps ==
  ASSUME IInv, NEW e \in Execs, Careful(e)', WaitTimesOut(e) PROVE CarefulInv(e)'
<1>1. at'[e].pc = "outputs" /\ device' = e
  BY GotoMoves DEF WaitTimesOut, PcType, plugin
<1>2. QED
  BY <1>1 DEF Careful

\* The output loop adds its output to those copied, or passes it over.
LEMMA CopiedGrows ==
  ASSUME IInv, NEW e \in Execs, at[e].pc = "outputs", Iterate(e, NumOutputs, "update")
  PROVE  /\ at'[e].pc \in {"outputs", "update"}
         /\ Copied(e)' = Copied(e) \cup ({at[e].k} \cap NamedOutputs)
         /\ Copied(e) = Before(at[e].k)
<1>1. at[e].k \in Outputs /\ at[e].k \in Nat /\ at[e].k <= NumOutputs /\ NumOutputs \in Nat
  BY SizesType DEF IInv, ControlOK, Outputs
<1>2. \/ at[e].k < NumOutputs /\ at'[e].pc = "outputs" /\ at'[e].k = at[e].k + 1
      \/ ~(at[e].k < NumOutputs) /\ at'[e].pc = "update"
  BY <1>1, IterateMoves DEF PcType
<1>3. Copied(e) = {o \in NamedOutputs : o < at[e].k}
  BY DEF Copied
<1>4. CASE at[e].k < NumOutputs /\ at'[e].pc = "outputs" /\ at'[e].k = at[e].k + 1
  <2>1. Copied(e)' = {o \in NamedOutputs : o < at[e].k + 1}
    BY <1>4 DEF Copied
  <2>2. \A o \in NamedOutputs : o < at[e].k + 1 <=> (o < at[e].k \/ o = at[e].k)
    BY <1>1, Counted
  <2>3. QED
    BY <1>3, <1>4, <2>1, <2>2 DEF Before
<1>5. CASE ~(at[e].k < NumOutputs) /\ at'[e].pc = "update"
  <2>1. Copied(e)' = NamedOutputs
    BY <1>5 DEF Copied
  <2>2. \A o \in NamedOutputs : o < at[e].k \/ o = at[e].k
    BY <1>1, <1>5, Counted
  <2>3. QED
    BY <1>3, <1>5, <2>1, <2>2 DEF Before
<1>6. QED
  BY <1>2, <1>4, <1>5

LEMMA CopyOutputKeeps ==
  ASSUME IInv, NEW e \in Execs, Careful(e), CarefulInv(e), CopyOutput(e) PROVE CarefulInv(e)'
<1>0. PICK o : o = at[e].k
  OBVIOUS
<1>00. PICK s : s = call[e].req.out[o]
  OBVIOUS
<1>1. /\ Running(e) /\ at[e].pc = "outputs"
      /\ o \in Outputs /\ s \in Slots /\ s <= Len(call[e].req.pools)
      /\ \A p \in Outputs : call[e].req.out[p] \in Slots
  <2>1. Running(e) /\ at[e].pc = "outputs"
    BY DEF CopyOutput, Up, Running
  <2>2. call[e].req.pools # <<>>
    BY <2>1 DEF CarefulInv, PoolsOK
  <2>3. QED
    BY <1>0, <1>00, <2>1, <2>2, RunningType, Locates DEF IInv, ControlOK
<1>2. /\ device = NoExec /\ e \notin raised
      /\ Sized(call[e].req) => outBlob = Inference(e)
      /\ Holds(e, Copied(e)) /\ Fitted(e, Copied(e), insufficient)
  BY <1>1 DEF CarefulInv, BlobsOK, MemoryFollows
<1>3. CASE Down
  BY <1>3, DownKeeps
<1>4. ASSUME UNCHANGED <<client, pools, device, raised, model>>,
             Sized(call[e].req) => outBlob' = outBlob,
             Iterate(e, NumOutputs, "update"),
             \A t \in Slots, p \in Outputs :
                 IF p \in Copied(e)' /\ t = call[e].req.out[p]
                 THEN /\ mem'[e][t][p] # Kept
                      /\ Sized(call[e].req) => mem'[e][t][p] = Inference(e)
                 ELSE mem'[e][t][p] = Kept,
             \A p \in Copied(e)' : Fits(call[e].req, p) /\ p \notin insufficient'
      PROVE  CarefulInv(e)'
  <2>1. at'[e].pc \in {"outputs", "update"}
    BY <1>1, <1>4, CopiedGrows
  <2>2. PoolsOK(e)'
    BY <1>1, <1>4, <2>1, PoolsStay DEF client, WithPools
  <2>3. BlobsOK(e)'
    BY <1>2, <1>4, <2>1, Sentinels DEF BlobsOK, client
  <2>4. MemoryFollows(e)'
    BY <1>4, <2>1 DEF MemoryFollows, Holds, Fitted, client
  <2>5. QED
    BY <2>1, <2>2, <2>3, <2>4 DEF CarefulInv, LeftBehind
<1>5. CASE /\ o \notin NamedOutputs
           /\ Iterate(e, NumOutputs, "update")
           /\ UNCHANGED <<client, modelInfo, plugin, memory, model, service>>
  <2>1. Copied(e)' = Copied(e)
    BY <1>0, <1>1, <1>5, CopiedGrows
  <2>2. QED
    BY <1>2, <1>4, <1>5, <2>1 DEF Holds, Fitted, memory, modelInfo, plugin
<1>6. CASE /\ o \in NamedOutputs /\ Mismatch(e, o)
           /\ UpdateOutputShapes(o, FALSE)
           /\ Answer(e, "OUTPUT_INSUFFICIENT_SIZE", ShapesTold(e, insufficient'))
           /\ Goto(e, "done", 1)
           /\ UNCHANGED <<call, ret, pools, plugin, memory, model, service>>
  <2>1. at'[e].pc = "done" /\ \A f \in Execs : f # e => at'[f] = at[f]
    BY <1>6, GotoMoves DEF PcType
  <2>2. PoolsOK(e)' /\ BlobsOK(e)' /\ LeftBehind(e)'
    BY <1>1, <1>2, <1>6, <2>1, EndsAlone DEF PoolsOK, BlobsOK, BeforePools, WithPools, plugin,
       CarefulInv
  <2>3. answers[e] = <<>>
    BY <1>1 DEF IInv, ControlOK
  <2>4. /\ answers'[e] # <<>> /\ answers'[e][1].status = "OUTPUT_INSUFFICIENT_SIZE"
        /\ answers'[e][1].short = ShapesTold(e, insufficient')
    BY <1>6, <2>3, AnswerIs
  <2>5. insufficient' = insufficient \cup {o} /\ ~Fits(call[e].req, o)
    BY <1>6 DEF UpdateOutputShapes, Mismatch, Fits
  <2>6. Copied(e) = Before(o) /\ o \notin Copied(e)
    BY <1>0, <1>1 DEF Copied, Before, Outputs
  <2>7. ShortAt(e, o)'
    <3>1. Holds(e, Before(o))'
      BY <1>2, <1>6, <2>6 DEF Holds, memory
    <3>2. Fitted(e, Before(o), answers[e][1].short)'
      BY <1>2, <1>6, <2>4, <2>5, <2>6 DEF Fitted, ShapesTold
    <3>3. call[e].kind # "fenced" => o \in answers'[e][1].short
      BY <2>4, <2>5 DEF ShapesTold
    <3>4. QED
      BY <1>6, <2>4, <2>5, <3>1, <3>2, <3>3 DEF ShortAt, Answered
  <2>8. QED
    BY <1>6, <2>1, <2>2, <2>7 DEF CarefulInv, MemoryFollows
<1>7. CASE /\ o \in NamedOutputs /\ pools[s] \in Execs /\ ~Mismatch(e, o)
           /\ UpdateOutputShapes(o, TRUE)
           /\ mem' = [mem EXCEPT ![pools[s]][s][o] = outBlob]
           /\ IF call[e].req.outLength[o] = "outside"
              THEN Overrun(e, inBlob) ELSE UNCHANGED <<overran, inBlob, outBlob>>
           /\ Iterate(e, NumOutputs, "update")
           /\ UNCHANGED <<client, pools, device, raised, model, service>>
  <2>1. pools[s] = e
    BY <1>1, <1>7, PoolIsMine DEF WithPools
  <2>2. \A t \in Slots, p \in Outputs :
            mem'[e][t][p] = IF t = s /\ p = o THEN outBlob ELSE mem[e][t][p]
    <3>1. mem \in [Execs -> [Slots -> [Outputs -> Data \cup {Kept}]]]
      BY DEF IInv, TypeOK, MemoryOK, MemoryType
    <3>2. mem' = [mem EXCEPT ![e] = [mem[e] EXCEPT ![s] = [mem[e][s] EXCEPT ![o] = outBlob]]]
      BY <1>7, <2>1
    <3>3. mem'[e] = [mem[e] EXCEPT ![s] = [mem[e][s] EXCEPT ![o] = outBlob]]
      BY <3>1, <3>2
    <3>4. mem'[e][s] = [mem[e][s] EXCEPT ![o] = outBlob]
      BY <1>1, <3>1, <3>3
    <3>5. ASSUME NEW t \in Slots, t # s PROVE mem'[e][t] = mem[e][t]
      BY <3>1, <3>3, <3>5
    <3>6. ASSUME NEW p \in Outputs
          PROVE  mem'[e][s][p] = IF p = o THEN outBlob ELSE mem[e][s][p]
      BY <1>1, <3>1, <3>4
    <3>7. QED
      BY <3>5, <3>6
  <2>3. Copied(e)' = Copied(e) \cup {o}
    BY <1>0, <1>1, <1>7, CopiedGrows
  <2>4. outBlob # Kept
    BY KeptAssumption DEF IInv, TypeOK, PluginOK
  <2>5. \A t \in Slots, p \in Outputs :
            IF p \in Copied(e)' /\ t = call[e].req.out[p]
            THEN /\ mem'[e][t][p] # Kept
                 /\ Sized(call[e].req) => mem'[e][t][p] = Inference(e)
            ELSE mem'[e][t][p] = Kept
    BY <1>00, <1>2, <2>2, <2>3, <2>4 DEF Holds
  <2>6. \A p \in Copied(e)' : Fits(call[e].req, p) /\ p \notin insufficient'
    BY <1>2, <1>7, <2>3 DEF Fitted, UpdateOutputShapes, Mismatch, Fits
  <2>7. Sized(call[e].req) => outBlob' = outBlob
    BY <1>7 DEF Sized
  <2>8. QED
    BY <1>4, <1>7, <2>5, <2>6, <2>7
<1>8. QED
  BY <1>0, <1>00, <1>3, <1>5, <1>6, <1>7 DEF CopyOutput, GetBlobThrows

LEMMA UpdateRequestPoolInfosKeeps ==
  ASSUME IInv, NEW e \in Execs, CarefulInv(e), UpdateRequestPoolInfos(e)
  PROVE  CarefulInv(e)'
<1>1. CASE Down
  BY <1>1, DownKeeps
<1>2. CASE Goto(e, "report", 1) /\ UNCHANGED <<client, modelInfo, plugin, mem, model, service>>
  <2>1. at[e].pc = "update" /\ at'[e].pc = "report"
    BY <1>2, GotoMoves DEF UpdateRequestPoolInfos, Up, PcType
  <2>2. PoolsOK(e)'
    BY <1>2, <2>1, PoolsStay DEF modelInfo, client, WithPools
  <2>3. BlobsOK(e)' /\ LeftBehind(e)'
    BY <1>2, <2>1 DEF CarefulInv, BlobsOK, LeftBehind, plugin, client
  <2>4. Copied(e)' = Copied(e)
    BY <2>1 DEF Copied
  <2>5. MemoryFollows(e)'
    BY <1>2, <2>1, <2>4 DEF CarefulInv, MemoryFollows, Holds, Fitted, client, modelInfo
  <2>6. QED
    BY <2>2, <2>3, <2>5 DEF CarefulInv
<1>3. QED
  BY <1>1, <1>2 DEF UpdateRequestPoolInfos

LEMMA ReportKeeps ==
  ASSUME IInv, NEW e \in Execs, Careful(e), CarefulInv(e), Report(e) PROVE CarefulInv(e)'
<1>1. /\ Running(e) /\ at[e].pc = "report" /\ answers[e] = <<>>
      /\ Answer(e, "NONE", ShapesTold(e, insufficient)) /\ Goto(e, "done", 1)
      /\ UNCHANGED <<call, ret, modelInfo, plugin, memory, model, service>>
  BY DEF Report, Up, Running, IInv, ControlOK
<1>2. at'[e].pc = "done" /\ \A f \in Execs : f # e => at'[f] = at[f]
  BY <1>1, GotoMoves DEF PcType
<1>3. PoolsOK(e)' /\ BlobsOK(e)' /\ LeftBehind(e)'
  BY <1>1, <1>2, EndsAlone DEF CarefulInv, PoolsOK, BlobsOK, BeforePools, WithPools, plugin
<1>4. /\ answers'[e] # <<>> /\ answers'[e][1].status = "NONE"
      /\ answers'[e][1].short = ShapesTold(e, insufficient)
  BY <1>1, AnswerIs
<1>5. Holds(e, NamedOutputs) /\ Fitted(e, NamedOutputs, insufficient)
  <2>1. Copied(e) = NamedOutputs
    BY <1>1 DEF Copied
  <2>2. QED
    BY <1>1, <2>1 DEF CarefulInv, MemoryFollows
<1>6. Completed(e)'
  BY <1>1, <1>4, <1>5 DEF Completed, Answered, Holds, Fitted, ShapesTold, memory
<1>7. QED
  BY <1>2, <1>3, <1>6 DEF CarefulInv, MemoryFollows

-----------------------------------------------------------------------------
(* A careful execution keeps its invariant, step after step.               *)

LEMMA InitCareful == ASSUME Init, NEW e \in Execs PROVE CarefulInv(e)
<1>1. at[e].pc = "idle" /\ device = NoExec /\ raised = {} /\ \A s \in Slots : pools[s] = Absent
  BY DEF Init
<1>2. PoolsOK(e) /\ BlobsOK(e) /\ LeftBehind(e)
  BY <1>1, Sentinels DEF PoolsOK, BlobsOK, LeftBehind, BeforePools, WithPools
<1>3. Copied(e) = {} /\ MemoryFollows(e)
  BY <1>1 DEF Copied, MemoryFollows, Holds, Fitted, Init
<1>4. QED
  BY <1>2, <1>3 DEF CarefulInv

LEMMA NextCareful ==
  ASSUME IInv, [Next]_vars, NEW e \in Execs, CarefulInv(e), Careful(e), Careful(e)'
  PROVE  CarefulInv(e)'
<1>1. ASSUME NEW f \in Execs, f # e, Calls(f) \/ Runs(f) PROVE CarefulInv(e)'
  BY <1>1, OtherThread
<1>2. CASE Calls(e)
  BY <1>2, CallsKeep
<1>3. CASE Runs(e)
  BY <1>3, ExecuteReturnsKeeps, WaitFenceKeeps, AttachKeeps, ResizePoolsKeeps, SetPoolKeeps,
     CopyInputKeeps, StartAsyncKeeps, WaitReturnsKeeps, WaitTimesOutKeeps, CopyOutputKeeps,
     UpdateRequestPoolInfosKeeps, ReportKeeps DEF Runs, Infers
<1>4. CASE DeviceFinishes \/ OverrunFaults \/ Destroy
  BY <1>4, DeviceKeeps, DownKeeps, DestroyKeeps DEF OverrunFaults
<1>5. CASE UNCHANGED vars
  BY <1>5 DEF CarefulInv, PoolsOK, BlobsOK, MemoryFollows, LeftBehind, Mine, Untouched,
     Completed, ShortAt, Holds, Fitted, Copied, Answered, vars, client, modelInfo, plugin,
     memory
<1>6. QED
  BY <1>1, <1>2, <1>3, <1>4, <1>5 DEF Next, Quiescent

-----------------------------------------------------------------------------
(* Writes are committed.                                                   *)

\* The uncommitted writes: one more by a thread that copies an output, or fewer
\* by one that calls update().
LEMMA DirtyByThread ==
  ASSUME IInv, NEW f \in Execs, Calls(f) \/ Runs(f)
  PROVE  \/ dirty' = dirty
         \/ at[f].pc = "outputs" /\ \E s \in Slots : /\ s <= Len(call[f].req.pools)
                                                     /\ dirty' = dirty \cup {<<pools[s], s>>}
         \/ at[f].pc = "update" /\ dirty' = Uncommitted
<1> USE DEF memory, Down
<1>1. CASE Calls(f) \/ ExecuteReturns(f) \/ WaitFence(f) \/ Attach(f)
  BY <1>1 DEF Calls, Execute, ExecuteSynchronously, ExecuteFenced, ExecuteReturns,
     WaitFence, Attach
<1>2. CASE ResizePools(f) \/ SetPool(f)
  BY <1>2 DEF ResizePools, SetPool
<1>3. CASE CopyInput(f)
  BY <1>3 DEF CopyInput, GetBlobThrows
<1>4. CASE StartAsync(f) \/ WaitReturns(f) \/ WaitTimesOut(f) \/ Report(f)
  BY <1>4 DEF StartAsync, WaitReturns, WaitTimesOut, Report
<1>5. CASE CopyOutput(f)
  <2> DEFINE s == call[f].req.out[at[f].k]
  <2>1. Running(f) /\ at[f].pc = "outputs"
    BY <1>5 DEF CopyOutput, Up, Running
  <2>2. s \in Slots /\ (~Mismatch(f, at[f].k) => s <= Len(call[f].req.pools))
    BY <2>1, RunningType, Locates DEF IInv, ControlOK
  <2>3. dirty' = dirty \/ (~Mismatch(f, at[f].k) /\ dirty' = dirty \cup {<<pools[s], s>>})
    BY <1>5 DEF CopyOutput, GetBlobThrows
  <2>4. QED
    BY <2>1, <2>2, <2>3
<1>6. CASE UpdateRequestPoolInfos(f)
  BY <1>6 DEF UpdateRequestPoolInfos, Up
<1>7. QED
  BY <1>1, <1>2, <1>3, <1>4, <1>5, <1>6 DEF Runs, Infers

\* NONE is reported by the last step of a thread, after its update() only.
LEMMA EndsWithNone ==
  ASSUME IInv, NEW e \in Execs, Calls(e) \/ Runs(e), at[e].pc \notin {"update", "report", "done"}
  PROVE  at'[e].pc # "report" /\ ~(at'[e].pc = "done" /\ Answered(e, "NONE")')
<1>1. CASE Calls(e)
  BY <1>1, CallMoves
<1>2. CASE ExecuteReturns(e) \/ Down
  BY <1>2 DEF ExecuteReturns, Down
<1>3. ASSUME NEW st, st # "NONE", NEW sh, Answer(e, st, sh), Goto(e, "done", 1),
             answers[e] = <<>>
      PROVE  at'[e].pc = "done" /\ ~Answered(e, "NONE")'
  BY <1>3, GotoMoves, AnswerIs DEF PcType, Answered
<1>4. ASSUME NEW pc \in PcType \ {"report", "done"}, Goto(e, pc, 1)
      PROVE  at'[e].pc \notin {"report", "done"}
  BY <1>4, GotoMoves
<1>5. ASSUME NEW n \in Nat, NEW pc \in PcType \ {"report", "done"}, Iterate(e, n, pc)
      PROVE  at'[e].pc \notin {"report", "done"}
  BY <1>5, IterateMoves
<1>6. ASSUME Running(e) PROVE answers[e] = <<>>
  BY <1>6 DEF IInv, ControlOK
<1>7. CASE WaitFence(e)
  <2>1. Running(e)
    BY <1>7 DEF WaitFence, Up, Running
  <2>2. CASE Fail(e, "INVALID_ARGUMENT") \/ Fail(e, "GENERAL_FAILURE")
    BY <1>3, <1>6, <2>1, <2>2 DEF Fail
  <2>3. CASE Iterate(e, Len(call[e].waitFor), "resize")
    BY <1>5, <2>1, <2>3, RunningType DEF PcType
  <2>4. QED
    BY <1>7, <2>2, <2>3 DEF WaitFence
<1>8. CASE Attach(e) \/ ResizePools(e) \/ WaitTimesOut(e)
  <2>1. Down \/ \E pc \in {"resize", "inputs", "pools", "outputs"} : Goto(e, pc, 1)
    BY <1>8 DEF Attach, ResizePools, WaitTimesOut
  <2>2. QED
    BY <1>2, <1>4, <2>1 DEF PcType
<1>9. CASE SetPool(e)
  <2>1. Running(e)
    BY <1>9 DEF SetPool, Up, Running
  <2>2. CASE Fail(e, PoolFailure(e, at[e].k))
    BY <1>3, <1>6, <2>1, <2>2 DEF Fail, PoolFailure
  <2>3. CASE Iterate(e, Len(call[e].req.pools), "inputs")
    BY <1>5, <2>1, <2>3, RunningType DEF PcType
  <2>4. QED
    BY <1>2, <1>9, <2>2, <2>3 DEF SetPool
<1>10. CASE CopyInput(e)
  <2>1. CASE Down
    BY <1>2, <2>1
  <2>2. CASE Iterate(e, NumInputs, "start")
    BY <1>5, <2>2, SizesType DEF PcType
  <2>3. QED
    BY <1>10, <2>1, <2>2 DEF CopyInput, GetBlobThrows
<1>11. CASE StartAsync(e) \/ WaitReturns(e)
  BY <1>3, <1>4, <1>6, <1>11 DEF StartAsync, WaitReturns, Fail, PcType, Up, Running
<1>12. CASE CopyOutput(e)
  <2>1. Running(e)
    BY <1>12 DEF CopyOutput, Up, Running
  <2>2. ASSUME NEW sh, Answer(e, "OUTPUT_INSUFFICIENT_SIZE", sh), Goto(e, "done", 1)
        PROVE  at'[e].pc = "done" /\ ~Answered(e, "NONE")'
    BY <1>3, <1>6, <2>1, <2>2
  <2>3. ASSUME Iterate(e, NumOutputs, "update") PROVE at'[e].pc \notin {"report", "done"}
    BY <1>5, <2>3, SizesType DEF PcType
  <2>4. QED
    BY <1>2, <1>12, <2>2, <2>3 DEF CopyOutput, GetBlobThrows
<1>13. CASE UpdateRequestPoolInfos(e) \/ Report(e)
  BY <1>13 DEF UpdateRequestPoolInfos, Report, Up
<1>14. QED
  BY <1>1, <1>2, <1>7, <1>8, <1>9, <1>10, <1>11, <1>12, <1>13 DEF Runs, Infers

\* Before NONE is reported, every pool an output of e is in has been updated, and
\* nobody writes to it afterwards.
LEMMA NextCommit ==
  ASSUME IInv, [Next]_vars, NEW e \in Execs, CarefulInv(e), CommitInv(e), Careful(e),
         Careful(e)', KeepsModel(e)
  PROVE  CommitInv(e)'
<1>1. ASSUME NEW f \in Execs, f # e, Calls(f) \/ Runs(f) PROVE CommitInv(e)'
  <2>1. at'[e] = at[e] /\ call'[e] = call[e] /\ answers'[e] = answers[e]
    BY <1>1, OthersUntouched
  <2>2. SUFFICES ASSUME at[e].pc = "report" \/ (at[e].pc = "done" /\ Answered(e, "NONE")),
                        NEW s \in Slots, <<e, s>> \notin dirty
                 PROVE  <<e, s>> \notin dirty'
    <3>1. at[e].pc \in {"report", "done"} => \A o \in NamedOutputs : call[e].req.out[o] \in Slots
      <4>1. at[e].pc \in {"report", "done"} => call[e] \in CallType
        BY DEF IInv, ControlOK
      <4>2. at[e].pc \in {"report", "done"} =>
              call[e].req \in RequestType /\ call[e].req.out \in [Outputs -> Slots]
        BY <4>1, RequestsAssumption DEF CallType, RequestType
      <4>3. QED
        BY <4>2, SizesType
    <3>2. QED
      BY <2>1, <2>2, <3>1 DEF CommitInv, Committed, Answered
  <2>3. CASE InFlight(e)
    BY <1>1, <2>2, <2>3, OnlyRefusals DEF Careful, memory
  <2>4. CASE ~InFlight(e)
    <3>1. at[e].pc = "done"
      BY <2>2, <2>4 DEF InFlight
    <3>2. at[f].pc = "outputs" =>
            \A t \in Slots : t <= Len(call[f].req.pools) => pools[t] # e
      BY <1>1, <3>1 DEF CarefulInv, LeftBehind, WithPools
    <3>3. QED
      BY <1>1, <2>2, <3>2, DirtyByThread DEF Uncommitted
  <2>5. QED
    BY <2>3, <2>4
<1>2. CASE (Calls(e) \/ Runs(e)) /\ at[e].pc \notin {"update", "report", "done"}
  BY <1>2, EndsWithNone DEF CommitInv
<1>3. CASE UpdateRequestPoolInfos(e)
  <2>1. CASE Down
    BY <2>1 DEF Down, CommitInv, Committed, Answered, client, memory
  <2>2. CASE dirty' = Uncommitted /\ Goto(e, "report", 1) /\ UNCHANGED client
    <3>1. Running(e) /\ at[e].pc = "update" /\ model = "live"
      BY <1>3 DEF UpdateRequestPoolInfos, Up, Running, KeepsModel, InFlight
    <3>2. ASSUME NEW o \in NamedOutputs
          PROVE  <<e, call[e].req.out[o]>> \notin dirty'
      <4>1. /\ call[e].req.out[o] \in Slots
            /\ call[e].req.out[o] <= Len(call[e].req.pools)
        BY <3>1, SizesType, RunningType, Locates DEF CarefulInv, PoolsOK
      <4>2. pools[call[e].req.out[o]] = e
        BY <3>1, <4>1, PoolIsMine DEF Mine, WithPools
      <4>3. QED
        BY <2>2, <4>2 DEF Uncommitted
    <3>3. QED
      BY <2>2, <3>2 DEF CommitInv, Committed, client
  <2>3. QED
    BY <1>3, <2>1, <2>2 DEF UpdateRequestPoolInfos
<1>4. CASE Report(e)
  BY <1>4 DEF Report, Up, CommitInv, Committed, memory
<1>5. CASE DeviceFinishes \/ OverrunFaults \/ Destroy \/ UNCHANGED vars \/ ExecuteReturns(e)
  BY <1>5 DEF DeviceFinishes, OverrunFaults, Down, Destroy, ExecuteReturns, vars, client, memory,
     CommitInv, Committed, Answered
<1>6. ASSUME Calls(e) \/ Runs(e), at[e].pc \in {"update", "report", "done"}
      PROVE  UpdateRequestPoolInfos(e) \/ Report(e) \/ ExecuteReturns(e)
  BY <1>6, CallMoves DEF Runs, Infers, WaitFence, Attach, ResizePools, SetPool, CopyInput,
     StartAsync, WaitReturns, WaitTimesOut, CopyOutput, Up
<1>7. QED
  BY <1>1, <1>2, <1>3, <1>4, <1>5, <1>6 DEF Next, Quiescent

-----------------------------------------------------------------------------
(* The service stays up.                                                   *)

\* No step of a thread takes it back to the state before its call.
LEMMA NeverIdle ==
  ASSUME IInv, NEW e \in Execs, Runs(e), at[e].pc # "idle" PROVE at'[e].pc # "idle"
<1>1. ASSUME NEW pc \in PcType \ {"idle"}, Goto(e, pc, 1) PROVE at'[e].pc # "idle"
  BY <1>1, GotoMoves
<1>2. CASE ExecuteReturns(e) \/ Attach(e) \/ ResizePools(e)
  <2>1. at' = at \/ \E pc \in {"resize", "inputs", "pools"} : Goto(e, pc, 1)
    BY <1>2 DEF ExecuteReturns, Attach, ResizePools, Down
  <2>2. QED
    BY <1>1, <2>1 DEF PcType
<1>3. CASE WaitFence(e)
  <2>1. Running(e)
    BY <1>3 DEF WaitFence, Up, Running
  <2>2. ASSUME Iterate(e, Len(call[e].waitFor), "resize") PROVE at'[e].pc # "idle"
    BY <2>1, <2>2, RunningType, IterateMoves DEF PcType, Running
  <2>3. QED
    BY <1>1, <1>3, <2>2 DEF WaitFence, Fail, PcType
<1>4. CASE SetPool(e)
  <2>1. Running(e)
    BY <1>4 DEF SetPool, Up, Running
  <2>2. ASSUME Iterate(e, Len(call[e].req.pools), "inputs") PROVE at'[e].pc # "idle"
    BY <2>1, <2>2, RunningType, IterateMoves DEF PcType, Running
  <2>3. QED
    BY <1>1, <1>4, <2>1, <2>2 DEF SetPool, Fail, Down, PcType, Running
<1>5. CASE \/ CopyInput(e) \/ StartAsync(e) \/ WaitReturns(e) \/ WaitTimesOut(e)
           \/ CopyOutput(e) \/ UpdateRequestPoolInfos(e) \/ Report(e)
  BY <1>5, LaterSteps DEF WithPools
<1>6. QED
  BY <1>2, <1>3, <1>4, <1>5 DEF Runs, Infers

\* A thread ends the service, or leaves it up.
LEMMA ServiceByThread ==
  ASSUME IInv, NEW f \in Execs, Calls(f) \/ Runs(f)
  PROVE  /\ service = "up"
         /\ service' = "up" \/ (Runs(f) /\ Down)
<1>1. CASE Calls(f)
  BY <1>1, CallMoves DEF Calls, Execute, ExecuteSynchronously, ExecuteFenced, CanCall, Up
<1>2. CASE Runs(f) /\ ~Down
  BY <1>2 DEF Runs, Infers, ExecuteReturns, WaitFence, Attach, ResizePools, SetPool,
     CopyInput, GetBlobThrows, StartAsync, WaitReturns, WaitTimesOut, CopyOutput,
     UpdateRequestPoolInfos, Report, Up
<1>3. CASE Runs(f) /\ Down
  BY <1>3 DEF Runs, Infers, ExecuteReturns, WaitFence, Attach, ResizePools, SetPool,
     CopyInput, StartAsync, WaitReturns, WaitTimesOut, CopyOutput,
     UpdateRequestPoolInfos, Report, Up
<1>4. QED
  BY <1>1, <1>2, <1>3

\* An execution with arguments that nobody checks is none that was never called.
LEMMA Called ==
  ASSUME IInv, NEW e \in Execs, at[e].pc # "idle" PROVE call[e] # NoCall
<1>1. call[e] \in CallType
  BY DEF IInv, ControlOK
<1>2. call[e].kind \in {"async", "sync", "fenced"}
  BY <1>1 DEF CallType
<1>3. QED
  BY <1>2 DEF NoCall

\* A thread copies past the end of something for an argument that nobody checks.
LEMMA OverranByThread ==
  ASSUME IInv, NEW f \in Execs, Runs(f)
  PROVE  /\ call' = call
         /\ \/ overran' = overran
            \/ overran' = overran \cup {f} /\ Running(f) /\ Unchecked(call[f].req)
<1> USE DEF client, plugin, Down
<1>1. CASE ExecuteReturns(f) \/ WaitFence(f) \/ Attach(f) \/ ResizePools(f) \/ SetPool(f)
  BY <1>1 DEF ExecuteReturns, WaitFence, Attach, ResizePools, SetPool, Fail
<1>2. CASE CopyInput(f)
  BY <1>2 DEF CopyInput, GetBlobThrows, Overrun, Up, Running, Unchecked
<1>3. CASE StartAsync(f) \/ WaitReturns(f) \/ WaitTimesOut(f) \/ Report(f)
  BY <1>3 DEF StartAsync, WaitReturns, WaitTimesOut, Report, Fail
<1>4. CASE CopyOutput(f)
  BY <1>4 DEF CopyOutput, GetBlobThrows, Overrun, Up, Running, Unchecked
<1>5. CASE UpdateRequestPoolInfos(f)
  BY <1>5 DEF UpdateRequestPoolInfos
<1>6. QED
  BY <1>1, <1>2, <1>3, <1>4, <1>5 DEF Runs, Infers

LEMMA NextOverran == ASSUME IInv, OverranInv, [Next]_vars PROVE OverranInv'
<1>1. ASSUME NEW f \in Execs, Calls(f) PROVE OverranInv'
  <2>1. at[f].pc = "idle" /\ overran' = overran
    BY <1>1, CallMoves DEF plugin
  <2>2. \A e \in Execs : e # f => at'[e] = at[e] /\ call'[e] = call[e]
    BY <1>1, OthersUntouched
  <2>3. QED
    BY <2>1, <2>2 DEF OverranInv, IInv, TypeOK, PluginOK
<1>2. ASSUME NEW f \in Execs, Runs(f) PROVE OverranInv'
  <2>1. /\ call' = call
        /\ \/ overran' = overran
           \/ overran' = overran \cup {f} /\ Running(f) /\ Unchecked(call[f].req)
    BY <1>2, OverranByThread
  <2>2. at[f].pc # "idle" => at'[f].pc # "idle"
    BY <1>2, NeverIdle
  <2>3. \A e \in Execs : e # f => at'[e] = at[e]
    BY <1>2, OthersUntouched
  <2>4. QED
    BY <2>1, <2>2, <2>3 DEF OverranInv, Running, IInv, TypeOK, PluginOK
<1>3. CASE DeviceFinishes \/ OverrunFaults \/ Destroy \/ UNCHANGED vars
  BY <1>3 DEF DeviceFinishes, OverrunFaults, Down, Destroy, vars, client, plugin, OverranInv
<1>4. QED
  BY <1>1, <1>2, <1>3 DEF Next, Quiescent

\* A thread that ends the service works on a model destroyed early, or is at an
\* argument that nobody checks.
LEMMA DownByThread ==
  ASSUME IInv, \A e \in Execs : CarefulInv(e) /\ Careful(e), NEW f \in Execs,
         Runs(f), Down
  PROVE  (model = "destroyed" \/ Culprit(f)) /\ Running(f)
<1>1. CASE Attach(f)
  BY <1>1 DEF Attach, Down, Up, Running
<1>2. CASE SetPool(f)
  <2>1. Running(f) /\ at[f].pc = "pools"
    BY <1>2 DEF SetPool, Up, Running
  <2>2. at[f].k \in Slots /\ ~(at[f].k > Len(call[f].req.pools))
    <3>1. at[f].k \in 1 .. Len(call[f].req.pools) /\ Len(call[f].req.pools) \in 0 .. MaxPools
      BY <2>1, RunningType DEF IInv, ControlOK
    <3>2. MaxPools \in Nat
      BY SizesAssumption
    <3>3. QED
      BY <3>1, <3>2 DEF Slots
  <2>3. pools[at[f].k] # Absent
    BY <2>1, <2>2 DEF CarefulInv, PoolsOK, WithPools
  <2>4. service' = "down" /\ service = "up"
    BY <1>2 DEF Down, SetPool, Up
  <2>5. QED
    BY <1>2, <2>3, <2>4 DEF SetPool
<1>3. CASE CopyInput(f)
  <2> DEFINE s == call[f].req.in[at[f].k]
  <2>1. Running(f) /\ at[f].pc = "inputs" /\ service = "up" /\ service' = "down"
    BY <1>3 DEF CopyInput, Up, Running, Down
  <2>2. s \in Slots /\ at[f].k \in Inputs
    BY <2>1, RunningType DEF IInv, ControlOK
  <2>3. CASE call[f].req.pools = <<>>
    BY <2>1, <2>3 DEF Culprit, Unchecked
  <2>4. CASE call[f].req.pools # <<>>
    <3>1. pools[s] # Absent /\ Mine(f, s) /\ device = NoExec
      BY <2>1, <2>2, <2>4, Locates, PoolIsMine, NotBusy DEF WithPools
    <3>2. CASE pools[s] = Unmapped
      BY <2>1, <3>1, <3>2, Sentinels DEF Mine
    <3>3. CASE pools[s] # Unmapped
      <4>1. at[f].k \in NamedInputs /\ call[f].req.inLength[at[f].k] = "long"
        BY <1>3, <2>1, <3>1, <3>3 DEF CopyInput, GetBlobThrows
      <4>2. QED
        BY <2>1, <4>1 DEF Culprit, Unchecked
    <3>4. QED
      BY <3>2, <3>3
  <2>5. QED
    BY <2>3, <2>4
<1>4. CASE CopyOutput(f)
  <2> DEFINE s == call[f].req.out[at[f].k]
  <2>1. Running(f) /\ at[f].pc = "outputs" /\ service = "up" /\ service' = "down"
    BY <1>4 DEF CopyOutput, Up, Running, Down
  <2>2. s \in Slots /\ s <= Len(call[f].req.pools)
    BY <2>1, RunningType, Locates DEF IInv, ControlOK, CarefulInv, PoolsOK
  <2>3. pools[s] # Absent /\ Mine(f, s) /\ device = NoExec
    BY <2>1, <2>2, PoolIsMine, NotBusy DEF WithPools
  <2>4. CASE pools[s] = Unmapped
    BY <2>1, <2>3, <2>4, Sentinels DEF Mine
  <2>5. CASE pools[s] # Unmapped
    <3>1. at[f].k \in NamedOutputs /\ call[f].req.outLength[at[f].k] = "outside"
      BY <1>4, <2>1, <2>3, <2>5 DEF CopyOutput, GetBlobThrows
    <3>2. QED
      BY <2>1, <3>1 DEF Culprit, Unchecked
  <2>6. QED
    BY <2>4, <2>5
<1>5. CASE UpdateRequestPoolInfos(f)
  <2>1. Running(f) /\ at[f].pc = "update" /\ at' = at
    BY <1>5 DEF UpdateRequestPoolInfos, Up, Running, Down
  <2>2. PICK s \in Slots : pools[s] = Unmapped
    <3>1. ~Goto(f, "report", 1)
      BY <2>1, GotoMoves DEF PcType
    <3>2. QED
      BY <1>5, <3>1 DEF UpdateRequestPoolInfos
  <2>3. ~(s > Len(call[f].req.pools))
    BY <2>1, <2>2, Sentinels DEF CarefulInv, PoolsOK, WithPools
  <2>4. s <= Len(call[f].req.pools)
    BY <2>1, <2>3, RunningType DEF Slots
  <2>5. Mine(f, s)
    BY <2>1, <2>4, PoolIsMine DEF WithPools
  <2>6. QED
    BY <2>1, <2>2, <2>5, Sentinels DEF Mine
<1>6. ~(ExecuteReturns(f) \/ WaitFence(f) \/ ResizePools(f) \/ StartAsync(f)
        \/ WaitReturns(f) \/ WaitTimesOut(f) \/ Report(f))
  BY DEF ExecuteReturns, WaitFence, ResizePools, StartAsync, WaitReturns, WaitTimesOut, Report,
     Down, Up
<1>7. QED
  BY <1>1, <1>2, <1>3, <1>4, <1>5, <1>6 DEF Runs, Infers

\* A service that is down does nothing.
LEMMA DownStays ==
  ASSUME [Next]_vars, service = "down" PROVE UNCHANGED vars
  BY DEF Next, Quiescent, Calls, Execute, ExecuteSynchronously, ExecuteFenced, CanCall, Runs,
     Infers, ExecuteReturns, WaitFence, Attach, ResizePools, SetPool, CopyInput, StartAsync,
     WaitReturns, WaitTimesOut, CopyOutput, UpdateRequestPoolInfos, Report, DeviceFinishes,
     OverrunFaults, Destroy, Up

LEMMA NextDown ==
  ASSUME IInv, [Next]_vars, DownInv, \A e \in Execs : CarefulInv(e) /\ Careful(e)
  PROVE  DownInv'
<1>1. OverranInv'
  BY NextOverran DEF DownInv
<1>2. CASE service = "down"
  BY <1>1, <1>2, DownStays
     DEF DownInv, LostToCulprit, Culprit, Unchecked, vars, client, plugin
<1>3. CASE service = "up"
  <2>1. SUFFICES ASSUME service' = "down"
                 PROVE  \/ model' = "destroyed" /\ \E e \in Execs : at'[e].pc \notin {"idle", "done"}
                        \/ LostToCulprit'
    BY <1>1 DEF DownInv
  <2>2. Down /\ ((\E f \in Execs : Runs(f)) \/ OverrunFaults)
    <3>1. ASSUME NEW f \in Execs, Calls(f) \/ Runs(f) PROVE Runs(f) /\ Down
      BY <2>1, <3>1, ServiceByThread
    <3>2. QED
      BY <1>3, <2>1, <3>1 DEF Next, Quiescent, vars, DeviceFinishes, OverrunFaults, Destroy
  <2>3. \A e \in Execs : (Culprit(e) => Culprit(e)') /\ at'[e] = at[e] /\ call'[e] = call[e]
    BY <2>2 DEF Down, Culprit, Unchecked, client, plugin
  <2>4. CASE \E f \in Execs : Runs(f)
    <3>1. PICK f \in Execs : Runs(f)
      BY <2>4
    <3>2. (model = "destroyed" \/ Culprit(f)) /\ Running(f) /\ model' = model
      BY <2>2, <3>1, DownByThread DEF Down
    <3>3. call[f] # NoCall
      BY <3>2, Called DEF Running
    <3>4. QED
      BY <2>3, <3>2, <3>3 DEF LostToCulprit, Running
  <2>5. CASE OverrunFaults
    <3>1. PICK e \in overran : TRUE
      BY <2>5 DEF OverrunFaults
    <3>2. e \in Execs /\ at[e].pc # "idle" /\ Culprit(e)
      BY <3>1 DEF DownInv, OverranInv, Culprit, IInv, TypeOK, PluginOK
    <3>3. call[e] # NoCall
      BY <3>2, Called
    <3>4. QED
      BY <2>3, <3>2, <3>3 DEF LostToCulprit
  <2>6. QED
    BY <2>2, <2>4, <2>5
<1>4. QED
  BY <1>2, <1>3 DEF IInv, TypeOK, LifeOK

-----------------------------------------------------------------------------
(* The theorems about careful executions.                                  *)

LEMMA InitCommit == ASSUME Init, NEW e \in Execs PROVE CommitInv(e)
  BY DEF Init, CommitInv

LEMMA InvTells ==
  ASSUME IInv, NEW e \in Execs, CarefulInv(e), Answered(e, "NONE")
  PROVE  Written(e)
<1>1. at[e].pc = "done"
  BY DEF IInv, ControlOK, Running, Bare, Answered
<1>2. Holds(e, NamedOutputs)
  BY <1>1 DEF CarefulInv, MemoryFollows, Untouched, Completed, ShortAt, Answered
<1>3. \A o \in NamedOutputs : o \in Outputs /\ call[e].req.out[o] \in Slots
  <2>1. call[e].req \in RequestType
    BY <1>1, RequestsAssumption DEF IInv, ControlOK, CallType
  <2>2. QED
    BY <2>1, SizesType DEF RequestType
<1>4. QED
  BY <1>2, <1>3 DEF Holds, Written, Delivered

\* An execution that meets no other, and whose inference ends in time, delivers
\* its own outputs when it reports NONE, whatever the clients of the model do
\* before and after it; and they are committed unless its own client drops the
\* model first.
THEOREM CarefulDeliver == Spec => CarefulExecutionsDeliver
<1> SUFFICES ASSUME NEW e \in Execs
             PROVE  Spec =>
                      /\ []Careful(e) => [](Answered(e, "NONE") => Written(e))
                      /\ [](Careful(e) /\ KeepsModel(e)) =>
                            [](Answered(e, "NONE") => Committed(e))
  BY DEF CarefulExecutionsDeliver
<1>1. Init => IInv /\ CarefulInv(e) /\ CommitInv(e)
  BY InitIInv, InitCareful, InitCommit
<1>2. IInv /\ [Next]_vars => IInv'
  BY NextIInv
<1>3. IInv /\ CarefulInv(e) /\ Careful(e) /\ Careful(e)' /\ [Next]_vars => CarefulInv(e)'
  BY NextCareful
<1>4. IInv /\ CarefulInv(e) /\ CommitInv(e) /\ Careful(e) /\ Careful(e)' /\ KeepsModel(e)
        /\ [Next]_vars => CommitInv(e)'
  BY NextCommit
<1>5. IInv /\ CarefulInv(e) => (Answered(e, "NONE") => Written(e))
  BY InvTells
<1>6. IInv /\ CommitInv(e) => (Answered(e, "NONE") => Committed(e))
  BY DEF IInv, ControlOK, Running, Bare, Answered, CommitInv
<1>7. QED
  BY <1>1, <1>2, <1>3, <1>4, <1>5, <1>6, PTL DEF Spec

LEMMA InitDown == Init => DownInv
  BY DEF Init, DownInv, OverranInv

\* If no two executions of the model overlap, and every inference ends within its
\* wait, then only a model that is destroyed under a running execution, or an
\* argument that nobody checks, brings the service down: no nnAssert fails, no
\* exception escapes and no unmapped pool is touched otherwise.
THEOREM CarefulStayUp == Spec => CarefulClientsStayUp
<1> DEFINE AllCareful == \A e \in Execs : Careful(e)
           AllInv     == \A e \in Execs : CarefulInv(e)
<1>1. Init => IInv /\ AllInv /\ DownInv
  BY InitIInv, InitCareful, InitDown
<1>2. IInv /\ [Next]_vars => IInv'
  BY NextIInv
<1>3. IInv /\ AllInv /\ AllCareful /\ AllCareful' /\ [Next]_vars => AllInv'
  BY NextCareful
<1>4. IInv /\ AllInv /\ AllCareful /\ DownInv /\ [Next]_vars => DownInv'
  BY NextDown
<1> DEFINE Lost == \/ model = "destroyed" /\ \E e \in Execs : at[e].pc \notin {"idle", "done"}
                   \/ LostToCulprit
           UpOrLost == service = "down" => Lost
<1>5. DownInv => UpOrLost
  BY DEF DownInv
<1>6. Spec => ([]AllCareful => []UpOrLost)
  <2> HIDE DEF AllCareful, AllInv, UpOrLost
  <2>1. QED
    BY <1>1, <1>2, <1>3, <1>4, <1>5, PTL DEF Spec
<1>7. QED
  BY <1>6 DEF CarefulClientsStayUp

-----------------------------------------------------------------------------
(* A client that waits for its answer before it calls again, keeps its     *)
(* model until then, and whose inferences end within the wait.             *)

SerialClient == Serial /\ ~InferMayTimeOut /\ ~ReleaseEarly

\* One execution in flight at a time leaves the device to the one that waits.
LEMMA SerialCareful ==
  SerialInv => \A e \in Execs : Careful(e) /\ KeepsModel(e)
  BY DEF SerialInv, Careful

\* What a thread does to the state that SerialInv is about.
LEMMA FlightByThread ==
  ASSUME IInv, SerialClient, NEW f \in Execs, Runs(f)
  PROVE  /\ InFlight(f) /\ model' = model
         /\ device' = device \/ (device' = f /\ at'[f].pc = "wait")
         /\ device = f =>
               (device' = f /\ at'[f].pc = at[f].pc) \/ at[f].pc # "wait"
<1>1. InFlight(f)
  BY DEF InFlight, Runs, ExecuteReturns, WaitFence, Attach, Infers, ResizePools, SetPool,
     CopyInput, StartAsync, WaitReturns, WaitTimesOut, CopyOutput, UpdateRequestPoolInfos,
     Report, Up
<1>2. CASE StartAsync(f)
  BY <1>1, <1>2, GotoMoves DEF StartAsync, PcType, Up
<1>3. CASE ~StartAsync(f)
  <2>1. device' = device
    BY <1>3 DEF Runs, ExecuteReturns, WaitFence, Attach, Infers, ResizePools, SetPool,
       CopyInput, GetBlobThrows, WaitReturns, WaitTimesOut, CopyOutput, UpdateRequestPoolInfos,
       Report, Down, plugin
  <2>2. ASSUME device = f, at[f].pc = "wait" PROVE at' = at
    BY <1>3, <2>2 DEF Runs, ExecuteReturns, WaitFence, Attach, Infers, ResizePools, SetPool,
       CopyInput, GetBlobThrows, WaitReturns, WaitTimesOut, CopyOutput, UpdateRequestPoolInfos,
       Report, Up, SerialClient
  <2>3. QED
    BY <1>1, <2>1, <2>2, SharedByThread
<1>4. QED
  BY <1>2, <1>3, SharedByThread

LEMMA NextSerial ==
  ASSUME IInv, SerialClient, SerialInv, [Next]_vars, \A e \in Execs : CarefulInv(e)
  PROVE  SerialInv'
<1>1. ASSUME NEW f \in Execs, Calls(f) PROVE SerialInv'
  <2>1. \A e \in Execs : ~InFlight(e)
    BY <1>1 DEF Calls, Execute, ExecuteSynchronously, ExecuteFenced, CanCall, SerialClient
  <2>2. model = "live" /\ model' = model /\ device' = device
    BY <1>1, CallMoves
       DEF Calls, Execute, ExecuteSynchronously, ExecuteFenced, CanCall, plugin
  <2>3. \A e \in Execs : e # f => ~InFlight(e)'
    BY <1>1, <2>1, OthersUntouched DEF InFlight
  <2>4. \A e \in Execs : device # e
    BY <2>1 DEF SerialInv, InFlight
  <2>5. QED
    BY <2>2, <2>3, <2>4 DEF SerialInv, KeepsModel
<1>2. ASSUME NEW f \in Execs, Runs(f) PROVE SerialInv'
  <2>1. /\ InFlight(f) /\ model' = model
        /\ device' = device \/ (device' = f /\ at'[f].pc = "wait")
        /\ device = f => (device' = f /\ at'[f].pc = at[f].pc) \/ at[f].pc # "wait"
    BY <1>2, FlightByThread
  <2>2. \A e \in Execs : e # f => ~InFlight(e) /\ ~InFlight(e)'
    BY <1>2, <2>1, OthersUntouched DEF InFlight, SerialInv
  <2>3. \A e \in Execs : device = e => e = f
    BY <2>2 DEF SerialInv, InFlight
  <2>4. model' = "live"
    BY <2>1 DEF SerialInv, KeepsModel
  <2>5. QED
    BY <2>1, <2>2, <2>3, <2>4 DEF SerialInv, KeepsModel
<1>3. CASE DeviceFinishes \/ OverrunFaults
  BY <1>3, Sentinels
     DEF DeviceFinishes, OverrunFaults, Down, SerialInv, KeepsModel, InFlight, client, plugin
<1>4. CASE Destroy
  BY <1>4 DEF Destroy, SerialInv, KeepsModel, InFlight, SerialClient, client, plugin
<1>5. CASE UNCHANGED vars
  BY <1>5 DEF vars, SerialInv, KeepsModel, InFlight, client, plugin
<1>6. QED
  BY <1>1, <1>2, <1>3, <1>4, <1>5 DEF Next, Quiescent

SInv ==
    /\ IInv /\ SerialInv /\ DownInv
    /\ \A e \in Execs : CarefulInv(e) /\ CommitInv(e)

LEMMA InitSInv == Init => SInv
<1> SUFFICES ASSUME Init PROVE SInv
  OBVIOUS
<1>1. SerialInv
  BY Sentinels DEF Init, SerialInv, KeepsModel, InFlight, NoStatus
<1>2. QED
  BY <1>1, InitIInv, InitDown, InitCareful, InitCommit DEF SInv

LEMMA NextSInv == SerialClient /\ SInv /\ [Next]_vars => SInv'
<1> SUFFICES ASSUME SerialClient, SInv, [Next]_vars PROVE SInv'
  OBVIOUS
<1> USE DEF SInv
<1>1. IInv' /\ SerialInv'
  BY NextIInv, NextSerial
<1>2. \A e \in Execs : Careful(e) /\ KeepsModel(e)
  BY SerialCareful
<1>3. \A e \in Execs : Careful(e)'
  BY <1>1, SerialCareful DEF SerialInv, Careful
<1>4. \A e \in Execs : CarefulInv(e)' /\ CommitInv(e)'
  BY <1>2, <1>3, NextCareful, NextCommit
<1>5. DownInv'
  BY <1>2, NextDown
<1>6. QED
  BY <1>1, <1>4, <1>5

LEMMA SerialInvariant == SerialClient => (Spec => []SInv)
<1>1. CASE SerialClient
  <2>1. SInv /\ [Next]_vars => SInv'
    BY <1>1, NextSInv
  <2>2. QED
    BY <2>1, InitSInv, PTL DEF Spec
<1>2. QED
  BY <1>1

\* For a client that waits for its answers: when NONE is reported, every output
\* is the client's own, in the client's own memory, and committed.
THEOREM SerialDataUpdated == SerialClient => (Spec => []OutputDataUpdated)
<1>1. SInv => OutputDataUpdated
  BY InvTells DEF SInv, OutputDataUpdated, IInv, ControlOK, Running, Bare, Answered, CommitInv
<1>2. QED
  BY <1>1, SerialInvariant, PTL

\* Nothing but an argument that nobody checks brings the service down: no other
\* nnAssert fails, no exception escapes a thread, and no unmapped pool is touched.
THEOREM SerialStaysUp == SerialClient => (Spec => []OnlyUncheckedArgumentsEndService)
<1>1. SInv => OnlyUncheckedArgumentsEndService
  <2> SUFFICES ASSUME SInv, service = "down" PROVE LostToCulprit
    BY DEF OnlyUncheckedArgumentsEndService
  <2>1. ASSUME NEW e \in Execs, at[e].pc \notin {"idle", "done"} PROVE model = "live"
    BY <2>1 DEF SInv, SerialInv, KeepsModel, InFlight
  <2>2. QED
    BY <2>1 DEF SInv, DownInv
<1>2. QED
  BY <1>1, SerialInvariant, PTL

\* The status tells the client what it can rely on: which of its outputs it has,
\* which is the first that did not fit, or that none was touched.
THEOREM SerialAnswersTell == SerialClient => (Spec => []AnswerTellsTruth)
<1>1. SInv => AnswerTellsTruth
  <2> SUFFICES ASSUME SInv, NEW e \in Execs, answers[e] # <<>>
      PROVE LET r     == call[e].req
                short == answers[e][1].short
                Bad   == {o \in NamedOutputs : r.outLength[o] \notin {"exact", "outside"}}
            IN CASE answers[e][1].status = "NONE" ->
                      Bad = {} /\ short \cap NamedOutputs = {}
                 [] answers[e][1].status = "OUTPUT_INSUFFICIENT_SIZE" ->
                      \E first \in Bad :
                        /\ call[e].kind # "fenced" => first \in short
                        /\ \A o \in NamedOutputs : o < first =>
                             o \notin Bad \cup short /\ Delivered(e, o)
                 [] OTHER ->
                      \A s \in Slots, o \in Outputs : mem[e][s][o] = Kept
    BY DEF AnswerTellsTruth
  <2>1. at[e].pc = "done"
    BY DEF SInv, IInv, ControlOK, Running, Bare
  <2>2. \A o \in NamedOutputs : o \in Outputs /\ call[e].req.out[o] \in Slots
    <3>1. call[e].req \in RequestType
      BY <2>1, RequestsAssumption DEF SInv, IInv, ControlOK, CallType
    <3>2. QED
      BY <3>1, SizesType DEF RequestType
  <2>3. CASE Untouched(e)
    BY <2>3 DEF Untouched, Answered, Holds
  <2>4. CASE Completed(e)
    <3>1. answers[e][1].status = "NONE"
      BY <2>4 DEF Completed, Answered
    <3>2. \A o \in NamedOutputs : Fits(call[e].req, o) /\ o \notin answers[e][1].short
      BY <2>4 DEF Completed, Fitted
    <3>3. QED
      BY <3>1, <3>2 DEF Fits
  <2>5. ASSUME NEW first \in NamedOutputs, ShortAt(e, first)
        PROVE  /\ answers[e][1].status = "OUTPUT_INSUFFICIENT_SIZE"
               /\ ~Fits(call[e].req, first)
               /\ call[e].kind # "fenced" => first \in answers[e][1].short
               /\ \A o \in NamedOutputs : o < first =>
                    /\ Fits(call[e].req, o) /\ o \notin answers[e][1].short
                    /\ Delivered(e, o)
    BY <2>2, <2>5 DEF ShortAt, Answered, Holds, Fitted, Before, Delivered
  <2>6. CASE \E first \in NamedOutputs : ShortAt(e, first)
    BY <2>5, <2>6 DEF Fits
  <2>7. QED
    BY <2>1, <2>3, <2>4, <2>6 DEF SInv, CarefulInv, MemoryFollows
<1>2. QED
  BY <1>1, SerialInvariant, PTL

LEMMA DoneIsLeftAlone ==
  ASSUME SInv, [Next]_vars, NEW e \in Execs, at[e].pc = "done"
  PROVE  mem'[e] = mem[e] /\ answers'[e] = answers[e]
<1> USE DEF SInv
<1>1. ASSUME NEW f \in Execs, f # e, Calls(f) \/ Runs(f)
      PROVE  mem'[e] = mem[e] /\ answers'[e] = answers[e]
  BY <1>1, OthersUntouched, MemoryByThread DEF CarefulInv, LeftBehind, WithPools
<1>2. ASSUME Calls(e) \/ Runs(e) PROVE ExecuteReturns(e)
  BY <1>2, CallMoves DEF Runs, Infers, WaitFence, Attach, ResizePools, SetPool, CopyInput,
     StartAsync, WaitReturns, WaitTimesOut, CopyOutput, UpdateRequestPoolInfos, Report, Up
<1>3. QED
  BY <1>1, <1>2 DEF Next, Quiescent, vars, client, memory, ExecuteReturns, DeviceFinishes,
     OverrunFaults, Down, Destroy

\* Once it has been answered, a client's memory is never written to, and its
\* callback never called, again.
THEOREM SerialLeftAlone == SerialClient => (Spec => AnsweredRequestsAreLeftAlone)
<1>1. SInv /\ [Next]_vars =>
        [\A e \in Execs : at[e].pc = "done" =>
            mem'[e] = mem[e] /\ answers'[e] = answers[e]]_vars
  BY DoneIsLeftAlone
<1>2. QED
  BY <1>1, SerialInvariant, PTL DEF AnsweredRequestsAreLeftAlone, Spec

-----------------------------------------------------------------------------
(* PreparedModel implements ExecutionService (its safety part).            *)

\* What an execution has written stays uncommitted, until its own update().
DirtyOK(e) ==
    at[e].pc = "report" \/ (at[e].pc = "done" /\ Answered(e, "NONE")) \/
    \A s \in Slots, o \in Outputs : mem[e][s][o] # Kept => <<e, s>> \in dirty

\* A thread ends with an answer, and with NONE only after its update().
LEMMA RunEnds ==
  ASSUME IInv, NEW e \in Execs, Runs(e), at[e].pc # "done", at'[e].pc = "done"
  PROVE  /\ Running(e) /\ answers'[e] # <<>> /\ call' = call /\ mem' = mem /\ dirty' = dirty
         /\ answers'[e][1].status \in
              {"NONE", "OUTPUT_INSUFFICIENT_SIZE", "GENERAL_FAILURE", "INVALID_ARGUMENT"}
         /\ answers'[e][1].status = "NONE" <=> at[e].pc = "report"
<1> USE DEF memory
<1>1. ASSUME Running(e), NEW st, NEW sh, Answer(e, st, sh)
      PROVE  answers'[e] # <<>> /\ answers'[e][1].status = st
  BY <1>1, AnswerIs DEF IInv, ControlOK
<1>2. ASSUME NEW pc \in PcType \ {"done"}, Goto(e, pc, 1) PROVE FALSE
  BY <1>2, GotoMoves
<1>3. ASSUME NEW n \in Nat, NEW pc \in PcType \ {"done"}, Iterate(e, n, pc) PROVE FALSE
  BY <1>3, IterateMoves
<1>4. ~Down /\ ~ExecuteReturns(e)
  BY DEF Down, ExecuteReturns
<1>5. CASE WaitFence(e)
  <2>1. Running(e)
    BY <1>5 DEF WaitFence, Up, Running
  <2>2. ~Iterate(e, Len(call[e].waitFor), "resize")
    BY <1>3, <2>1, RunningType DEF PcType
  <2>3. QED
    BY <1>1, <1>5, <2>1, <2>2 DEF WaitFence, Fail, Up
<1>6. ~Attach(e) /\ ~ResizePools(e) /\ ~WaitTimesOut(e)
  <2>1. ~\E pc \in {"resize", "inputs", "pools", "outputs"} : Goto(e, pc, 1)
    BY <1>2 DEF PcType
  <2>2. QED
    BY <1>4, <2>1 DEF Attach, ResizePools, WaitTimesOut
<1>7. CASE SetPool(e)
  <2>1. Running(e)
    BY <1>7 DEF SetPool, Up, Running
  <2>2. ~Iterate(e, Len(call[e].req.pools), "inputs")
    BY <1>3, <2>1, RunningType DEF PcType
  <2>3. QED
    BY <1>1, <1>4, <1>7, <2>1, <2>2 DEF SetPool, Fail, PoolFailure, Up
<1>8. ~CopyInput(e)
  <2>1. ~Iterate(e, NumInputs, "start")
    BY <1>3, SizesType DEF PcType
  <2>2. QED
    BY <1>4, <2>1 DEF CopyInput, GetBlobThrows
<1>9. CASE StartAsync(e)
  BY <1>1, <1>2, <1>9 DEF StartAsync, Fail, PcType, Up, Running
<1>10. CASE WaitReturns(e)
  BY <1>1, <1>2, <1>10 DEF WaitReturns, Fail, PcType, Up, Running
<1>11. CASE CopyOutput(e)
  <2>1. Running(e)
    BY <1>11 DEF CopyOutput, Up, Running
  <2>2. ~Iterate(e, NumOutputs, "update")
    BY <1>3, SizesType DEF PcType
  <2>3. /\ Answer(e, "OUTPUT_INSUFFICIENT_SIZE", ShapesTold(e, insufficient'))
        /\ UNCHANGED <<call, ret, pools, plugin, memory, model, service>>
        /\ at[e].pc = "outputs"
    BY <1>4, <1>11, <2>2 DEF CopyOutput, GetBlobThrows, Up
  <2>4. QED
    BY <1>1, <2>1, <2>3
<1>12. ~UpdateRequestPoolInfos(e)
  BY <1>2, <1>4 DEF UpdateRequestPoolInfos, PcType
<1>13. CASE Report(e)
  BY <1>1, <1>13 DEF Report, Up, Running
<1>14. QED
  BY <1>4, <1>5, <1>6, <1>7, <1>8, <1>9, <1>10, <1>11, <1>12, <1>13 DEF Runs, Infers

\* The uncommitted writes of an execution that does not run stay as they are.
LEMMA DirtyStays ==
  ASSUME SInv, NEW e \in Execs, NEW f \in Execs, e # f, Calls(f) \/ Runs(f), NEW s \in Slots
  PROVE  /\ mem'[e] = mem[e]
         /\ <<e, s>> \in dirty' <=> <<e, s>> \in dirty
<1> USE DEF SInv
<1>1. CASE Calls(f)
  BY <1>1, CallMoves DEF memory
<1>2. CASE Runs(f)
  <2>1. InFlight(f)
    BY <1>2 DEF InFlight, Runs, ExecuteReturns, WaitFence, Attach, Infers, ResizePools, SetPool,
       CopyInput, StartAsync, WaitReturns, WaitTimesOut, CopyOutput, UpdateRequestPoolInfos,
       Report, Up
  <2>2. at[e].pc \in {"idle", "done"}
    BY <2>1 DEF SerialInv, InFlight
  <2>3. at[f].pc = "outputs" \/ at[f].pc = "update" => \A t \in Slots : pools[t] # e
    <3>1. ASSUME at[f].pc \in WithPools, NEW t \in Slots PROVE pools[t] # e
      <4>1. t <= Len(call[f].req.pools) \/ t > Len(call[f].req.pools)
        BY <3>1, RunningType DEF WithPools, Running, Slots
      <4>2. CASE t <= Len(call[f].req.pools)
        BY <2>2, <3>1, <4>2 DEF CarefulInv, LeftBehind, PoolsOK, BeforePools
      <4>3. CASE t > Len(call[f].req.pools)
        BY <3>1, <4>3, Sentinels DEF CarefulInv, PoolsOK
      <4>4. QED
        BY <4>1, <4>2, <4>3
    <3>2. QED
      BY <3>1 DEF WithPools
  <2>4. mem'[e] = mem[e]
    BY <1>2, <2>3, MemoryByThread
  <2>5. <<e, s>> \in dirty' <=> <<e, s>> \in dirty
    BY <1>2, <2>3, DirtyByThread DEF Uncommitted
  <2>6. QED
    BY <2>4, <2>5
<1>3. QED
  BY <1>1, <1>2

LEMMA NextDirty ==
  ASSUME SInv, NEW e \in Execs, DirtyOK(e), [Next]_vars PROVE DirtyOK(e)'
<1> USE DEF SInv
<1>1. ASSUME NEW f \in Execs, f # e, Calls(f) \/ Runs(f) PROVE DirtyOK(e)'
  BY <1>1, OthersUntouched, DirtyStays DEF DirtyOK, Answered
<1>2. CASE Calls(e)
  BY <1>2, CallMoves DEF DirtyOK, memory
<1>3. ASSUME Runs(e) PROVE DirtyOK(e)'
  <2>1. CASE at[e].pc = "done"
    <3>1. ExecuteReturns(e)
      BY <1>3, <2>1 DEF Runs, Infers, WaitFence, Attach, ResizePools, SetPool, CopyInput,
         StartAsync, WaitReturns, WaitTimesOut, CopyOutput, UpdateRequestPoolInfos, Report, Up
    <3>2. QED
      BY <3>1 DEF ExecuteReturns, DirtyOK, Answered, memory
  <2>2. CASE at[e].pc # "done" /\ at'[e].pc = "done"
    BY <1>3, <2>2, RunEnds DEF DirtyOK, Answered
  <2>3. CASE at[e].pc = "report" /\ at'[e].pc # "done"
    <3>1. ~Report(e)
      BY <2>3, GotoMoves DEF Report, PcType
    <3>2. ExecuteReturns(e)
      BY <1>3, <2>3, <3>1 DEF Runs, Infers, WaitFence, Attach, ResizePools, SetPool, CopyInput,
         StartAsync, WaitReturns, WaitTimesOut, CopyOutput, UpdateRequestPoolInfos, Up
    <3>3. QED
      BY <2>3, <3>2 DEF ExecuteReturns, DirtyOK
  <2>4. CASE at[e].pc \notin {"report", "done"} /\ at'[e].pc # "done"
    <3>1. CASE CopyOutput(e) /\ mem' # mem
      <4> DEFINE o == at[e].k
                 s == call[e].req.out[o]
      <4>1. Running(e) /\ at[e].pc = "outputs"
        BY <3>1 DEF CopyOutput, Up, Running
      <4>2. s \in Slots /\ s <= Len(call[e].req.pools) /\ o \in Outputs
        BY <4>1, RunningType, Locates DEF IInv, ControlOK, CarefulInv, PoolsOK
      <4>3. /\ mem' = [mem EXCEPT ![pools[s]][s][o] = outBlob] /\ pools[s] \in Execs
            /\ dirty' = dirty \cup {<<pools[s], s>>}
        BY <3>1 DEF CopyOutput, GetBlobThrows, Down, memory
      <4>4. pools[s] = e
        BY <4>1, <4>2, <4>3, PoolIsMine DEF WithPools
      <4>5. \A t \in Slots, p \in Outputs : t # s => mem'[e][t][p] = mem[e][t][p]
        BY <4>2, <4>3, <4>4 DEF IInv, TypeOK, MemoryOK, MemoryType
      <4>6. QED
        BY <2>4, <4>3, <4>4, <4>5 DEF DirtyOK
    <3>2. CASE CopyOutput(e) /\ mem' = mem
      <4>1. dirty \subseteq dirty'
        BY <3>2 DEF CopyOutput, GetBlobThrows, Down, memory
      <4>2. QED
        BY <2>4, <3>2, <4>1 DEF DirtyOK
    <3>3. CASE UpdateRequestPoolInfos(e)
      BY <3>3, <2>4, GotoMoves DEF UpdateRequestPoolInfos, DirtyOK, Down, memory, PcType
    <3>4. CASE ~CopyOutput(e) /\ ~UpdateRequestPoolInfos(e)
      <4>1. UNCHANGED memory
        BY <1>3, <3>4 DEF Runs, Infers, ExecuteReturns, WaitFence, Attach, ResizePools, SetPool,
           CopyInput, GetBlobThrows, StartAsync, WaitReturns, WaitTimesOut, Report, Down
      <4>2. QED
        BY <2>4, <4>1 DEF DirtyOK, memory
    <3>5. QED
      BY <3>1, <3>2, <3>3, <3>4
  <2>5. QED
    BY <2>1, <2>2, <2>3, <2>4
<1>4. CASE DeviceFinishes \/ OverrunFaults \/ Destroy \/ UNCHANGED vars
  BY <1>4 DEF DeviceFinishes, OverrunFaults, Down, Destroy, vars, client, memory, DirtyOK, Answered
<1>5. QED
  BY <1>1, <1>2, <1>3, <1>4 DEF Next, Quiescent

RInv == SInv /\ \A e \in Execs : DirtyOK(e)

LEMMA ImplementationInvariant == SerialClient => (Spec => []RInv)
<1>1. Init => RInv
  <2> SUFFICES ASSUME Init PROVE RInv
    OBVIOUS
  <2>1. \A e \in Execs : DirtyOK(e)
    BY DEF Init, DirtyOK
  <2>2. QED
    BY <2>1, InitSInv DEF RInv
<1>2. CASE SerialClient
  <2>1. RInv /\ [Next]_vars => RInv'
    BY <1>2, NextSInv, NextDirty DEF RInv
  <2>2. QED
    BY <1>1, <2>1, PTL DEF Spec
<1>3. QED
  BY <1>2

\* What the mapping shows of an execution that a step leaves alone.
LEMMA MappingStays ==
  ASSUME NEW e \in Execs, at'[e].pc = at[e].pc, call'[e] = call[e],
         answers'[e] = answers[e] \/ at[e].pc # "done",
         at[e].pc = "done" =>
            \A o \in NamedOutputs :
               LET s == call[e].req.out[o] IN
               mem'[e][s][o] = mem[e][s][o] /\ (<<e, s>> \in dirty' <=> <<e, s>> \in dirty)
  PROVE  /\ phaseOf(e)' = phaseOf(e) /\ statusOf(e)' = statusOf(e)
         /\ \A o \in NamedOutputs : outputOf(e, o)' = outputOf(e, o)
  BY DEF phaseOf, statusOf, outputOf, Delivered

\* Where an execution asked for its outputs.
LEMMA OutputSlots ==
  ASSUME IInv, NEW e \in Execs, at[e].pc # "idle", NEW o \in NamedOutputs
  PROVE  o \in Outputs /\ call[e].req.out[o] \in Slots
<1>1. call[e].req \in RequestType
  BY RequestsAssumption DEF IInv, ControlOK, CallType
<1>2. QED
  BY <1>1, SizesType DEF RequestType

\* A thread's step changes what the mapping shows of that thread only.
LEMMA OthersMapped ==
  ASSUME RInv, NEW f \in Execs, Calls(f) \/ Runs(f), NEW e \in Execs, e # f
  PROVE  /\ phaseOf(e)' = phaseOf(e) /\ statusOf(e)' = statusOf(e)
         /\ \A o \in NamedOutputs : outputOf(e, o)' = outputOf(e, o)
<1>1. at'[e] = at[e] /\ call'[e] = call[e] /\ answers'[e] = answers[e]
  BY OthersUntouched DEF RInv, SInv
<1>2. at[e].pc = "done" =>
        \A o \in NamedOutputs :
           LET s == call[e].req.out[o] IN
           mem'[e][s][o] = mem[e][s][o] /\ (<<e, s>> \in dirty' <=> <<e, s>> \in dirty)
  BY DirtyStays, OutputSlots DEF RInv, SInv
<1>3. QED
  BY <1>1, <1>2, MappingStays

\* How the memory of an ended execution looks through the mapping.
Shown(e) ==
    at[e].pc = "done" =>
        \A o \in NamedOutputs :
            /\ Untouched(e) => outputOf(e, o) = "untouched"
            /\ Completed(e) => outputOf(e, o) = "committed"
            /\ \A first \in NamedOutputs : ShortAt(e, first) =>
                 outputOf(e, o) = IF o < first THEN "written" ELSE "untouched"

LEMMA EndedOutputs ==
  ASSUME RInv, NEW e \in Execs PROVE Shown(e)
<1> SUFFICES ASSUME at[e].pc = "done", NEW o \in NamedOutputs
             PROVE  /\ Untouched(e) => outputOf(e, o) = "untouched"
                    /\ Completed(e) => outputOf(e, o) = "committed"
                    /\ \A first \in NamedOutputs : ShortAt(e, first) =>
                         outputOf(e, o) = IF o < first THEN "written" ELSE "untouched"
  BY DEF Shown
<1> DEFINE s == call[e].req.out[o]
<1>1. s \in Slots /\ o \in Outputs
  BY OutputSlots DEF RInv, SInv
<1>2. CASE Untouched(e)
  BY <1>1, <1>2 DEF Untouched, Holds, outputOf, Completed, ShortAt
<1>3. CASE Completed(e)
  <2>1. mem[e][s][o] # Kept /\ Delivered(e, o)
    BY <1>1, <1>3 DEF Completed, Holds, Delivered
  <2>2. <<e, s>> \notin dirty
    BY <1>3 DEF Completed, RInv, SInv, CommitInv, Committed
  <2>3. outputOf(e, o) = "committed"
    BY <2>1, <2>2 DEF outputOf
  <2>4. QED
    BY <1>3, <2>3 DEF Completed, Untouched, ShortAt, Answered
<1>4. ASSUME NEW first \in NamedOutputs, ShortAt(e, first)
      PROVE  outputOf(e, o) = IF o < first THEN "written" ELSE "untouched"
  <2>1. IF o < first THEN mem[e][s][o] # Kept /\ Delivered(e, o) ELSE mem[e][s][o] = Kept
    BY <1>1, <1>4 DEF ShortAt, Holds, Before, Delivered
  <2>2. o < first => <<e, s>> \in dirty
    BY <1>1, <1>4, <2>1 DEF RInv, DirtyOK, ShortAt, Answered
  <2>3. QED
    BY <2>1, <2>2 DEF outputOf
<1>5. ASSUME NEW first \in NamedOutputs, ShortAt(e, first) PROVE ~Untouched(e) /\ ~Completed(e)
  BY <1>5 DEF ShortAt, Untouched, Completed, Answered
<1>6. QED
  BY <1>2, <1>3, <1>4, <1>5

\* What an execution shows before its end, and its status then.
LEMMA NotEnded ==
  ASSUME NEW e \in Execs, at[e].pc # "done"
  PROVE  /\ statusOf(e) = "none" /\ \A o \in NamedOutputs : outputOf(e, o) = "untouched"
         /\ phaseOf(e) = IF at[e].pc = "idle" THEN "new" ELSE "accepted"
  BY DEF statusOf, outputOf, phaseOf

LEMMA RefinementInit == Init => Service!Init
<1> SUFFICES ASSUME Init PROVE Service!Init
  OBVIOUS
<1>1. ASSUME NEW e \in Execs
      PROVE  /\ phaseOf(e) = "new" /\ statusOf(e) = "none"
             /\ \A o \in NamedOutputs : outputOf(e, o) = "untouched"
  BY NotEnded DEF Init
<1>2. offenders = {} /\ service = "up"
  BY DEF Init, offenders
<1>3. QED
  BY <1>1, <1>2 DEF Service!Init, Service!Untouched

\* A step that the mapping does not show.
LEMMA StutterStep ==
  ASSUME \A e \in Execs : /\ phaseOf(e)' = phaseOf(e) /\ statusOf(e)' = statusOf(e)
                          /\ \A o \in NamedOutputs : outputOf(e, o)' = outputOf(e, o),
         call' = call, service' = service
  PROVE  UNCHANGED Service!vars
  BY DEF Service!vars, offenders

\* What a refused call is told.
LEMMA RefusalTells ==
  ASSUME IInv, NEW f \in Execs, Calls(f), at'[f].pc = "done"
  PROVE  \/ answers'[f] = <<>>
         \/ /\ answers'[f] # <<>>
            /\ answers'[f][1].status \in {"INVALID_ARGUMENT", "MISSED_DEADLINE_PERSISTENT"}
<1>1. answers[f] = <<>>
  BY CallMoves DEF IInv, ControlOK, Bare
<1>2. ASSUME NEW st, NEW sh, Answer(f, st, sh)
      PROVE  answers'[f] # <<>> /\ answers'[f][1].status = st
  BY <1>1, <1>2, AnswerIs
<1>3. ~Goto(f, "attach", 1) /\ ~Goto(f, "resize", 1) /\ ~Goto(f, "fences", 1)
  BY GotoMoves DEF PcType
<1>4. CASE Execute(f)
  BY <1>1, <1>2, <1>3, <1>4 DEF Execute
<1>5. CASE ExecuteSynchronously(f)
  BY <1>2, <1>3, <1>5 DEF ExecuteSynchronously
<1>6. CASE ExecuteFenced(f)
  BY <1>2, <1>3, <1>6 DEF ExecuteFenced
<1>7. QED
  BY <1>4, <1>5, <1>6 DEF Calls

\* An argument that nobody checks ends the service.
LEMMA ServiceGoesDown ==
  ASSUME RInv, RInv', Down, service = "up" PROVE Service!GoDown
<1> USE DEF RInv, SInv
<1>1. service' = "down" /\ call' = call /\ at' = at /\ answers' = answers /\ UNCHANGED memory
  BY DEF Down, client
<1>2. \A e \in Execs : at'[e].pc \notin {"idle", "done"} => model' = "live"
  BY DEF SerialInv, KeepsModel, InFlight
<1>3. LostToCulprit'
  BY <1>1, <1>2 DEF DownInv
<1>4. offenders # {} /\ offenders' = offenders
  BY <1>1, <1>3 DEF LostToCulprit, Culprit, offenders, Unchecked
<1>5. \A e \in Execs : /\ phaseOf(e)' = phaseOf(e) /\ statusOf(e)' = statusOf(e)
                       /\ \A o \in NamedOutputs : outputOf(e, o)' = outputOf(e, o)
  BY <1>1 DEF phaseOf, statusOf, outputOf, Delivered, memory
<1>6. QED
  BY <1>1, <1>4, <1>5 DEF Service!GoDown

\* A call gives its arguments, checked or not.
LEMMA CallArrives ==
  ASSUME IInv, NEW e \in Execs, Calls(e)
  PROVE  /\ service = "up" /\ service' = service
         /\ offenders' \in {offenders, offenders \cup {e}}
<1>1. call[e] = NoCall
  BY CallMoves DEF IInv, ControlOK, Bare
<1>2. \A f \in Execs : f # e => call'[f] = call[f]
  BY OthersUntouched
<1>3. service = "up" /\ service' = service
  BY ServiceByThread, CallMoves
<1>4. QED
  BY <1>1, <1>2, <1>3 DEF offenders

\* A call is submitted, or refused with the client's memory as it was.
LEMMA CallIsAccepted ==
  ASSUME RInv, RInv', SerialClient, NEW e \in Execs, Shown(e)', Calls(e)
  PROVE  Service!Next
<1> USE DEF RInv, SInv
<1>1. /\ at[e].pc = "idle" /\ \A f \in Execs : ~InFlight(f)
      /\ at'[e].pc \in {"fences", "attach", "resize", "done"}
  BY CallMoves DEF Calls, Execute, ExecuteSynchronously, ExecuteFenced, CanCall, SerialClient
<1>2. \A f \in Execs : phaseOf(f) # "accepted"
  BY <1>1 DEF phaseOf, InFlight
<1>3. /\ phaseOf(e) = "new" /\ statusOf(e) = "none"
      /\ \A o \in NamedOutputs : outputOf(e, o) = "untouched"
  BY <1>1, NotEnded
<1>4. CASE at'[e].pc # "done"
  <2>1. /\ phaseOf(e)' = "accepted" /\ statusOf(e)' = "none"
        /\ \A o \in NamedOutputs : outputOf(e, o)' = "untouched"
    BY <1>1, <1>4 DEF statusOf, outputOf, phaseOf
  <2>2. \A f \in Execs : f # e =>
          /\ phaseOf(f)' = phaseOf(f) /\ statusOf(f)' = statusOf(f)
          /\ \A o \in NamedOutputs : outputOf(f, o)' = outputOf(f, o)
    BY OthersMapped
  <2>3. Service!Submit(e)
    BY <1>2, <1>3, <2>1, <2>2, CallArrives DEF Service!Submit, Service!Arrives
  <2>4. QED
    BY <2>3 DEF Service!Next
<1>5. CASE at'[e].pc = "done"
  <2>1. answers'[e] = <<>> \/ (answers'[e] # <<>> /\ answers'[e][1].status \in Service!Refusals)
    BY <1>1, <1>5, RefusalTells DEF Service!Refusals
  <2>2. Untouched(e)'
    BY <1>5, CallMoves DEF CarefulInv, MemoryFollows, Completed, ShortAt
  <2>3. \A o \in NamedOutputs : outputOf(e, o)' = "untouched"
    BY <1>5, <2>2 DEF Shown
  <2>4. phaseOf(e)' = "ended" /\ statusOf(e)' \in Service!Refusals
    BY <1>5, <2>1 DEF phaseOf, statusOf, Service!Refusals
  <2>5. PICK st \in Service!Refusals : statusOf(e)' = st
    BY <2>4
  <2>6. Service!End(e, st, Service!Untouched)
    BY <2>3, <2>4, <2>5, OthersMapped, CallArrives DEF Service!End, Service!Untouched
  <2>7. Service!Refuse(e)
    BY <1>3, <2>6, CallArrives DEF Service!Refuse, Service!Arrives
  <2>8. QED
    BY <2>7 DEF Service!Next
<1>6. QED
  BY <1>4, <1>5

\* A thread ends its execution, or does what the mapping does not show.
LEMMA RunCompletes ==
  ASSUME RInv, RInv', NEW e \in Execs, Shown(e)', Runs(e)
  PROVE  Service!Next \/ UNCHANGED Service!vars
<1> USE DEF RInv, SInv
<1>1. at[e].pc # "idle"
  BY DEF Runs, Infers, ExecuteReturns, WaitFence, Attach, ResizePools, SetPool, CopyInput,
     StartAsync, WaitReturns, WaitTimesOut, CopyOutput, UpdateRequestPoolInfos, Report, Up,
     IInv, ControlOK, Bare, NoStatus
<1>0. /\ service = "up" /\ (service' = service \/ Down)
      /\ call' = call /\ offenders' = offenders
  BY ServiceByThread, OverranByThread DEF offenders
<1>2. CASE at[e].pc # "done" /\ at'[e].pc = "done"
  <2>1. phaseOf(e) = "accepted" /\ phaseOf(e)' = "ended" /\ service' = service
    BY <1>0, <1>1, <1>2 DEF phaseOf, Down
  <2>2. /\ answers'[e] # <<>>
        /\ answers'[e][1].status \in
             {"NONE", "OUTPUT_INSUFFICIENT_SIZE", "GENERAL_FAILURE", "INVALID_ARGUMENT"}
    BY <1>2, RunEnds
  <2>3. statusOf(e)' = answers'[e][1].status
    BY <1>2, <2>2 DEF statusOf
  <2>4. Untouched(e)' \/ Completed(e)' \/ \E first \in NamedOutputs : ShortAt(e, first)'
    BY <1>2 DEF CarefulInv, MemoryFollows
  <2>5. CASE Untouched(e)'
    <3>1. \A o \in NamedOutputs : outputOf(e, o)' = "untouched"
      BY <1>2, <2>5 DEF Shown
    <3>2. PICK st \in Service!Failures : statusOf(e)' = st
      BY <2>2, <2>3, <2>5 DEF Untouched, Answered, Service!Failures
    <3>3. Service!End(e, st, Service!Untouched)
      BY <2>1, <3>1, <3>2, OthersMapped DEF Service!End, Service!Untouched
    <3>4. QED
      BY <1>0, <2>1, <3>3 DEF Service!Next, Service!Complete
  <2>6. CASE Completed(e)'
    <3>1. \A o \in NamedOutputs : outputOf(e, o)' = "committed"
      BY <1>2, <2>6 DEF Shown
    <3>2. statusOf(e)' = "NONE"
      BY <2>3, <2>6 DEF Completed, Answered
    <3>3. Service!End(e, "NONE", Service!Committed)
      BY <2>1, <3>1, <3>2, OthersMapped DEF Service!End, Service!Committed
    <3>4. QED
      BY <1>0, <2>1, <3>3 DEF Service!Next, Service!Complete
  <2>7. ASSUME NEW first \in NamedOutputs, ShortAt(e, first)' PROVE Service!Next
    <3>1. \A o \in NamedOutputs :
            outputOf(e, o)' = IF o < first THEN "written" ELSE "untouched"
      BY <1>2, <2>7 DEF Shown
    <3>2. statusOf(e)' = "OUTPUT_INSUFFICIENT_SIZE"
      BY <2>3, <2>7 DEF ShortAt, Answered
    <3>3. Service!End(e, "OUTPUT_INSUFFICIENT_SIZE", Service!ShortAt(first))
      BY <2>1, <3>1, <3>2, OthersMapped DEF Service!End, Service!ShortAt
    <3>4. QED
      BY <1>0, <2>1, <3>3 DEF Service!Next, Service!Complete
  <2>8. QED
    BY <2>4, <2>5, <2>6, <2>7
<1>3. CASE at[e].pc # "done" /\ at'[e].pc # "done"
  <2>1. at'[e].pc # "idle"
    BY <1>1, NeverIdle
  <2>2. /\ phaseOf(e)' = phaseOf(e) /\ statusOf(e)' = statusOf(e)
        /\ \A o \in NamedOutputs : outputOf(e, o)' = outputOf(e, o)
    BY <1>1, <1>3, <2>1 DEF phaseOf, statusOf, outputOf
  <2>3. CASE Down
    BY <1>0, <2>3, ServiceGoesDown DEF Service!Next
  <2>4. CASE service' = service
    BY <1>0, <2>2, <2>4, OthersMapped, StutterStep
  <2>5. QED
    BY <1>0, <2>3, <2>4
<1>4. CASE at[e].pc = "done"
  <2>1. ExecuteReturns(e)
    BY <1>4 DEF Runs, Infers, WaitFence, Attach, ResizePools, SetPool, CopyInput,
       StartAsync, WaitReturns, WaitTimesOut, CopyOutput, UpdateRequestPoolInfos, Report, Up
  <2>2. /\ phaseOf(e)' = phaseOf(e) /\ statusOf(e)' = statusOf(e)
        /\ \A o \in NamedOutputs : outputOf(e, o)' = outputOf(e, o)
    BY <2>1 DEF ExecuteReturns, memory, phaseOf, statusOf, outputOf, Delivered
  <2>3. service' = service
    BY <2>1 DEF ExecuteReturns
  <2>4. QED
    BY <1>0, <2>2, <2>3, OthersMapped, StutterStep
<1>5. QED
  BY <1>2, <1>3, <1>4

\* For a client that waits for its answers, the driver does what ExecutionService
\* says: every execution is accepted or refused once, ends once, and its outputs
\* are then as its status says, for good; and only an execution with an argument
\* that nobody checks ends the service.
THEOREM ImplementsService ==
  SerialClient => (Spec => Service!Init /\ [][Service!Next]_Service!vars)
<1> SUFFICES ASSUME SerialClient PROVE Spec => Service!Init /\ [][Service!Next]_Service!vars
  OBVIOUS
<1> DEFINE AllShown == \A e \in Execs : Shown(e)
<1>1. RInv => AllShown
  BY EndedOutputs
<1>2. RInv /\ RInv' /\ AllShown' /\ [Next]_vars => [Service!Next]_Service!vars
  <2> SUFFICES ASSUME RInv, RInv', AllShown', [Next]_vars
               PROVE  Service!Next \/ UNCHANGED Service!vars
    OBVIOUS
  <2>1. ASSUME NEW e \in Execs, Calls(e) PROVE Service!Next
    BY <2>1, CallIsAccepted
  <2>2. ASSUME NEW e \in Execs, Runs(e) PROVE Service!Next \/ UNCHANGED Service!vars
    BY <2>2, RunCompletes
  <2>3. CASE DeviceFinishes \/ Destroy \/ UNCHANGED vars
    BY <2>3, StutterStep DEF DeviceFinishes, Destroy, vars, client, memory, phaseOf, statusOf,
       outputOf, Delivered
  <2>4. CASE OverrunFaults
    BY <2>4, ServiceGoesDown DEF OverrunFaults, Service!Next
  <2>5. QED
    BY <2>1, <2>2, <2>3, <2>4 DEF Next, Quiescent
<1>3. Spec => []RInv
  BY ImplementationInvariant
<1> HIDE DEF AllShown
<1>4. QED
  BY <1>1, <1>2, <1>3, RefinementInit, PTL DEF Spec
===============================================================================
