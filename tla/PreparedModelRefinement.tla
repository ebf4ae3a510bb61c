------------------------ MODULE PreparedModelRefinement ------------------------
(* PreparedModel, used by a serial client, implements ExecutionService.      *)
EXTENDS PreparedModel

phaseOf(e) ==
    IF at[e].pc = "idle" THEN "new"
    ELSE IF at[e].pc = "done" THEN "ended" ELSE "accepted"

statusOf(e) ==
    IF at[e].pc # "done" THEN "none"
    ELSE IF answers[e] = <<>> THEN "no answer" ELSE answers[e][1].status

\* Output o as its client finds it in its memory.
outputOf(e, o) ==
    LET s == call[e].req.out[o] IN
    IF at[e].pc # "done" \/ mem[e][s][o] = Kept THEN "untouched"
    ELSE IF ~Delivered(e, o) THEN "wrong"
    ELSE IF <<e, s>> \in dirty THEN "written" ELSE "committed"

\* The executions that gave an argument which nobody checks.
offenders == {e \in Execs : call[e] # NoCall /\ Unchecked(call[e].req)}

Service == INSTANCE ExecutionService WITH
    Outputs <- NamedOutputs,
    phase   <- [e \in Execs |-> phaseOf(e)],
    status  <- [e \in Execs |-> statusOf(e)],
    service <- service,
    unchecked <- offenders,
    outputs <- [e \in Execs |-> [o \in NamedOutputs |-> outputOf(e, o)]]

\* The driver's executions are those of ExecutionService, steps and fairness.
ImplementsExecutionService == Service!Spec
================================================================================
