--------------------------- MODULE ExecutionService ---------------------------
(***************************************************************************)
(* What a prepared model promises to a client that has one execution in    *)
(* progress at a time: every execution ends once, with a status that says  *)
(* what became of its outputs, and an ended execution never changes again. *)
(* Arguments that nobody checks may end the service; nothing else does.    *)
(***************************************************************************)
EXTENDS Naturals

CONSTANTS
    Execs,
    Outputs   \* the outputs delivered, as numbers: they are filled in order

VARIABLES
    phase,    \* "new", "accepted" or "ended"
    status,   \* how an ended execution ended
    outputs,  \* what became of each of its outputs
    unchecked, \* the executions with arguments that nobody checks
    service   \* "up" or "down"

vars == <<phase, status, outputs, unchecked, service>>

Refusals == {"no answer", "INVALID_ARGUMENT", "MISSED_DEADLINE_PERSISTENT"}
Failures == {"GENERAL_FAILURE", "INVALID_ARGUMENT"}

Untouched == [o \in Outputs |-> "untouched"]
Committed == [o \in Outputs |-> "committed"]
\* The outputs before o were delivered, and the buffer of o was too short.
ShortAt(o) == [p \in Outputs |-> IF p < o THEN "written" ELSE "untouched"]

Init ==
    /\ phase = [e \in Execs |-> "new"]
    /\ status = [e \in Execs |-> "none"]
    /\ outputs = [e \in Execs |-> Untouched]
    /\ unchecked = {}
    /\ service = "up"

End(e, s, outs) ==
    /\ phase' = [phase EXCEPT ![e] = "ended"]
    /\ status' = [status EXCEPT ![e] = s]
    /\ outputs' = [outputs EXCEPT ![e] = outs]
    /\ UNCHANGED service

\* A call gives its arguments.
Arrives(e) ==
    /\ service = "up" /\ phase[e] = "new"
    /\ unchecked' \in {unchecked, unchecked \cup {e}}

Submit(e) ==
    /\ Arrives(e)
    /\ \A f \in Execs : phase[f] # "accepted"
    /\ phase' = [phase EXCEPT ![e] = "accepted"]
    /\ UNCHANGED <<status, outputs, service>>

Refuse(e) ==
    /\ Arrives(e)
    /\ \E s \in Refusals : End(e, s, Untouched)

Complete(e) ==
    /\ service = "up" /\ phase[e] = "accepted"
    /\ \/ End(e, "NONE", Committed)
       \/ \E o \in Outputs : End(e, "OUTPUT_INSUFFICIENT_SIZE", ShortAt(o))
       \/ \E s \in Failures : End(e, s, Untouched)
    /\ UNCHANGED unchecked

GoDown ==
    /\ service = "up" /\ unchecked # {}
    /\ service' = "down"
    /\ UNCHANGED <<phase, status, outputs, unchecked>>

Next == GoDown \/ \E e \in Execs : Submit(e) \/ Refuse(e) \/ Complete(e)

Spec == Init /\ [][Next]_vars /\ \A e \in Execs : WF_vars(Complete(e))
===============================================================================
