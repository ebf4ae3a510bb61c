---------------------------- MODULE BinderThreads ----------------------------
(***************************************************************************)
(* The binder threads of the driver service (service.cpp:48-52) and the    *)
(* calls they serve.  There are NumThreads of them for every client, model *)
(* and method, and they take calls in the order of their arrival.          *)
(*                                                                         *)
(* The execute* methods give their thread back before they have done       *)
(* anything: the work is a detached thread's (BasePreparedModel.cpp:137).  *)
(* The other methods keep theirs until their answer, and executeFenced     *)
(* keeps it in syncWait(fd, -1) too, for as long as its fences take.  What *)
(* a call does is in PreparedModel and ModelPreparation, which give each   *)
(* call a thread of its own; here is who gets one.                         *)
(***************************************************************************)
EXTENDS Naturals, FiniteSets

CONSTANTS
    NumThreads,  \* configureRpcThreadpool(4, true)
    NumCalls     \* bound on the calls that clients make

ASSUME NumThreadsAssumption == NumThreads \in Nat \ {0}
ASSUME NumCallsAssumption == NumCalls \in Nat

\* A call's number is its place in the order of arrival.
Calls == 1 .. NumCalls

VARIABLES
    sent,   \* how many calls have arrived
    taken,  \* how many of them have been given a thread
    kind,   \* which method each is a call of
    needs,  \* the calls that must be answered before its fences signal
    at      \* where each call is

vars == <<sent, taken, kind, needs, at>>

Kinds == {"unsent", "execute", "synchronous", "fenced"}

Answered == {c \in Calls : at[c] = "answered"}

\* The calls that occupy a binder thread.
Busy == {c \in Calls : at[c] \in {"serving", "waiting", "working"}}

Goto(c, pc) == at' = [at EXCEPT ![c] = pc]

-----------------------------------------------------------------------------
(* Steps of the clients and of those who signal fences.                    *)

\* A client calls execute*, executeSynchronously* or prepareModel* (which behave
\* alike here), or executeFenced with fences that signal when the calls of N have
\* been answered: N is empty for a fence that depends on nothing the driver does.
Send ==
    /\ sent < NumCalls
    /\ sent' = sent + 1
    /\ Goto(sent + 1, "queued")
    /\ \E k \in Kinds \ {"unsent"}, N \in SUBSET (Calls \ {sent + 1}) :
          /\ k = "fenced" \/ N = {}
          /\ kind'  = [kind  EXCEPT ![sent + 1] = k]
          /\ needs' = [needs EXCEPT ![sent + 1] = N]
    /\ UNCHANGED taken

\* The last fence of executeFenced signals, and syncWait returns.
FencesSignal(c) ==
    /\ at[c] = "waiting"
    /\ needs[c] \subseteq Answered
    /\ Goto(c, "working")
    /\ UNCHANGED <<sent, taken, kind, needs>>

\* A fence ends in an error: syncWait fails, and so does the call.
FenceFails(c) ==
    /\ at[c] = "waiting"
    /\ Goto(c, "answered")
    /\ UNCHANGED <<sent, taken, kind, needs>>

-----------------------------------------------------------------------------
(* Steps of the threads.                                                   *)

\* Not the code: the last call that arrived is served first.
TakeLast ==
    \E c \in Calls :
        /\ at[c] = "queued" /\ \A d \in Calls : at[d] = "queued" => d <= c
        /\ Cardinality(Busy) < NumThreads
        /\ taken' = taken + 1
        /\ Goto(c, "serving")
        /\ UNCHANGED <<sent, kind, needs>>

\* Not the code: a call is given a thread only when its fences have signalled.
TakeReady ==
    /\ taken < sent
    /\ needs[taken + 1] \subseteq Answered
    /\ Cardinality(Busy) < NumThreads
    /\ taken' = taken + 1
    /\ Goto(taken + 1, "serving")
    /\ UNCHANGED <<sent, kind, needs>>

\* Not the code: one call more than there are threads.
TakeOneMore ==
    /\ taken < sent
    /\ Cardinality(Busy) <= NumThreads
    /\ taken' = taken + 1
    /\ Goto(taken + 1, "serving")
    /\ UNCHANGED <<sent, kind, needs>>

\* A free binder thread takes the call that has waited longest.
Take ==
    /\ taken < sent
    /\ Cardinality(Busy) < NumThreads
    /\ taken' = taken + 1
    /\ Goto(taken + 1, "serving")
    /\ UNCHANGED <<sent, kind, needs>>

\* The arguments are not valid, or the deadline of executeFenced has passed.
Refuse(c) ==
    /\ at[c] = "serving"
    /\ Goto(c, "answered")
    /\ UNCHANGED <<sent, taken, kind, needs>>

\* execute* starts a detached thread and returns.
ExecuteReturns(c) ==
    /\ at[c] = "serving" /\ kind[c] = "execute"
    /\ Goto(c, "detached")
    /\ UNCHANGED <<sent, taken, kind, needs>>

\* executeFenced has begun to wait for its fences, on its binder thread.
WaitFences(c) ==
    /\ at[c] = "serving" /\ kind[c] = "fenced"
    /\ Goto(c, "waiting")
    /\ UNCHANGED <<sent, taken, kind, needs>>

\* Not the code: executeFenced holds a lock of the model while it waits.
FinishUnderLock(c) ==
    /\ \/ at[c] = "serving" /\ kind[c] = "synchronous"
       \/ at[c] \in {"working", "detached"}
    /\ \A d \in Calls : at[d] # "waiting"
    /\ Goto(c, "answered")
    /\ UNCHANGED <<sent, taken, kind, needs>>

\* The work of the call is done, and its result or its callback given.
Finish(c) ==
    /\ \/ at[c] = "serving" /\ kind[c] = "synchronous"
       \/ at[c] \in {"working", "detached"}
    /\ Goto(c, "answered")
    /\ UNCHANGED <<sent, taken, kind, needs>>

-----------------------------------------------------------------------------
Init ==
    /\ sent = 0 /\ taken = 0
    /\ kind  = [c \in Calls |-> "unsent"]
    /\ needs = [c \in Calls |-> {}]
    /\ at    = [c \in Calls |-> "unsent"]

\* What the service does for a call that has a thread.
Serve(c) == Refuse(c) \/ ExecuteReturns(c) \/ WaitFences(c) \/ Finish(c)

Next ==
    \/ Send
    \/ Take
    \/ \E c \in Calls : Serve(c) \/ FencesSignal(c) \/ FenceFails(c)

\* Binder hands calls to threads that are free; threads run; those who signal
\* fences do so once they have the answers they need.  No client has to call.
Fairness ==
    /\ WF_vars(Take)
    /\ \A c \in Calls : WF_vars(Serve(c)) /\ WF_vars(FencesSignal(c))

Spec == Init /\ [][Next]_vars /\ Fairness
-----------------------------------------------------------------------------
(* Properties.                                                             *)

\* Calls get threads in the order of their arrival, and no more than there are
\* (service.cpp:48).
TypeOK ==
    /\ sent \in 0 .. NumCalls /\ taken \in 0 .. sent
    /\ kind \in [Calls -> Kinds] /\ needs \in [Calls -> SUBSET Calls]
    /\ at \in [Calls -> {"unsent", "queued", "serving", "waiting", "working",
                         "detached", "answered"}]
    /\ \A c \in Calls : /\ at[c] = "unsent" <=> c > sent
                        /\ at[c] = "queued" <=> c \in taken + 1 .. sent
                        /\ kind[c] = "unsent" <=> at[c] = "unsent"
    /\ Cardinality(Busy) <= NumThreads

\* Fences depend only on calls that were made before.
Ordered == \A c \in Calls : \A d \in needs[c] : d < c

\* The fenced calls whose fences depend on other calls of the service.
Dependent == {c \in Calls : needs[c] # {}}

\* There is a step the service or a signaller can take without a new call.
CanMove ==
    \/ taken < sent /\ Cardinality(Busy) < NumThreads
    \/ \E c \in Calls :
          \/ at[c] \in {"serving", "working", "detached"}
          \/ at[c] = "waiting" /\ needs[c] \subseteq Answered

\* However many calls wait in executeFenced for others, and however few threads
\* there are, the service is not stuck while a call is unanswered: as long as
\* clients make the calls that a fence needs before the one that waits for it,
\* since calls are taken in order (service.cpp:48, BasePreparedModel.cpp:584).
OrderedCallsNeverStick ==
    Ordered /\ Answered # 1 .. sent => CanMove

\* Under the same condition every call is answered: clients make no more than
\* NumCalls calls, so there is a time after which none is left.
OrderedCallsAreServed ==
    []Ordered => <>[](Answered = 1 .. sent)

\* In whatever order calls come, and even if fences wait for each other in a
\* circle: while fewer calls have fences that depend on calls than there are
\* threads, all the other calls are answered.
IndependentCallsAreServed ==
    [](Cardinality(Dependent) < NumThreads) => <>[](1 .. sent \subseteq Answered \cup Dependent)
==============================================================================
