------------------------- MODULE BinderThreads_proofs -------------------------
(***************************************************************************)
(* Theorems about BinderThreads that hold of any number of threads and     *)
(* calls: TypeOK and OrderedCallsNeverStick.                               *)
(***************************************************************************)
EXTENDS BinderThreads, FiniteSetTheorems, TLAPS

-----------------------------------------------------------------------------
(* Arithmetic.                                                             *)

\* A set of numbers has a least one.  Were there none, the numbers that have no
\* number of U up to them would be as many as those of them that are not 0.
LEMMA Least ==
  ASSUME NEW n \in Nat, NEW U \in SUBSET (1 .. n), U # {}
  PROVE  \E m \in U : \A c \in U : m <= c
<1> SUFFICES ASSUME \A m \in U : \E c \in U : c < m PROVE FALSE
  OBVIOUS
<1> DEFINE A == {c \in 0 .. n : \A d \in U : c < d}
           f == [c \in A |-> c + 1]
<1>1. IsFiniteSet(A) /\ 0 \in A
  <2>1. IsFiniteSet(0 .. n)
    BY FS_Interval
  <2>2. A \in SUBSET (0 .. n)
    OBVIOUS
  <2>3. IsFiniteSet(A)
    BY <2>1, <2>2, FS_Subset
  <2> QED BY <2>3
<1>2. \A c \in A : c + 1 \in A \ {0}
  <2>1. TAKE c \in A
  <2>2. \A d \in U : c < d /\ d \in 1 .. n
    OBVIOUS
  <2>3. c + 1 \notin U
    BY <2>2
  <2>4. \A d \in U : c + 1 < d
    BY <2>2, <2>3
  <2>5. PICK u \in U : TRUE
    OBVIOUS
  <2>6. c + 1 \in 0 .. n
    BY <2>2, <2>5
  <2> QED BY <2>4, <2>6
<1>3. IsFiniteSet(A \ {0}) /\ Cardinality(A \ {0}) = Cardinality(A) - 1
  BY <1>1, FS_RemoveElement
<1>4. Cardinality(A \ {0}) < Cardinality(A)
  BY <1>1, <1>3, FS_CardinalityType
<1>5. f \in [A -> A \ {0}]
  BY <1>2
<1>6. \A x, y \in A : f[x] = f[y] => x = y
  OBVIOUS
<1> HIDE DEF A, f
<1>7. \E x, y \in A : x # y /\ f[x] = f[y]
  BY <1>1, <1>3, <1>4, <1>5, FS_PigeonHole
<1> QED BY <1>6, <1>7

-----------------------------------------------------------------------------
(* The threads.                                                            *)

Pcs == {"unsent", "queued", "serving", "waiting", "working", "detached", "answered"}

\* Every call a thread was taken for, and no other, is past the queue.
OrderOK ==
    /\ sent \in 0 .. NumCalls /\ taken \in 0 .. sent
    /\ kind \in [Calls -> Kinds] /\ needs \in [Calls -> SUBSET Calls]
    /\ at \in [Calls -> Pcs]
    /\ \A c \in Calls : /\ at[c] = "unsent" <=> c > sent
                        /\ at[c] = "queued" <=> c \in taken + 1 .. sent
                        /\ kind[c] = "unsent" <=> at[c] = "unsent"

\* Busy is finite, which makes its cardinality a number.
LEMMA BusyFinite == IsFiniteSet(Busy) /\ Cardinality(Busy) \in Nat
<1>1. IsFiniteSet(Calls)
  BY NumCallsAssumption, FS_Interval DEF Calls
<1>2. Busy \in SUBSET Calls
  BY DEF Busy
<1> QED BY <1>1, <1>2, FS_Subset, FS_CardinalityType

\* A step that gives no call a thread leaves no more threads busy.
LEMMA NoMoreBusy ==
  ASSUME Cardinality(Busy) <= NumThreads, Busy' \subseteq Busy
  PROVE  Cardinality(Busy)' <= NumThreads
<1>1. Cardinality(Busy') <= Cardinality(Busy) /\ Cardinality(Busy') \in Nat
  BY BusyFinite, FS_Subset, FS_CardinalityType
<1> QED BY <1>1, BusyFinite, NumThreadsAssumption

\* The step of a call that has left the queue, to a place where it has no thread
\* unless it had one.
LEMMA CallSteps ==
  ASSUME OrderOK, Cardinality(Busy) <= NumThreads,
         NEW c \in Calls, NEW pc \in Pcs \ {"unsent", "queued", "serving"},
         at[c] \in {"serving", "waiting", "working", "detached"},
         pc \in {"waiting", "working"} => c \in Busy,
         Goto(c, pc), UNCHANGED <<sent, taken, kind, needs>>
  PROVE  OrderOK' /\ Cardinality(Busy)' <= NumThreads
<1>1. \A d \in Calls : at'[d] = IF d = c THEN pc ELSE at[d]
  BY DEF OrderOK, Goto
<1>2. at' \in [Calls -> Pcs]
  BY DEF OrderOK, Goto
<1>3. Calls' = Calls
  BY DEF Calls
<1>4. OrderOK'
  BY <1>1, <1>2 DEF OrderOK, Pcs
<1>5. Busy' \subseteq Busy
  BY <1>1 DEF Busy
<1> QED BY <1>4, <1>5, NoMoreBusy

LEMMA SendKeeps ==
  ASSUME OrderOK, Cardinality(Busy) <= NumThreads, Send
  PROVE  OrderOK' /\ Cardinality(Busy)' <= NumThreads
<1> DEFINE s == sent + 1
<1>1. s \in Calls /\ s \in Nat /\ sent' = s /\ taken' = taken
  BY NumCallsAssumption DEF OrderOK, Send, Calls
<1>2. at' = [at EXCEPT ![s] = "queued"]
  BY DEF Send, Goto
<1>3. PICK k \in Kinds \ {"unsent"}, N \in SUBSET Calls :
        kind' = [kind EXCEPT ![s] = k] /\ needs' = [needs EXCEPT ![s] = N]
  BY DEF Send
<1> HIDE DEF s
<1>4. /\ at' \in [Calls -> Pcs] /\ kind' \in [Calls -> Kinds]
      /\ needs' \in [Calls -> SUBSET Calls]
  BY <1>1, <1>2, <1>3 DEF OrderOK, Pcs
<1>5. \A d \in Calls : /\ at'[d] = IF d = s THEN "queued" ELSE at[d]
                       /\ kind'[d] = IF d = s THEN k ELSE kind[d]
  BY <1>1, <1>2, <1>3 DEF OrderOK
<1>6. sent' \in 0 .. NumCalls /\ taken' \in 0 .. sent'
  BY <1>1, NumCallsAssumption DEF OrderOK, Calls, s
<1>7. ASSUME NEW d \in Calls
      PROVE  /\ at'[d] = "unsent" <=> d > sent'
             /\ at'[d] = "queued" <=> d \in taken' + 1 .. sent'
             /\ kind'[d] = "unsent" <=> at'[d] = "unsent"
  <2>1. CASE d = s
    <3>1. at'[d] = "queued" /\ kind'[d] = k /\ k # "unsent" /\ d = sent'
      BY <2>1, <1>1, <1>5
    <3>2. d \in taken' + 1 .. sent'
      BY <2>1, <1>1 DEF OrderOK, s
    <3> QED BY <3>1, <3>2, <1>1
  <2>2. CASE d # s
    BY <2>2, <1>1, <1>5, <1>6, NumCallsAssumption DEF OrderOK, Calls, s
  <2> QED BY <2>1, <2>2
<1>8. OrderOK'
  BY <1>4, <1>6, <1>7 DEF OrderOK, Calls
<1>9. Busy' \subseteq Busy
  BY <1>5 DEF Busy
<1> QED BY <1>8, <1>9, NoMoreBusy

LEMMA TakeKeeps ==
  ASSUME OrderOK, Cardinality(Busy) <= NumThreads, Take
  PROVE  OrderOK' /\ Cardinality(Busy)' <= NumThreads
<1> DEFINE t == taken + 1
<1>1. t \in Calls /\ taken' = t /\ sent' = sent /\ kind' = kind /\ needs' = needs
  BY NumCallsAssumption DEF OrderOK, Take, Calls
<1>2. at' = [at EXCEPT ![t] = "serving"]
  BY DEF Take, Goto
<1>3. at[t] = "queued" /\ t \in 1 .. sent
  BY <1>1, NumCallsAssumption DEF OrderOK, Take, Calls
<1>4. \A d \in Calls : at'[d] = IF d = t THEN "serving" ELSE at[d]
  BY <1>1, <1>2 DEF OrderOK
<1>5. at' \in [Calls -> Pcs]
  BY <1>1, <1>2 DEF OrderOK, Pcs
<1>6. ASSUME NEW d \in Calls
      PROVE  /\ at'[d] = "unsent" <=> d > sent'
             /\ at'[d] = "queued" <=> d \in taken' + 1 .. sent'
             /\ kind'[d] = "unsent" <=> at'[d] = "unsent"
  <2>1. CASE d = t
    BY <2>1, <1>1, <1>3, <1>4, NumCallsAssumption DEF OrderOK, Calls
  <2>2. CASE d # t
    BY <2>2, <1>1, <1>3, <1>4, NumCallsAssumption DEF OrderOK, Calls
  <2> QED BY <2>1, <2>2
<1>7. taken' \in 0 .. sent' /\ sent' \in 0 .. NumCalls
  BY <1>1, <1>3, NumCallsAssumption DEF OrderOK
<1>8. OrderOK'
  BY <1>1, <1>5, <1>6, <1>7 DEF OrderOK, Calls
<1>9. Busy' = Busy \cup {t}
  BY <1>1, <1>4 DEF Busy
<1>10. Cardinality(Busy) < NumThreads
  BY DEF Take
<1>11. IsFiniteSet(Busy') /\ Cardinality(Busy') <= Cardinality(Busy) + 1
  BY <1>9, BusyFinite, FS_AddElement
<1>12. Cardinality(Busy') \in Nat
  BY <1>11, FS_CardinalityType
<1> QED BY <1>8, <1>10, <1>11, <1>12, BusyFinite, NumThreadsAssumption

LEMMA Keeps ==
  ASSUME OrderOK, Cardinality(Busy) <= NumThreads, [Next]_vars
  PROVE  OrderOK' /\ Cardinality(Busy)' <= NumThreads
<1>1. CASE Send
  BY <1>1, SendKeeps
<1>2. CASE Take
  BY <1>2, TakeKeeps
<1>3. ASSUME NEW c \in Calls, Serve(c) \/ FencesSignal(c) \/ FenceFails(c)
      PROVE  OrderOK' /\ Cardinality(Busy)' <= NumThreads
  <2>1. CASE Refuse(c) \/ FenceFails(c) \/ Finish(c)
    <3>1. at[c] \in {"serving", "waiting", "working", "detached"} /\ Goto(c, "answered")
      BY <2>1 DEF Refuse, FenceFails, Finish
    <3>2. UNCHANGED <<sent, taken, kind, needs>>
      BY <2>1 DEF Refuse, FenceFails, Finish
    <3>3. "answered" \in Pcs \ {"unsent", "queued", "serving"}
      BY DEF Pcs
    <3> QED BY <3>1, <3>2, <3>3, CallSteps
  <2>2. CASE ExecuteReturns(c)
    <3>1. "detached" \in Pcs \ {"unsent", "queued", "serving"}
      BY DEF Pcs
    <3> QED BY <2>2, <3>1, CallSteps DEF ExecuteReturns
  <2>3. CASE WaitFences(c)
    <3>1. "waiting" \in Pcs \ {"unsent", "queued", "serving"}
      BY DEF Pcs
    <3>2. c \in Busy
      BY <2>3 DEF WaitFences, Busy
    <3> QED BY <2>3, <3>1, <3>2, CallSteps DEF WaitFences
  <2>4. CASE FencesSignal(c)
    <3>1. "working" \in Pcs \ {"unsent", "queued", "serving"}
      BY DEF Pcs
    <3>2. c \in Busy
      BY <2>4 DEF FencesSignal, Busy
    <3> QED BY <2>4, <3>1, <3>2, CallSteps DEF FencesSignal
  <2> QED BY <1>3, <2>1, <2>2, <2>3, <2>4 DEF Serve
<1>4. CASE UNCHANGED vars
  <2>1. Busy' = Busy
    BY <1>4 DEF vars, Busy, Calls
  <2>2. OrderOK'
    BY <1>4 DEF vars, OrderOK, Calls
  <2> QED BY <2>1, <2>2
<1> QED BY <1>1, <1>2, <1>3, <1>4 DEF Next

LEMMA Starts ==
  ASSUME Init
  PROVE  OrderOK /\ Cardinality(Busy) <= NumThreads
<1>1. OrderOK
  BY NumCallsAssumption DEF Init, OrderOK, Calls, Kinds, Pcs
<1>2. Busy = {}
  BY DEF Init, Busy
<1> QED BY <1>1, <1>2, FS_EmptySet, NumThreadsAssumption

\* For any number of threads and calls, calls get threads in the order of their
\* arrival and no more threads are busy than there are (service.cpp:48).
THEOREM TypeCorrect == Spec => []TypeOK
<1> DEFINE I == OrderOK /\ Cardinality(Busy) <= NumThreads
<1>1. Init => I
  BY Starts
<1>2. I /\ [Next]_vars => I'
  BY Keeps
<1>3. I => TypeOK
  BY DEF OrderOK, TypeOK, Pcs
<1> QED BY <1>1, <1>2, <1>3, PTL DEF Spec

-----------------------------------------------------------------------------
(* No deadlock.                                                            *)

\* The call that has gone unanswered longest can go on: if it is queued, every
\* call that was taken has been answered, and all threads are free; if it waits
\* for fences, they need earlier calls only, and these have been answered.
LEMMA OldestMoves ==
  ASSUME OrderOK
  PROVE  OrderedCallsNeverStick
<1> SUFFICES ASSUME Ordered, Answered # 1 .. sent PROVE CanMove
  BY DEF OrderedCallsNeverStick
<1> DEFINE U == (1 .. sent) \ Answered
<1>1. sent \in Nat /\ taken \in 0 .. sent /\ 1 .. sent \subseteq Calls
  BY NumCallsAssumption DEF OrderOK, Calls
<1>2. Answered \subseteq 1 .. sent
  BY <1>1 DEF OrderOK, Answered, Calls
<1>3. U # {} /\ U \in SUBSET (1 .. sent)
  BY <1>2
<1>4. PICK m \in U : \A c \in U : m <= c
  BY <1>1, <1>3, Least
<1>5. m \in Calls /\ m \in 1 .. sent /\ at[m] # "answered" /\ at[m] # "unsent"
  BY <1>1 DEF Answered, OrderOK, Calls
<1>6. \A c \in Calls : c < m => c \in Answered
  BY <1>1, <1>4, <1>5, NumCallsAssumption DEF Calls
<1>7. CASE at[m] = "queued"
  <2>1. m \in taken + 1 .. sent
    BY <1>5, <1>7 DEF OrderOK
  <2>2. ASSUME NEW c \in Busy PROVE FALSE
    <3>1. c \in Calls /\ at[c] # "queued" /\ at[c] # "unsent" /\ c \notin Answered
      BY DEF Busy, Answered
    <3>2. c <= taken
      BY <3>1, <1>1 DEF OrderOK, Calls
    <3> QED BY <3>1, <3>2, <2>1, <1>1, <1>6 DEF Calls
  <2>3. Cardinality(Busy) < NumThreads
    BY <2>2, FS_EmptySet, NumThreadsAssumption
  <2> QED BY <2>1, <2>3, <1>1 DEF CanMove
<1>8. CASE at[m] = "waiting"
  <2>1. needs[m] \subseteq Calls /\ \A d \in needs[m] : d < m
    BY <1>5 DEF OrderOK, Ordered
  <2> QED BY <2>1, <1>5, <1>6, <1>8 DEF CanMove
<1>9. CASE at[m] \in {"serving", "working", "detached"}
  BY <1>5, <1>9 DEF CanMove
<1> QED BY <1>5, <1>7, <1>8, <1>9 DEF OrderOK, Pcs

\* However few threads there are and however many calls wait in executeFenced,
\* something can always move while a call is unanswered, if the fences of a call
\* need only earlier ones (service.cpp:48, BasePreparedModel.cpp:584).
THEOREM OrderedCallsProgress == Spec => []OrderedCallsNeverStick
<1> DEFINE I == OrderOK /\ Cardinality(Busy) <= NumThreads
<1>1. Init => I
  BY Starts
<1>2. I /\ [Next]_vars => I'
  BY Keeps
<1>3. I => OrderedCallsNeverStick
  BY OldestMoves
<1> QED BY <1>1, <1>2, <1>3, PTL DEF Spec
==============================================================================
