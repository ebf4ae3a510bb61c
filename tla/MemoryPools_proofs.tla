-------------------------- MODULE MemoryPools_proofs --------------------------
(***************************************************************************)
(* Theorems about MemoryPools that hold of any number of models, pages and *)
(* executions, overlapping or not: TypeOK, AshmemReleased, HeldUnmapped,   *)
(* PointersKept; and what PointersKept comes to without overlap.           *)
(***************************************************************************)
EXTENDS MemoryPools, TLAPS

\* The loops over set() stay within the pools they are given, and a model has
\* no pools before its preparation.
CounterOK(m) ==
    /\ at[m].pc \in {"prepare", "set"} => at[m].k \in 1 .. Len(wanted[m])
    /\ at[m].pc = "none" => infos[m]["model"] = <<>>

IInv ==
    /\ ThreadsOK /\ InfosOK /\ LengthsOK /\ MappingOK
    /\ \A m \in Models : CounterOK(m)
    /\ AshmemReleased

-----------------------------------------------------------------------------
(* The building blocks of the actions.                                     *)

\* The wanted pools are a sequence of kinds.
LEMMA WantedType ==
  ASSUME ThreadsOK, NEW m \in Models
  PROVE  wanted[m] \in Seq(Kind)
<1>1. <<>> \in Seq(Kind)
  OBVIOUS
<1>2. ModelPools \subseteq Seq(Kind) /\ RequestPools \subseteq Seq(Kind)
  BY PoolsAssumption
<1>3. wanted[m] \in ModelPools \cup RequestPools \cup {<<>>}
  BY DEF ThreadsOK
<1>4. QED
  BY <1>1, <1>2, <1>3

LEMMA GotoType ==
  ASSUME ThreadsOK, NEW m \in Models, NEW pc \in PcType, NEW k \in Nat \ {0},
         Goto(m, pc, k)
  PROVE  /\ at' \in [Models -> [pc : PcType, k : Nat \ {0}]]
         /\ at'[m].pc = pc /\ at'[m].k = k
         /\ \A d \in Models : d # m => at'[d] = at[d]
  BY DEF ThreadsOK, Goto

LEMMA NewInfoType == NewInfo \in InfoType
  BY DEF NewInfo, InfoType

\* resize() gives a vector of the size asked for, whose first elements are the
\* old ones and whose others hold no IMemory.
LEMMA ResizedType ==
  ASSUME NEW old \in Seq(InfoType), NEW size \in Nat
  PROVE  /\ Resized(old, size) \in Seq(InfoType)
         /\ Len(Resized(old, size)) = size
         /\ \A k \in 1 .. size :
              Resized(old, size)[k] = IF k <= Len(old) THEN old[k] ELSE NewInfo
<1>1. \A k \in 1 .. size : (IF k <= Len(old) THEN old[k] ELSE NewInfo) \in InfoType
  BY NewInfoType
<1>2. QED
  BY <1>1 DEF Resized

\* The IMemories of a vector are pages.
LEMMA MemoriesType ==
  ASSUME NEW s \in Seq(InfoType)
  PROVE  Memories(s) \subseteq Pages
<1>1. \A k \in DOMAIN s : s[k] \in InfoType
  OBVIOUS
<1>2. \A k \in DOMAIN s : s[k].memory \in Pages \cup {Null}
  BY <1>1 DEF InfoType
<1>3. QED
  BY <1>2 DEF Memories

\* A page that set() may use.
LEMMA PoolTypeOK ==
  ASSUME ThreadsOK, NEW m \in Models, NEW v \in Vector, NEW k \in Nat \ {0},
         NEW kind \in Kind
  PROVE  Pool(m, v, k, kind) \in PoolType
  BY DEF Pool, PoolType, ThreadsOK

\* What set() leaves in an info, when it maps the pool and when it fails.
LEMMA MappedType ==
  ASSUME NEW info \in InfoType, NEW kind \in Kind, NEW page \in Pages
  PROVE  /\ Mapped(info, kind, page) \in InfoType
         /\ Mapped(info, kind, page).memory = IF kind = "ashmem" THEN page ELSE info.memory
  BY DEF Mapped, InfoType

LEMMA NotMappedType ==
  ASSUME NEW info \in InfoType, NEW kind \in Kind
  PROVE  /\ NotMapped(info, kind) \in InfoType
         /\ NotMapped(info, kind).memory = IF kind = "ashmem" THEN Null ELSE info.memory
  BY DEF NotMapped, InfoType

\* Freeing pages keeps the mapping well typed.
LEMMA FreedType ==
  ASSUME mapping \in [Pages -> PoolType \cup {Free}], NEW S
  PROVE  [p \in Pages |-> IF p \in S THEN Free ELSE mapping[p]] \in [Pages -> PoolType \cup {Free}]
  OBVIOUS

\* Writing one element of one vector.
OneInfo(m, v, k, new) == infos' = [infos EXCEPT ![m][v][k] = new]

LEMMA OneInfoType ==
  ASSUME InfosOK, NEW m \in Models, NEW v \in Vector, NEW k \in 1 .. Len(infos[m][v]),
         NEW new \in InfoType, OneInfo(m, v, k, new)
  PROVE  /\ InfosOK'
         /\ \A d \in Models, w \in Vector : Len(infos'[d][w]) = Len(infos[d][w])
         /\ \A d \in Models, w \in Vector : d # m \/ w # v => infos'[d][w] = infos[d][w]
         /\ infos'[m][v] = [infos[m][v] EXCEPT ![k] = new]
<1>1. infos[m] \in [Vector -> Seq(InfoType)] /\ infos[m][v] \in Seq(InfoType)
  BY DEF InfosOK
<1>2. DEFINE s == [infos[m][v] EXCEPT ![k] = new]
<1>3. s \in Seq(InfoType) /\ Len(s) = Len(infos[m][v])
  BY <1>1
<1>4. infos' = [infos EXCEPT ![m] = [infos[m] EXCEPT ![v] = s]]
  BY DEF InfosOK, OneInfo
<1>5. [infos[m] EXCEPT ![v] = s] \in [Vector -> Seq(InfoType)]
  BY <1>1, <1>3
<1>6. InfosOK'
  BY <1>4, <1>5 DEF InfosOK
<1>7. infos'[m][v] = s
  BY <1>1, <1>4 DEF InfosOK
<1>8. \A d \in Models, w \in Vector : d # m \/ w # v => infos'[d][w] = infos[d][w]
  BY <1>1, <1>4 DEF InfosOK
<1>9. QED
  BY <1>3, <1>6, <1>7, <1>8

-----------------------------------------------------------------------------
(* AshmemReleased, for the steps that only free pages.                     *)

\* A step that maps no page, and frees every page whose IMemory it drops,
\* keeps AshmemReleased.
LEMMA ReleasedKept ==
  ASSUME MappingOK, AshmemReleased,
         \A p \in Pages : mapping'[p] # Free => mapping'[p] = mapping[p],
         \A p \in Pages, d \in Models, w \in Vector :
            p \in Memories(infos[d][w]) /\ mapping'[p] # Free => p \in Memories(infos'[d][w])
  PROVE  AshmemReleased'
<1> SUFFICES ASSUME NEW p \in Pages, mapping'[p] # Free, mapping'[p].kind = "ashmem"
             PROVE  p \in Memories(infos'[mapping'[p].model][mapping'[p].vector])
  BY DEF AshmemReleased
<1>1. mapping'[p] = mapping[p]
  OBVIOUS
<1>2. mapping[p] \in PoolType
  BY <1>1 DEF MappingOK
<1>3. mapping[p].model \in Models /\ mapping[p].vector \in Vector
  BY <1>2 DEF PoolType
<1>4. p \in Memories(infos[mapping[p].model][mapping[p].vector])
  BY <1>1 DEF AshmemReleased
<1>5. QED
  BY <1>1, <1>3, <1>4

\* Replacing one info keeps the others' IMemories, and its own when it is the
\* same.
LEMMA MemoryKept ==
  ASSUME NEW s \in Seq(InfoType), NEW k \in 1 .. Len(s), NEW new \in InfoType,
         NEW p \in Memories(s), p # s[k].memory \/ new.memory = s[k].memory
  PROVE  p \in Memories([s EXCEPT ![k] = new])
<1>1. PICK j \in DOMAIN s : s[j].memory = p /\ p # Null
  BY DEF Memories
<1>2. DEFINE t == [s EXCEPT ![k] = new]
<1>3. DOMAIN t = DOMAIN s /\ t[j].memory = p
  BY <1>1
<1>4. QED
  BY <1>1, <1>3 DEF Memories

-----------------------------------------------------------------------------
(* The actions.                                                            *)

\* The vectors and program counters of the models that a step leaves alone.
LEMMA LengthsKept ==
  ASSUME IInv, NEW m \in Models,
         \A d \in Models : d # m => at'[d] = at[d] /\ wanted'[d] = wanted[d]
                                    /\ infos'[d] = infos[d],
         at'[m].pc \in {"prepare", "create", "build"} => Len(infos'[m]["model"]) = Len(wanted'[m]),
         at'[m].pc \in {"set", "run"} => Len(infos'[m]["request"]) = Len(wanted'[m]),
         at'[m].pc \in {"prepare", "set"} => at'[m].k \in 1 .. Len(wanted'[m]),
         at'[m].pc # "none"
  PROVE  LengthsOK' /\ \A d \in Models : CounterOK(d)'
<1>1. \A d \in Models : d # m => CounterOK(d)'
  BY DEF IInv, CounterOK
<1>2. CounterOK(m)'
  BY DEF CounterOK
<1>3. LengthsOK'
  BY DEF IInv, TypeOK, LengthsOK
<1>4. QED
  BY <1>1, <1>2, <1>3

\* One iteration of either loop over set().
LEMMA SetKept ==
  ASSUME IInv, NEW m \in Models, NEW v \in Vector, NEW next \in PcType, NEW failed \in PcType,
         \/ at[m].pc = "prepare" /\ v = "model" /\ next = "create" /\ failed = "derived"
         \/ at[m].pc = "set" /\ v = "request" /\ next = "run" /\ failed = "idle",
         Set(m, v, next, failed), UNCHANGED <<wanted, n, sModelInfo>>
  PROVE  IInv'
<1> DEFINE k == at[m].k
           kind == wanted[m][k]
           info == infos[m][v][k]
           kept == IF kind = "ashmem" THEN Without(mapping, info.memory) ELSE mapping
<1>1. ThreadsOK /\ InfosOK /\ LengthsOK /\ MappingOK /\ AshmemReleased
  BY DEF IInv, TypeOK
<1>2. k \in 1 .. Len(wanted[m]) /\ Len(infos[m][v]) = Len(wanted[m])
  BY <1>1 DEF IInv, CounterOK, LengthsOK
<1>3. wanted[m] \in Seq(Kind) /\ infos[m][v] \in Seq(InfoType)
  BY <1>1, WantedType DEF InfosOK
<1>4. kind \in Kind /\ info \in InfoType /\ k \in 1 .. Len(infos[m][v]) /\ k \in Nat \ {0}
  BY <1>2, <1>3
<1>5. kept \in [Pages -> PoolType \cup {Free}]
  BY <1>1, FreedType DEF MappingOK, Without
<1>6. \A p \in Pages : kept[p] # Free => kept[p] = mapping[p]
  BY <1>1 DEF MappingOK, Without
<1>7. \A p \in Pages : kept[p] # Free /\ kind = "ashmem" => p # info.memory
  BY <1>1 DEF MappingOK, Without
<1> HIDE DEF k, kind, info, kept
<1>8. ASSUME NEW page \in Pages,
             infos' = [infos EXCEPT ![m][v][k] = Mapped(info, kind, page)],
             mapping' = [kept EXCEPT ![page] = Pool(m, v, k, kind)],
             IF k < Len(wanted[m]) THEN Goto(m, at[m].pc, k + 1) ELSE Goto(m, next, 1)
      PROVE  IInv'
  <2> DEFINE new == Mapped(info, kind, page)
  <2>1. new \in InfoType /\ new.memory = IF kind = "ashmem" THEN page ELSE info.memory
    BY <1>4, MappedType
  <2> HIDE DEF new
  <2>2. OneInfo(m, v, k, new)
    BY <1>8 DEF new, OneInfo
  <2>3. /\ InfosOK'
        /\ \A d \in Models, w \in Vector : Len(infos'[d][w]) = Len(infos[d][w])
        /\ \A d \in Models, w \in Vector : d # m \/ w # v => infos'[d][w] = infos[d][w]
        /\ infos'[m][v] = [infos[m][v] EXCEPT ![k] = new]
    BY <1>1, <1>4, <2>1, <2>2, OneInfoType
  <2>4. Pool(m, v, k, kind) \in PoolType
    BY <1>1, <1>4, PoolTypeOK
  <2>5. MappingOK'
    BY <1>1, <1>5, <1>8, <2>4 DEF MappingOK
  <2>6. /\ ThreadsOK'
        /\ \A d \in Models : d # m => at'[d] = at[d]
        /\ \/ at'[m].pc = at[m].pc /\ at'[m].k \in 1 .. Len(wanted[m])
           \/ at'[m].pc = next
    <3>1. Len(wanted[m]) \in Nat
      BY <1>3
    <3>2. CASE k < Len(wanted[m])
      <4>1. k + 1 \in Nat \ {0} /\ k + 1 \in 1 .. Len(wanted[m]) /\ at[m].pc \in PcType
        BY <1>1, <1>4, <3>1, <3>2 DEF ThreadsOK
      <4>2. QED
        BY <1>1, <1>8, <3>2, <4>1, GotoType DEF ThreadsOK
    <3>3. CASE ~(k < Len(wanted[m]))
      BY <1>1, <1>8, <3>3, GotoType DEF ThreadsOK
    <3>4. QED
      BY <3>2, <3>3
  <2>7. \A d \in Models : d # m => infos'[d] = infos[d]
    BY <1>1, <2>2 DEF InfosOK, OneInfo
  <2>8. LengthsOK' /\ \A d \in Models : CounterOK(d)'
    <3>1. at'[m].pc \in {"prepare", "create", "build"} => Len(infos'[m]["model"]) = Len(wanted'[m])
      BY <1>2, <2>3, <2>6
    <3>2. at'[m].pc \in {"set", "run"} => Len(infos'[m]["request"]) = Len(wanted'[m])
      BY <1>2, <2>3, <2>6
    <3>3. at'[m].pc \in {"prepare", "set"} => at'[m].k \in 1 .. Len(wanted'[m])
      BY <2>6
    <3>4. QED
      BY <2>6, <2>7, <3>1, <3>2, <3>3, LengthsKept
  <2>9. AshmemReleased'
    <3> SUFFICES ASSUME NEW p \in Pages, mapping'[p] # Free, mapping'[p].kind = "ashmem"
                 PROVE  p \in Memories(infos'[mapping'[p].model][mapping'[p].vector])
      BY DEF AshmemReleased
    <3>1. CASE p = page
      <4>1. mapping'[p] = Pool(m, v, k, kind)
        BY <1>5, <1>8, <3>1
      <4>2. mapping'[p].model = m /\ mapping'[p].vector = v /\ kind = "ashmem"
        BY <4>1 DEF Pool
      <4>3. infos'[m][v][k].memory = p /\ k \in DOMAIN infos'[m][v]
        BY <1>3, <1>4, <2>1, <2>3, <3>1, <4>2
      <4>4. p # Null
        BY PointersAssumption
      <4>5. QED
        BY <4>2, <4>3, <4>4 DEF Memories
    <3>2. CASE p # page
      <4>1. kept[p] # Free /\ mapping'[p] = kept[p]
        BY <1>5, <1>8, <3>2
      <4>2. mapping'[p] = mapping[p] /\ (kind = "ashmem" => p # info.memory)
        BY <1>6, <1>7, <4>1
      <4>3. mapping[p] \in PoolType
        BY <1>1, <4>1, <4>2 DEF MappingOK
      <4>4. mapping[p].model \in Models /\ mapping[p].vector \in Vector
        BY <4>3 DEF PoolType
      <4>5. p \in Memories(infos[mapping[p].model][mapping[p].vector])
        BY <1>1, <4>1, <4>2 DEF AshmemReleased
      <4>6. CASE mapping[p].model = m /\ mapping[p].vector = v
        <5>1. p # info.memory \/ new.memory = info.memory
          BY <2>1, <4>2
        <5>2. p \in Memories([infos[m][v] EXCEPT ![k] = new])
          BY <1>3, <1>4, <2>1, <4>5, <4>6, <5>1, MemoryKept DEF info
        <5>3. QED
          BY <2>3, <4>2, <4>6, <5>2
      <4>7. QED
        BY <2>3, <4>2, <4>4, <4>5, <4>6
    <3>3. QED
      BY <3>1, <3>2
  <2>10. QED
    BY <2>3, <2>5, <2>6, <2>8, <2>9 DEF IInv, TypeOK
<1>9. ASSUME infos' = [infos EXCEPT ![m][v][k] = NotMapped(info, kind)],
             mapping' = kept, Goto(m, failed, 1)
      PROVE  IInv'
  <2> DEFINE new == NotMapped(info, kind)
  <2>1. new \in InfoType /\ new.memory = IF kind = "ashmem" THEN Null ELSE info.memory
    BY <1>4, NotMappedType
  <2> HIDE DEF new
  <2>2. OneInfo(m, v, k, new)
    BY <1>9 DEF new, OneInfo
  <2>3. /\ InfosOK'
        /\ \A d \in Models, w \in Vector : Len(infos'[d][w]) = Len(infos[d][w])
        /\ \A d \in Models, w \in Vector : d # m \/ w # v => infos'[d][w] = infos[d][w]
        /\ infos'[m][v] = [infos[m][v] EXCEPT ![k] = new]
    BY <1>1, <1>4, <2>1, <2>2, OneInfoType
  <2>4. MappingOK'
    BY <1>1, <1>5, <1>9 DEF MappingOK
  <2>5. ThreadsOK' /\ at'[m].pc = failed /\ \A d \in Models : d # m => at'[d] = at[d]
    <3>1. 1 \in Nat \ {0}
      OBVIOUS
    <3>2. /\ at' \in [Models -> [pc : PcType, k : Nat \ {0}]]
          /\ at'[m].pc = failed
          /\ \A d \in Models : d # m => at'[d] = at[d]
      BY <1>1, <1>9, <3>1, GotoType
    <3>3. QED
      BY <1>1, <3>2 DEF ThreadsOK
  <2>6. \A d \in Models : d # m => infos'[d] = infos[d]
    BY <1>1, <2>2 DEF InfosOK, OneInfo
  <2>7. LengthsOK' /\ \A d \in Models : CounterOK(d)'
    BY <2>5, <2>6, LengthsKept
  <2>8. ASSUME NEW p \in Pages, NEW d \in Models, NEW w \in Vector,
               p \in Memories(infos[d][w]), mapping'[p] # Free
        PROVE  p \in Memories(infos'[d][w])
    <3>1. kind = "ashmem" => p # info.memory
      BY <1>7, <1>9, <2>8
    <3>2. CASE d = m /\ w = v
      <4>1. p # info.memory \/ new.memory = info.memory
        BY <2>1, <3>1
      <4>2. p \in Memories([infos[m][v] EXCEPT ![k] = new])
        BY <1>3, <1>4, <2>1, <2>8, <3>2, <4>1, MemoryKept DEF info
      <4>3. QED
        BY <2>3, <3>2, <4>2
    <3>3. QED
      BY <2>3, <2>8, <3>2
  <2>9. AshmemReleased'
    BY <1>1, <1>6, <1>9, <2>8, ReleasedKept
  <2>10. QED
    BY <2>3, <2>4, <2>5, <2>7, <2>9 DEF IInv, TypeOK
<1>10. QED
  BY <1>8, <1>9 DEF Set, k, kind, info, kept

\* A step of one thread to another program counter, that changes no vector.
LEMMA MoveKept ==
  ASSUME IInv, NEW m \in Models, NEW pc \in PcType \ {"none", "prepare", "set", "create", "run"},
         NEW k \in Nat \ {0}, Goto(m, pc, k), UNCHANGED <<wanted, n, infos>>,
         pc = "build" => at[m].pc = "create"
  PROVE  ThreadsOK' /\ InfosOK' /\ LengthsOK' /\ \A d \in Models : CounterOK(d)'
<1>1. ThreadsOK /\ InfosOK
  BY DEF IInv, TypeOK
<1>2. /\ at' \in [Models -> [pc : PcType, k : Nat \ {0}]]
      /\ at'[m].pc = pc
      /\ \A d \in Models : d # m => at'[d] = at[d]
  BY <1>1, GotoType
<1>3. ThreadsOK' /\ InfosOK'
  BY <1>1, <1>2 DEF ThreadsOK, InfosOK
<1>4. pc = "build" => Len(infos'[m]["model"]) = Len(wanted'[m])
  BY DEF IInv, TypeOK, LengthsOK
<1>5. LengthsOK' /\ \A d \in Models : CounterOK(d)'
  BY <1>2, <1>4, LengthsKept
<1>6. QED
  BY <1>3, <1>5

\* Steps that leave the mappings and the vectors alone.
LEMMA QuietKept ==
  ASSUME IInv, NEW m \in Models, Build(m) \/ Answer(m) \/ Destroy(m)
  PROVE  IInv'
<1>1. PICK pc \in {"idle", "derived"} : Goto(m, pc, 1)
  BY DEF Build, Answer, Destroy
<1>2. UNCHANGED <<wanted, n, infos, sModelInfo, mapping>>
  BY DEF Build, Answer, Destroy
<1>3. pc \in PcType \ {"none", "prepare", "set", "create", "run"} /\ 1 \in Nat \ {0}
  BY DEF PcType
<1>4. ThreadsOK' /\ InfosOK' /\ LengthsOK' /\ \A d \in Models : CounterOK(d)'
  BY <1>1, <1>2, <1>3, MoveKept
<1>5. MappingOK' /\ AshmemReleased'
  BY <1>2 DEF IInv, TypeOK, MappingOK, AshmemReleased
<1>6. QED
  BY <1>4, <1>5 DEF IInv, TypeOK

\* unmap_mem() frees pages and drops no IMemory.
LEMMA DeinitializeKept ==
  ASSUME IInv, NEW m \in Models, NEW pc \in PcType, NEW next \in PcType,
         \/ pc = "derived" /\ next = "base"
         \/ pc = "base" /\ next = "members",
         Deinitialize(m, pc, next)
  PROVE  IInv'
<1>1. MappingOK /\ AshmemReleased /\ ThreadsOK /\ InfosOK
  BY DEF IInv, TypeOK
<1>2. UNCHANGED <<wanted, n, infos, sModelInfo>>
  BY DEF Deinitialize
<1>3. PICK to \in {pc, next}, k \in Nat \ {0} : Goto(m, to, k)
  <2>1. at[m].k \in Nat \ {0} /\ at[m].k + 1 \in Nat \ {0} /\ 1 \in Nat \ {0}
    BY <1>1 DEF ThreadsOK
  <2>2. Goto(m, pc, at[m].k + 1) \/ Goto(m, next, 1)
    BY DEF Deinitialize
  <2>3. QED
    BY <2>1, <2>2
<1>4. to \in PcType \ {"none", "prepare", "set", "create", "run"}
  BY <1>3 DEF PcType
<1>5. ThreadsOK' /\ InfosOK' /\ LengthsOK' /\ \A d \in Models : CounterOK(d)'
  BY <1>2, <1>3, <1>4, MoveKept
<1>6. /\ mapping' \in [Pages -> PoolType \cup {Free}]
      /\ \A p \in Pages : mapping'[p] # Free => mapping'[p] = mapping[p]
  <2>1. CASE mapping' = mapping
    BY <1>1, <2>1 DEF MappingOK
  <2>2. ASSUME NEW page, mapping' = Without(mapping, page)
        PROVE  /\ mapping' \in [Pages -> PoolType \cup {Free}]
               /\ \A p \in Pages : mapping'[p] # Free => mapping'[p] = mapping[p]
    BY <1>1, <2>2 DEF MappingOK, Without
  <2>3. QED
    BY <2>1, <2>2 DEF Deinitialize
<1>7. MappingOK'
  BY <1>1, <1>2, <1>6 DEF MappingOK
<1>8. AshmemReleased'
  BY <1>1, <1>2, <1>6, ReleasedKept
<1>9. QED
  BY <1>5, <1>7, <1>8 DEF IInv, TypeOK

\* initRuntimeInfo() begins: a fresh vector of the model's pools.
LEMMA PrepareKept ==
  ASSUME IInv, NEW m \in Models, Prepare(m)
  PROVE  IInv'
<1>1. MappingOK /\ AshmemReleased /\ ThreadsOK /\ InfosOK
  BY DEF IInv, TypeOK
<1>2. PICK pools \in ModelPools :
        /\ wanted' = [wanted EXCEPT ![m] = pools]
        /\ infos' = [infos EXCEPT ![m]["model"] = Resized(@, Len(pools))]
        /\ Goto(m, IF pools = <<>> THEN "create" ELSE "prepare", 1)
  BY DEF Prepare
<1>3. UNCHANGED <<n, sModelInfo, mapping>>
  BY DEF Prepare
<1>4. pools \in Seq(Kind) /\ Len(pools) \in Nat /\ (pools # <<>> => 1 \in 1 .. Len(pools))
  BY PoolsAssumption
<1>5. infos[m] \in [Vector -> Seq(InfoType)] /\ "model" \in Vector
  BY <1>1 DEF InfosOK, Vector
<1> DEFINE new == Resized(infos[m]["model"], Len(pools))
<1>6. new \in Seq(InfoType) /\ Len(new) = Len(pools)
  BY <1>4, <1>5, ResizedType
<1>7. infos' = [infos EXCEPT ![m] = [infos[m] EXCEPT !["model"] = new]]
  BY <1>1, <1>2 DEF InfosOK
<1> HIDE DEF new
<1>8. InfosOK' /\ infos'[m]["model"] = new /\ \A d \in Models : d # m => infos'[d] = infos[d]
  BY <1>1, <1>5, <1>6, <1>7 DEF InfosOK
<1>9. at' \in [Models -> [pc : PcType, k : Nat \ {0}]]
      /\ at'[m].pc = (IF pools = <<>> THEN "create" ELSE "prepare") /\ at'[m].k = 1
      /\ \A d \in Models : d # m => at'[d] = at[d]
  <2>1. (IF pools = <<>> THEN "create" ELSE "prepare") \in PcType /\ 1 \in Nat \ {0}
    BY DEF PcType
  <2>2. QED
    BY <1>1, <1>2, <2>1, GotoType
<1>10. /\ wanted' \in [Models -> ModelPools \cup RequestPools \cup {<<>>}]
       /\ wanted'[m] = pools /\ \A d \in Models : d # m => wanted'[d] = wanted[d]
  BY <1>1, <1>2 DEF ThreadsOK
<1>11. ThreadsOK' /\ MappingOK'
  BY <1>1, <1>3, <1>9, <1>10 DEF ThreadsOK, MappingOK
<1>12. LengthsOK' /\ \A d \in Models : CounterOK(d)'
  BY <1>4, <1>6, <1>8, <1>9, <1>10, LengthsKept
<1>13. ASSUME NEW p \in Pages, NEW d \in Models, NEW w \in Vector, p \in Memories(infos[d][w])
       PROVE  p \in Memories(infos'[d][w])
  <2>1. Memories(infos[m]["model"]) = {}
    <3>1. infos[m]["model"] = <<>>
      BY DEF IInv, CounterOK, Prepare, At
    <3>2. QED
      BY <3>1 DEF Memories
  <2>2. d # m \/ w # "model"
    BY <1>13, <2>1
  <2>3. infos'[d][w] = infos[d][w]
    BY <1>1, <1>5, <1>7, <2>2 DEF InfosOK
  <2>4. QED
    BY <1>13, <2>3
<1>14. AshmemReleased'
  BY <1>1, <1>3, <1>13, ReleasedKept
<1>15. QED
  BY <1>8, <1>11, <1>12, <1>14 DEF IInv, TypeOK

\* An execution begins: the infos that are dropped free their IMemories.
LEMMA ExecuteKept ==
  ASSUME IInv, NEW m \in Models, Execute(m)
  PROVE  IInv'
<1>1. MappingOK /\ AshmemReleased /\ ThreadsOK /\ InfosOK
  BY DEF IInv, TypeOK
<1> DEFINE old == infos[m]["request"]
<1>2. PICK pools \in RequestPools :
        /\ wanted' = [wanted EXCEPT ![m] = pools]
        /\ infos' = [infos EXCEPT ![m]["request"] = Resized(old, Len(pools))]
        /\ mapping' = [p \in Pages |->
               IF p \in Memories(old) \ Memories(Resized(old, Len(pools)))
               THEN Free ELSE mapping[p]]
  BY DEF Execute
<1>3. Goto(m, "set", 1) /\ n' = [n EXCEPT ![m] = @ + 1] /\ n[m] < MaxExecutions
      /\ UNCHANGED sModelInfo
  BY DEF Execute
<1>4. pools \in Seq(Kind) /\ Len(pools) \in Nat /\ 1 \in 1 .. Len(pools)
  <2>1. pools \in Seq(Kind) /\ pools # <<>>
    BY PoolsAssumption
  <2>2. QED
    BY <2>1
<1>5. infos[m] \in [Vector -> Seq(InfoType)] /\ "request" \in Vector
  BY <1>1 DEF InfosOK, Vector
<1> DEFINE new == Resized(old, Len(pools))
<1>6. new \in Seq(InfoType) /\ Len(new) = Len(pools)
  BY <1>4, <1>5, ResizedType
<1>7. infos' = [infos EXCEPT ![m] = [infos[m] EXCEPT !["request"] = new]]
  BY <1>1, <1>2 DEF InfosOK
<1>8. mapping' = [p \in Pages |-> IF p \in Memories(old) \ Memories(new) THEN Free ELSE mapping[p]]
  BY <1>2
<1> HIDE DEF old, new
<1>9. InfosOK' /\ infos'[m]["request"] = new /\ \A d \in Models : d # m => infos'[d] = infos[d]
  BY <1>1, <1>5, <1>6, <1>7 DEF InfosOK
<1>10. at' \in [Models -> [pc : PcType, k : Nat \ {0}]]
       /\ at'[m].pc = "set" /\ at'[m].k = 1
       /\ \A d \in Models : d # m => at'[d] = at[d]
  <2>1. "set" \in PcType /\ 1 \in Nat \ {0}
    BY DEF PcType
  <2>2. QED
    BY <1>1, <1>3, <2>1, GotoType
<1>11. /\ wanted' \in [Models -> ModelPools \cup RequestPools \cup {<<>>}]
       /\ wanted'[m] = pools /\ \A d \in Models : d # m => wanted'[d] = wanted[d]
  BY <1>1, <1>2 DEF ThreadsOK
<1>12. n' \in [Models -> 0 .. MaxExecutions]
  BY <1>1, <1>3, PoolsAssumption DEF ThreadsOK
<1>13. mapping' \in [Pages -> PoolType \cup {Free}]
  BY <1>1, <1>8, FreedType DEF MappingOK
<1>14. ThreadsOK' /\ MappingOK'
  BY <1>1, <1>3, <1>10, <1>11, <1>12, <1>13 DEF ThreadsOK, MappingOK
<1>15. LengthsOK' /\ \A d \in Models : CounterOK(d)'
  BY <1>4, <1>6, <1>9, <1>10, <1>11, LengthsKept
<1>16. ASSUME NEW p \in Pages, NEW d \in Models, NEW w \in Vector,
              p \in Memories(infos[d][w]), mapping'[p] # Free
       PROVE  p \in Memories(infos'[d][w])
  <2>1. CASE d = m /\ w = "request"
    <3>1. p \in Memories(old)
      BY <1>16, <2>1 DEF old
    <3>2. p \in Memories(new)
      BY <1>8, <1>16, <3>1
    <3>3. QED
      BY <1>9, <2>1, <3>2
  <2>2. CASE ~(d = m /\ w = "request")
    <3>1. infos'[d][w] = infos[d][w]
      BY <1>1, <1>5, <1>7, <2>2 DEF InfosOK
    <3>2. QED
      BY <1>16, <3>1
  <2>3. QED
    BY <2>1, <2>2
<1>17. \A p \in Pages : mapping'[p] # Free => mapping'[p] = mapping[p]
  BY <1>8
<1>18. AshmemReleased'
  BY <1>1, <1>16, <1>17, ReleasedKept
<1>19. QED
  BY <1>9, <1>14, <1>15, <1>18 DEF IInv, TypeOK

\* The destructor of an NnapiModelInfo frees the IMemories of both vectors.
LEMMA ReleaseInfoKept ==
  ASSUME IInv, NEW d \in Models, ReleaseInfo(d)
  PROVE  /\ InfosOK'
         /\ infos'[d] = [v \in Vector |-> <<>>]
         /\ \A e \in Models : e # d => infos'[e] = infos[e]
         /\ mapping' \in [Pages -> PoolType \cup {Free}]
         /\ AshmemReleased'
<1>1. MappingOK /\ AshmemReleased /\ InfosOK
  BY DEF IInv, TypeOK
<1>2. [v \in Vector |-> <<>>] \in [Vector -> Seq(InfoType)]
  OBVIOUS
<1>3. /\ infos' = [infos EXCEPT ![d] = [v \in Vector |-> <<>>]]
      /\ mapping' = [p \in Pages |-> IF p \in Released(d) THEN Free ELSE mapping[p]]
  BY DEF ReleaseInfo
<1>4. /\ InfosOK'
      /\ infos'[d] = [v \in Vector |-> <<>>]
      /\ \A e \in Models : e # d => infos'[e] = infos[e]
  BY <1>1, <1>2, <1>3 DEF InfosOK
<1>5. mapping' \in [Pages -> PoolType \cup {Free}]
  BY <1>1, <1>3, FreedType DEF MappingOK
<1>6. \A p \in Pages : mapping'[p] # Free => mapping'[p] = mapping[p]
  BY <1>3
<1>7. ASSUME NEW p \in Pages, NEW e \in Models, NEW w \in Vector,
             p \in Memories(infos[e][w]), mapping'[p] # Free
      PROVE  p \in Memories(infos'[e][w])
  <2>1. p \notin Released(d)
    BY <1>3, <1>7
  <2>2. e # d
    BY <1>7, <2>1 DEF Released, Vector
  <2>3. QED
    BY <1>4, <1>7, <2>2
<1>8. AshmemReleased'
  BY <1>1, <1>6, <1>7, ReleasedKept
<1>9. QED
  BY <1>4, <1>5, <1>8

\* sModelInfo is replaced: what it held is released when nobody else has it.
LEMMA ReplaceKept ==
  ASSUME IInv,
         IF sModelInfo # NoModel /\ At(sModelInfo, "destroyed")
         THEN ReleaseInfo(sModelInfo) ELSE UNCHANGED <<infos, mapping>>
  PROVE  /\ InfosOK' /\ AshmemReleased'
         /\ mapping' \in [Pages -> PoolType \cup {Free}]
         /\ \A d \in Models : at[d].pc # "destroyed" => infos'[d] = infos[d]
<1>1. MappingOK /\ AshmemReleased /\ InfosOK
  BY DEF IInv, TypeOK
<1>2. CASE sModelInfo # NoModel /\ At(sModelInfo, "destroyed")
  <2>1. sModelInfo \in Models /\ at[sModelInfo].pc = "destroyed"
    BY <1>1, <1>2 DEF MappingOK, At
  <2>2. ReleaseInfo(sModelInfo)
    BY <1>2
  <2>3. QED
    BY <2>1, <2>2, ReleaseInfoKept
<1>3. CASE UNCHANGED <<infos, mapping>>
  BY <1>1, <1>3 DEF InfosOK, AshmemReleased, MappingOK
<1>4. QED
  BY <1>2, <1>3

LEMMA CreateFactoryKept ==
  ASSUME IInv, NEW m \in Models, CreateFactory(m)
  PROVE  IInv'
<1>1. MappingOK /\ ThreadsOK /\ LengthsOK
  BY DEF IInv, TypeOK
<1>2. /\ InfosOK' /\ AshmemReleased'
      /\ mapping' \in [Pages -> PoolType \cup {Free}]
      /\ \A d \in Models : at[d].pc # "destroyed" => infos'[d] = infos[d]
  BY ReplaceKept DEF CreateFactory
<1>3. Goto(m, "build", 1) /\ sModelInfo' = m /\ UNCHANGED <<wanted, n>> /\ at[m].pc = "create"
  BY DEF CreateFactory, At
<1>4. at' \in [Models -> [pc : PcType, k : Nat \ {0}]]
      /\ at'[m].pc = "build" /\ \A d \in Models : d # m => at'[d] = at[d]
  <2>1. "build" \in PcType /\ 1 \in Nat \ {0}
    BY DEF PcType
  <2>2. QED
    BY <1>1, <1>3, <2>1, GotoType
<1>5. ThreadsOK' /\ MappingOK'
  BY <1>1, <1>2, <1>3, <1>4 DEF ThreadsOK, MappingOK
<1>6. \A d \in Models : CounterOK(d)'
  BY <1>2, <1>3, <1>4 DEF IInv, CounterOK
<1>7. LengthsOK'
  BY <1>1, <1>2, <1>3, <1>4 DEF LengthsOK
<1>8. QED
  BY <1>2, <1>5, <1>6, <1>7 DEF IInv, TypeOK

LEMMA GetSupportedOperationsKept ==
  ASSUME IInv, GetSupportedOperations
  PROVE  IInv'
<1>1. MappingOK /\ ThreadsOK /\ LengthsOK
  BY DEF IInv, TypeOK
<1>2. /\ InfosOK' /\ AshmemReleased'
      /\ mapping' \in [Pages -> PoolType \cup {Free}]
      /\ \A d \in Models : at[d].pc # "destroyed" => infos'[d] = infos[d]
  BY ReplaceKept DEF GetSupportedOperations
<1>3. sModelInfo' = NoModel /\ UNCHANGED <<at, wanted, n>>
  BY DEF GetSupportedOperations
<1>4. ThreadsOK' /\ MappingOK'
  BY <1>1, <1>2, <1>3 DEF ThreadsOK, MappingOK
<1>5. \A d \in Models : CounterOK(d)'
  BY <1>2, <1>3 DEF IInv, CounterOK
<1>6. LengthsOK'
  BY <1>1, <1>2, <1>3 DEF LengthsOK
<1>7. QED
  BY <1>2, <1>4, <1>5, <1>6 DEF IInv, TypeOK

\* The members of a model go: its NnapiModelInfo too, unless it is the last.
LEMMA DestroyMembersKept ==
  ASSUME IInv, NEW m \in Models, DestroyMembers(m)
  PROVE  IInv'
<1>1. MappingOK /\ ThreadsOK /\ LengthsOK /\ InfosOK /\ AshmemReleased
  BY DEF IInv, TypeOK
<1>2. Goto(m, "destroyed", 1) /\ UNCHANGED <<wanted, n, sModelInfo>>
  BY DEF DestroyMembers
<1>3. at' \in [Models -> [pc : PcType, k : Nat \ {0}]]
      /\ at'[m].pc = "destroyed" /\ \A d \in Models : d # m => at'[d] = at[d]
  <2>1. "destroyed" \in PcType /\ 1 \in Nat \ {0}
    BY DEF PcType
  <2>2. QED
    BY <1>1, <1>2, <2>1, GotoType
<1>4. /\ InfosOK' /\ AshmemReleased'
      /\ mapping' \in [Pages -> PoolType \cup {Free}]
      /\ \A d \in Models : d # m => infos'[d] = infos[d]
  <2>1. CASE UNCHANGED <<infos, mapping>>
    BY <1>1, <2>1 DEF InfosOK, AshmemReleased, MappingOK
  <2>2. CASE ReleaseInfo(m)
    BY <2>2, ReleaseInfoKept
  <2>3. QED
    BY <2>1, <2>2 DEF DestroyMembers
<1>5. ThreadsOK' /\ MappingOK'
  BY <1>1, <1>2, <1>3, <1>4 DEF ThreadsOK, MappingOK
<1>6. LengthsOK' /\ \A d \in Models : CounterOK(d)'
  BY <1>2, <1>3, <1>4, LengthsKept
<1>7. QED
  BY <1>4, <1>5, <1>6 DEF IInv, TypeOK

-----------------------------------------------------------------------------
(* The theorems.                                                           *)

LEMMA InitIInv == Init => IInv
<1> SUFFICES ASSUME Init PROVE IInv
  OBVIOUS
<1>1. ThreadsOK
  BY PoolsAssumption DEF Init, ThreadsOK, PcType
<1>2. InfosOK /\ LengthsOK
  BY DEF Init, InfosOK, LengthsOK
<1>3. MappingOK /\ AshmemReleased
  BY DEF Init, MappingOK, AshmemReleased
<1>4. \A m \in Models : CounterOK(m)
  BY DEF Init, CounterOK, Vector
<1>5. QED
  BY <1>1, <1>2, <1>3, <1>4 DEF IInv, TypeOK

LEMMA NextIInv == IInv /\ [Next]_vars => IInv'
<1> SUFFICES ASSUME IInv, [Next]_vars PROVE IInv'
  OBVIOUS
<1>1. ASSUME NEW m \in Models, SetModelPool(m) PROVE IInv'
  <2>1. at[m].pc = "prepare" /\ Set(m, "model", "create", "derived")
        /\ UNCHANGED <<wanted, n, sModelInfo>>
    BY <1>1 DEF SetModelPool, At
  <2>2. "model" \in Vector /\ "create" \in PcType /\ "derived" \in PcType
    BY DEF Vector, PcType
  <2>3. QED
    BY <2>1, <2>2, SetKept
<1>2. ASSUME NEW m \in Models, SetRequestPool(m) PROVE IInv'
  <2>1. at[m].pc = "set" /\ Set(m, "request", "run", "idle")
        /\ UNCHANGED <<wanted, n, sModelInfo>>
    BY <1>2 DEF SetRequestPool, At
  <2>2. "request" \in Vector /\ "run" \in PcType /\ "idle" \in PcType
    BY DEF Vector, PcType
  <2>3. QED
    BY <2>1, <2>2, SetKept
<1>3. ASSUME NEW m \in Models,
             Deinitialize(m, "derived", "base") \/ Deinitialize(m, "base", "members")
      PROVE  IInv'
  <2>1. "derived" \in PcType /\ "base" \in PcType /\ "members" \in PcType
    BY DEF PcType
  <2>2. QED
    BY <1>3, <2>1, DeinitializeKept
<1>4. CASE UNCHANGED vars
  <2>1. UNCHANGED <<at, wanted, n, infos, sModelInfo, mapping>>
    BY <1>4 DEF vars
  <2>2. ThreadsOK' /\ InfosOK' /\ LengthsOK' /\ MappingOK'
    BY <2>1 DEF IInv, TypeOK, ThreadsOK, InfosOK, LengthsOK, MappingOK
  <2>3. AshmemReleased' /\ \A m \in Models : CounterOK(m)'
    BY <2>1 DEF IInv, AshmemReleased, CounterOK
  <2>4. QED
    BY <2>2, <2>3 DEF IInv, TypeOK
<1>5. QED
  BY <1>1, <1>2, <1>3, <1>4, PrepareKept, CreateFactoryKept, QuietKept, ExecuteKept,
     DestroyMembersKept, GetSupportedOperationsKept DEF Next, Quiescent

LEMMA InvariantHolds == Spec => []IInv
  BY InitIInv, NextIInv, PTL DEF Spec

\* The variables keep their types, and the loops over set() their bounds, for
\* any number of models, of executions and of pools.
THEOREM TypeCorrect == Spec => []TypeOK
<1>1. IInv => TypeOK
  BY DEF IInv, TypeOK, CounterOK, LoopsOK
<1>2. QED
  BY <1>1, InvariantHolds, PTL

\* A mapping of ashmem is never lost, however models and executions overlap,
\* fail and end: some RunTimePoolInfo holds its IMemory.
THEOREM AshmemNeverLost == Spec => []AshmemReleased
<1>1. IInv => AshmemReleased
  BY DEF IInv
<1>2. QED
  BY <1>1, InvariantHolds, PTL

-----------------------------------------------------------------------------
(* HeldUnmapped: what the first deinitialize() has passed is not mapped.   *)

\* The info j of m has been unmapped by the deinitialize() that is under way,
\* or by the first one.
Passed(m, j) ==
    \/ at[m].pc \in {"base", "members", "destroyed"}
    \/ at[m].pc = "derived" /\ j < at[m].k

HeldOK(m) ==
    \A j \in DOMAIN infos[m]["request"] :
        LET info == infos[m]["request"][j] IN
        Passed(m, j) /\ info.name = "mmap_fd" /\ info.buffer \in Pages =>
            mapping[info.buffer] = Free \/ mapping[info.buffer].model # m

HInv == IInv /\ \A m \in Models : HeldOK(m)

\* A thread that has not come to its destructors has passed nothing.
LEMMA HeldBefore ==
  ASSUME IInv', NEW m \in Models,
         \/ at'[m].pc \notin {"derived", "base", "members", "destroyed"}
         \/ at'[m].pc = "derived" /\ at'[m].k = 1
  PROVE  HeldOK(m)'
<1>1. infos'[m]["request"] \in Seq(InfoType)
  BY DEF IInv, TypeOK, InfosOK, Vector
<1>2. \A j \in DOMAIN infos'[m]["request"] : ~(j < 1)
  BY <1>1
<1>3. QED
  BY <1>2 DEF HeldOK, Passed

\* The steps of other models free pages of m, or map pages for themselves.
LEMMA HeldByOthers ==
  ASSUME NEW m \in Models, HeldOK(m), at'[m] = at[m],
         infos'[m]["request"] = infos[m]["request"] \/ infos'[m]["request"] = <<>>,
         \A p \in Pages : mapping'[p] = mapping[p] \/ mapping'[p] = Free \/ mapping'[p].model # m
  PROVE  HeldOK(m)'
  BY DEF HeldOK, Passed

\* A set() of d takes no mapping from m but frees, and gives m none.
LEMMA SetHeld ==
  ASSUME IInv, NEW d \in Models, NEW v \in Vector, NEW next \in PcType, NEW failed \in PcType,
         Set(d, v, next, failed)
  PROVE  /\ \A m \in Models : m # d => at'[m] = at[m] /\ infos'[m] = infos[m]
         /\ \A p \in Pages, m \in Models : m # d =>
              mapping'[p] = mapping[p] \/ mapping'[p] = Free \/ mapping'[p].model # m
         /\ at'[d].pc \in {at[d].pc, next, failed}
         /\ at'[d].pc = failed => at'[d].k = 1 \/ failed = at[d].pc \/ failed = next
<1> DEFINE k == at[d].k
           kind == wanted[d][k]
           info == infos[d][v][k]
           kept == IF kind = "ashmem" THEN Without(mapping, info.memory) ELSE mapping
<1>1. ThreadsOK /\ InfosOK /\ MappingOK /\ k \in Nat \ {0} /\ k + 1 \in Nat \ {0} /\ 1 \in Nat \ {0}
      /\ at[d].pc \in PcType
  BY DEF IInv, TypeOK, ThreadsOK
<1>2. kept \in [Pages -> PoolType \cup {Free}]
  BY <1>1, FreedType DEF MappingOK, Without
<1>3. \A p \in Pages : kept[p] = mapping[p] \/ kept[p] = Free
  BY <1>1 DEF MappingOK, Without
<1> HIDE DEF k, kind, info, kept
<1>4. ASSUME NEW page \in Pages,
             infos' = [infos EXCEPT ![d][v][k] = Mapped(info, kind, page)],
             mapping' = [kept EXCEPT ![page] = Pool(d, v, k, kind)],
             IF k < Len(wanted[d]) THEN Goto(d, at[d].pc, k + 1) ELSE Goto(d, next, 1)
      PROVE  /\ \A m \in Models : m # d => at'[m] = at[m] /\ infos'[m] = infos[m]
             /\ \A p \in Pages, m \in Models : m # d =>
                  mapping'[p] = mapping[p] \/ mapping'[p] = Free \/ mapping'[p].model # m
             /\ at'[d].pc \in {at[d].pc, next}
  <2>1. at'[d].pc \in {at[d].pc, next} /\ \A m \in Models : m # d => at'[m] = at[m]
    BY <1>1, <1>4, GotoType
  <2>2. \A m \in Models : m # d => infos'[m] = infos[m]
    BY <1>1, <1>4 DEF InfosOK
  <2>3. Pool(d, v, k, kind).model = d
    BY DEF Pool
  <2>4. \A p \in Pages : mapping'[p] = kept[p] \/ mapping'[p].model = d
    BY <1>2, <1>4, <2>3
  <2>5. QED
    BY <1>3, <2>1, <2>2, <2>4
<1>5. ASSUME infos' = [infos EXCEPT ![d][v][k] = NotMapped(info, kind)],
             mapping' = kept, Goto(d, failed, 1)
      PROVE  /\ \A m \in Models : m # d => at'[m] = at[m] /\ infos'[m] = infos[m]
             /\ \A p \in Pages : mapping'[p] = mapping[p] \/ mapping'[p] = Free
             /\ at'[d].pc = failed /\ at'[d].k = 1
  <2>1. at'[d].pc = failed /\ at'[d].k = 1 /\ \A m \in Models : m # d => at'[m] = at[m]
    BY <1>1, <1>5, GotoType
  <2>2. \A m \in Models : m # d => infos'[m] = infos[m]
    BY <1>1, <1>5 DEF InfosOK
  <2>3. QED
    BY <1>3, <1>5, <2>1, <2>2
<1>6. QED
  BY <1>4, <1>5 DEF Set, k, kind, info, kept

LEMMA SetHInv ==
  ASSUME HInv, IInv', NEW d \in Models, SetModelPool(d) \/ SetRequestPool(d)
  PROVE  HInv'
<1>1. PICK v \in Vector, next \in PcType, failed \in PcType :
        /\ Set(d, v, next, failed)
        /\ at[d].pc \in {"prepare", "set"} /\ next \in {"create", "run"}
        /\ failed \in {"derived", "idle"}
  <2>1. /\ "model" \in Vector /\ "request" \in Vector /\ "create" \in PcType /\ "run" \in PcType
        /\ "derived" \in PcType /\ "idle" \in PcType
    BY DEF Vector, PcType
  <2>2. QED
    BY <2>1 DEF SetModelPool, SetRequestPool, At
<1>2. /\ \A m \in Models : m # d => at'[m] = at[m] /\ infos'[m] = infos[m]
      /\ \A p \in Pages, m \in Models : m # d =>
           mapping'[p] = mapping[p] \/ mapping'[p] = Free \/ mapping'[p].model # m
      /\ at'[d].pc \in {at[d].pc, next, failed}
      /\ at'[d].pc = failed => at'[d].k = 1 \/ failed = at[d].pc \/ failed = next
  BY <1>1, SetHeld DEF HInv
<1>3. HeldOK(d)'
  BY <1>1, <1>2, HeldBefore
<1>4. ASSUME NEW m \in Models, m # d PROVE HeldOK(m)'
  BY <1>2, <1>4, HeldByOthers DEF HInv
<1>5. QED
  BY <1>3, <1>4 DEF HInv

\* The steps of a model's life before its destructors, and of a query.
LEMMA LifeHInv ==
  ASSUME HInv, IInv', NEW d \in Models,
         \/ Prepare(d) \/ CreateFactory(d) \/ Build(d)
         \/ Execute(d) \/ Answer(d) \/ Destroy(d)
  PROVE  HInv'
<1>1. ThreadsOK /\ InfosOK /\ MappingOK /\ IInv
  BY DEF HInv, IInv, TypeOK
<1>2. /\ \A m \in Models : m # d => at'[m] = at[m]
      /\ \/ at'[d].pc \notin {"derived", "base", "members", "destroyed"}
         \/ at'[d].pc = "derived" /\ at'[d].k = 1
  <2>1. PICK pc \in {"create", "prepare", "build", "idle", "derived", "set"} : Goto(d, pc, 1)
    BY DEF Prepare, CreateFactory, Build, Execute, Answer, Destroy
  <2>2. pc \in PcType /\ 1 \in Nat \ {0}
    BY DEF PcType
  <2>3. QED
    BY <1>1, <2>1, <2>2, GotoType
<1>3. \A m \in Models : m # d =>
        infos'[m]["request"] = infos[m]["request"] \/ infos'[m]["request"] = <<>>
  <2>1. CASE Prepare(d) \/ Execute(d)
    BY <1>1, <2>1 DEF Prepare, Execute, InfosOK
  <2>2. CASE CreateFactory(d)
    <3>1. CASE sModelInfo # NoModel /\ At(sModelInfo, "destroyed")
      <4>1. sModelInfo \in Models /\ ReleaseInfo(sModelInfo)
        BY <1>1, <2>2, <3>1 DEF CreateFactory, MappingOK
      <4>2. infos'[sModelInfo] = [v \in Vector |-> <<>>]
            /\ \A e \in Models : e # sModelInfo => infos'[e] = infos[e]
        BY <1>1, <4>1, ReleaseInfoKept
      <4>3. QED
        BY <4>2 DEF Vector
    <3>2. CASE ~(sModelInfo # NoModel /\ At(sModelInfo, "destroyed"))
      BY <2>2, <3>2 DEF CreateFactory
    <3>3. QED
      BY <3>1, <3>2
  <2>3. CASE Build(d) \/ Answer(d) \/ Destroy(d)
    BY <2>3 DEF Build, Answer, Destroy
  <2>4. QED
    BY <2>1, <2>2, <2>3
<1>4. \A p \in Pages : mapping'[p] = mapping[p] \/ mapping'[p] = Free
  <2>1. CASE Execute(d)
    BY <2>1 DEF Execute
  <2>2. CASE CreateFactory(d)
    BY <2>2 DEF CreateFactory, ReleaseInfo
  <2>3. CASE Prepare(d) \/ Build(d) \/ Answer(d) \/ Destroy(d)
    BY <2>3 DEF Prepare, Build, Answer, Destroy
  <2>4. QED
    BY <2>1, <2>2, <2>3
<1>5. HeldOK(d)'
  BY <1>2, HeldBefore
<1>6. ASSUME NEW m \in Models, m # d PROVE HeldOK(m)'
  BY <1>2, <1>3, <1>4, <1>6, HeldByOthers DEF HInv
<1>7. QED
  BY <1>5, <1>6 DEF HInv

\* One iteration of either deinitialize(): it passes the info it unmaps.
LEMMA DeinitializeHInv ==
  ASSUME HInv, IInv', NEW d \in Models, NEW pc \in PcType, NEW next \in PcType,
         \/ pc = "derived" /\ next = "base"
         \/ pc = "base" /\ next = "members",
         Deinitialize(d, pc, next)
  PROVE  HInv'
<1> DEFINE request == infos[d]["request"]
           k == at[d].k
<1>1. ThreadsOK /\ InfosOK /\ MappingOK /\ k \in Nat \ {0} /\ request \in Seq(InfoType)
  BY DEF HInv, IInv, TypeOK, ThreadsOK, InfosOK, Vector
<1>2. at[d].pc = pc /\ UNCHANGED infos
  BY DEF Deinitialize, At
<1>3. mapping' = (IF k \in DOMAIN request /\ Unmaps(request[k])
                  THEN Without(mapping, request[k].buffer) ELSE mapping)
  BY DEF Deinitialize
<1>4. \A p \in Pages : mapping'[p] = mapping[p] \/ mapping'[p] = Free
  BY <1>1, <1>3 DEF MappingOK, Without
<1>5. IF k < Len(request) THEN Goto(d, pc, k + 1) ELSE Goto(d, next, 1)
  BY DEF Deinitialize
<1>6. \A m \in Models : m # d => at'[m] = at[m]
  BY <1>1, <1>5, GotoType
<1>7. ASSUME NEW m \in Models, m # d PROVE HeldOK(m)'
  BY <1>2, <1>4, <1>6, <1>7, HeldByOthers DEF HInv
<1>8. HeldOK(d)'
  <2> SUFFICES ASSUME NEW j \in DOMAIN request, Passed(d, j)',
                      request[j].name = "mmap_fd", request[j].buffer \in Pages
               PROVE  mapping'[request[j].buffer] = Free \/ mapping'[request[j].buffer].model # d
    BY <1>2 DEF HeldOK
  <2>1. CASE j = k
    <3>1. Unmaps(request[k]) /\ k \in DOMAIN request
      BY <2>1 DEF Unmaps
    <3>2. mapping' = Without(mapping, request[j].buffer)
      BY <1>3, <2>1, <3>1
    <3>3. QED
      BY <3>2 DEF Without
  <2>2. CASE j # k
    <3>1. j \in 1 .. Len(request) /\ Len(request) \in Nat
      BY <1>1
    <3>2. Passed(d, j)
      <4>1. CASE pc = "base"
        BY <1>2, <4>1 DEF Passed
      <4>2. CASE pc = "derived" /\ k < Len(request)
        <5>1. k + 1 \in Nat \ {0} /\ at'[d].pc = "derived" /\ at'[d].k = k + 1
          BY <1>1, <1>5, <4>2, GotoType
        <5>2. j < k + 1
          BY <5>1 DEF Passed
        <5>3. QED
          BY <1>1, <1>2, <2>2, <3>1, <4>2, <5>2 DEF Passed
      <4>3. CASE pc = "derived" /\ ~(k < Len(request))
        <5>1. j < k
          BY <1>1, <2>2, <3>1, <4>3
        <5>2. QED
          BY <1>2, <4>3, <5>1 DEF Passed
      <4>4. QED
        BY <4>1, <4>2, <4>3
    <3>3. mapping[request[j].buffer] = Free \/ mapping[request[j].buffer].model # d
      BY <3>2 DEF HInv, HeldOK
    <3>4. QED
      BY <1>4, <3>3
  <2>3. QED
    BY <2>1, <2>2
<1>9. QED
  BY <1>7, <1>8 DEF HInv

LEMMA DestroyMembersHInv ==
  ASSUME HInv, IInv', NEW d \in Models, DestroyMembers(d)
  PROVE  HInv'
<1>1. ThreadsOK /\ InfosOK /\ MappingOK /\ IInv
  BY DEF HInv, IInv, TypeOK
<1>2. at[d].pc = "members" /\ at'[d].pc = "destroyed" /\ \A m \in Models : m # d => at'[m] = at[m]
  <2>1. "destroyed" \in PcType /\ 1 \in Nat \ {0}
    BY DEF PcType
  <2>2. QED
    BY <1>1, <2>1, GotoType DEF DestroyMembers, At
<1>3. CASE UNCHANGED <<infos, mapping>>
  <2>1. HeldOK(d)'
    BY <1>2, <1>3 DEF HInv, HeldOK, Passed
  <2>2. ASSUME NEW m \in Models, m # d PROVE HeldOK(m)'
    BY <1>2, <1>3, <2>2, HeldByOthers DEF HInv
  <2>3. QED
    BY <2>1, <2>2 DEF HInv
<1>4. CASE ReleaseInfo(d)
  <2>1. infos'[d] = [v \in Vector |-> <<>>] /\ \A e \in Models : e # d => infos'[e] = infos[e]
    BY <1>1, <1>4, ReleaseInfoKept
  <2>2. infos'[d]["request"] = <<>> /\ DOMAIN <<>> = {}
    BY <2>1 DEF Vector
  <2>3. HeldOK(d)'
    BY <2>2 DEF HeldOK
  <2>4. \A p \in Pages : mapping'[p] = mapping[p] \/ mapping'[p] = Free
    BY <1>4 DEF ReleaseInfo
  <2>5. ASSUME NEW m \in Models, m # d PROVE HeldOK(m)'
    BY <1>2, <2>1, <2>4, <2>5, HeldByOthers DEF HInv
  <2>6. QED
    BY <2>3, <2>5 DEF HInv
<1>5. QED
  BY <1>3, <1>4 DEF DestroyMembers

LEMMA QueryHInv ==
  ASSUME HInv, IInv', GetSupportedOperations
  PROVE  HInv'
<1>1. IInv /\ MappingOK
  BY DEF HInv, IInv, TypeOK
<1>2. UNCHANGED at
  BY DEF GetSupportedOperations
<1>3. \A p \in Pages : mapping'[p] = mapping[p] \/ mapping'[p] = Free
  BY DEF GetSupportedOperations, ReleaseInfo
<1>4. \A m \in Models :
        infos'[m]["request"] = infos[m]["request"] \/ infos'[m]["request"] = <<>>
  <2>1. CASE At(sModelInfo, "destroyed")
    <3>1. sModelInfo \in Models /\ ReleaseInfo(sModelInfo)
      BY <1>1, <2>1 DEF GetSupportedOperations, MappingOK
    <3>2. infos'[sModelInfo] = [v \in Vector |-> <<>>]
          /\ \A e \in Models : e # sModelInfo => infos'[e] = infos[e]
      BY <1>1, <3>1, ReleaseInfoKept
    <3>3. QED
      BY <3>2 DEF Vector
  <2>2. CASE ~At(sModelInfo, "destroyed")
    BY <2>2 DEF GetSupportedOperations
  <2>3. QED
    BY <2>1, <2>2
<1>5. ASSUME NEW m \in Models PROVE HeldOK(m)'
  BY <1>2, <1>3, <1>4, HeldByOthers DEF HInv
<1>6. QED
  BY <1>5 DEF HInv

LEMMA NextHInv == HInv /\ [Next]_vars => HInv'
<1> SUFFICES ASSUME HInv, [Next]_vars PROVE HInv'
  OBVIOUS
<1>1. IInv'
  BY NextIInv DEF HInv
<1>2. ASSUME NEW d \in Models,
             Deinitialize(d, "derived", "base") \/ Deinitialize(d, "base", "members")
      PROVE  HInv'
  <2>1. "derived" \in PcType /\ "base" \in PcType /\ "members" \in PcType
    BY DEF PcType
  <2>2. QED
    BY <1>1, <1>2, <2>1, DeinitializeHInv
<1>3. CASE UNCHANGED vars
  BY <1>1, <1>3 DEF HInv, HeldOK, Passed, vars
<1>4. QED
  BY <1>1, <1>2, <1>3, SetHInv, LifeHInv, DestroyMembersHInv, QueryHInv DEF Next, Quiescent

\* A destroyed model has unmapped every mmap_fd mapping that an info of its
\* request vector points to, whatever other models do meanwhile.  What its own
\* pools map is no part of it: unmapRuntimeMemPools() does not look at mPoolInfos.
THEOREM HeldIsUnmapped == Spec => []HeldUnmapped
<1>1. Init => HInv
  BY InitIInv DEF HInv, HeldOK, Init, Passed
<1>2. HInv => HeldUnmapped
  BY DEF HInv, HeldOK, HeldUnmapped, Passed
<1>3. QED
  BY <1>1, <1>2, NextHInv, PTL DEF Spec

-----------------------------------------------------------------------------
(* PointersKept.                                                           *)

\* An info other than this one still has its page.
Contested(m, v, k) ==
    \E d \in Models, w \in Vector : \E j \in DOMAIN infos[d][w] :
        <<d, w, j>> # <<m, v, k>> /\ Frees(d, w, j, infos[m][v][k].buffer)

\* A page that is free maps no pool.
LEMMA FreeIsNoPool ==
  ASSUME ThreadsOK, NEW m \in Models, NEW v \in Vector, NEW k \in Nat, NEW kind \in Kind
  PROVE  Pool(m, v, k, kind) # Free
<1>1. n[m] \in Nat
  BY PoolsAssumption DEF ThreadsOK
<1>2. Pool(m, v, k, kind) \in [model : Models, vector : Vector, n : Nat, k : Nat, kind : Kind]
  BY <1>1 DEF Pool
<1>3. QED
  BY <1>2, FreeAssumption

\* No info is in use outside the preparations and executions, and at the
\* beginning of a loop.
LEMMA NoneFilled ==
  ASSUME NEW m \in Models, NEW v \in Vector, InfosOK',
         \/ at'[m].pc \notin {"prepare", "create", "build", "set", "run"}
         \/ at'[m].pc \in {"prepare", "set"} /\ at'[m].k = 1
  PROVE  Filled(m, v)' = {}
<1>1. infos'[m][v] \in Seq(InfoType)
  BY DEF InfosOK
<1>2. \A k \in DOMAIN infos'[m][v] : ~(k < 1)
  BY <1>1
<1>3. QED
  BY <1>2 DEF Filled, Working

\* An info that is in use and left alone keeps its pool, if the pages that go
\* are those of other infos.
LEMMA Untouched ==
  ASSUME IInv, NEW m \in Models, NEW v \in Vector, NEW k \in Filled(m, v),
         infos'[m][v][k] = infos[m][v][k], wanted'[m] = wanted[m], n'[m] = n[m],
         \A p \in Pages :
            \/ mapping'[p] = mapping[p] \/ mapping[p] = Free
            \/ \E d \in Models, w \in Vector : \E j \in DOMAIN infos[d][w] :
                  <<d, w, j>> # <<m, v, k>> /\ Frees(d, w, j, p)
  PROVE  Kept(m, v, k)' \/ ~Kept(m, v, k) \/ Contested(m, v, k)
<1> SUFFICES ASSUME Kept(m, v, k), ~Contested(m, v, k) PROVE Kept(m, v, k)'
  OBVIOUS
<1> DEFINE p == infos[m][v][k].buffer
<1>1. p \in Pages /\ mapping[p] = Pool(m, v, k, wanted[m][k])
  BY DEF Kept
<1>2. mapping[p] # Free
  <2>1. infos[m][v] \in Seq(InfoType) /\ wanted[m] \in Seq(Kind) /\ ThreadsOK
    BY WantedType DEF IInv, TypeOK, InfosOK
  <2>2. k \in DOMAIN infos[m][v]
    BY DEF Filled
  <2>3. mapping[p] \in PoolType \cup {Free}
    BY <1>1 DEF IInv, TypeOK, MappingOK
  <2>4. CASE k \in DOMAIN wanted[m]
    <3>1. wanted[m][k] \in Kind /\ k \in Nat
      BY <2>1, <2>4
    <3>2. QED
      BY <1>1, <2>1, <3>1, FreeIsNoPool
  <2>5. CASE k \notin DOMAIN wanted[m]
    <3>1. Len(infos[m][v]) = Len(wanted[m])
      BY DEF Filled, Working, IInv, TypeOK, LengthsOK, Vector
    <3>2. QED
      BY <2>1, <2>2, <2>5, <3>1
  <2>6. QED
    BY <2>4, <2>5
<1>3. mapping'[p] = mapping[p]
  BY <1>1, <1>2 DEF Contested
<1>4. Pool(m, v, k, wanted[m][k])' = Pool(m, v, k, wanted[m][k])
  BY DEF Pool
<1>5. QED
  BY <1>1, <1>3, <1>4 DEF Kept

\* The pages of the IMemories that ReleaseInfo drops.
LEMMA ReleaseFrees ==
  ASSUME MappingOK, NEW e \in Models, ReleaseInfo(e), NEW p \in Pages
  PROVE  \/ mapping'[p] = mapping[p]
         \/ \E w \in Vector : \E j \in DOMAIN infos[e][w] : infos[e][w][j].memory = p
<1>1. mapping'[p] = mapping[p] \/ p \in Released(e)
  BY DEF ReleaseInfo
<1>2. "model" \in Vector /\ "request" \in Vector
  BY DEF Vector
<1>3. QED
  BY <1>1, <1>2 DEF Released, Memories

\* What a set() does: it fills the info at its counter, or fails.
SetDone(m, v, next, k, kind) ==
    \E page \in Pages :
        /\ mapping[page] = Free
        /\ infos'[m][v][k] = Mapped(infos[m][v][k], kind, page)
        /\ mapping'[page] = Pool(m, v, k, kind)
        /\ IF k < Len(wanted[m])
           THEN at'[m].pc = at[m].pc /\ at'[m].k = k + 1
           ELSE at'[m].pc = next

SetFailed(m, v, failed, k, kind) ==
    infos'[m][v][k] = NotMapped(infos[m][v][k], kind) /\ at'[m].pc = failed

LEMMA SetEffect ==
  ASSUME IInv, NEW m \in Models, NEW v \in Vector, NEW next \in PcType, NEW failed \in PcType,
         NEW k, k = at[m].k, k \in 1 .. Len(infos[m][v]),
         Set(m, v, next, failed)
  PROVE  /\ \/ SetDone(m, v, next, k, wanted[m][k])
            \/ SetFailed(m, v, failed, k, wanted[m][k])
         /\ \A d \in Models : d # m => at'[d] = at[d] /\ infos'[d] = infos[d]
         /\ \A w \in Vector : w # v => infos'[m][w] = infos[m][w]
         /\ DOMAIN infos'[m][v] = DOMAIN infos[m][v]
         /\ \A j \in DOMAIN infos[m][v] : j # k => infos'[m][v][j] = infos[m][v][j]
         /\ \A p \in Pages : \/ mapping'[p] = mapping[p] \/ mapping[p] = Free
                             \/ infos[m][v][k].memory = p /\ wanted[m][k] = "ashmem"
<1> DEFINE kind == wanted[m][k]
           info == infos[m][v][k]
           kept == IF kind = "ashmem" THEN Without(mapping, info.memory) ELSE mapping
<1>1. /\ InfosOK /\ infos[m] \in [Vector -> Seq(InfoType)] /\ infos[m][v] \in Seq(InfoType)
      /\ ThreadsOK /\ k \in Nat \ {0} /\ k + 1 \in Nat \ {0} /\ 1 \in Nat \ {0}
      /\ at[m].pc \in PcType
  BY DEF IInv, TypeOK, InfosOK, ThreadsOK
<1>2. /\ DOMAIN kept = Pages
      /\ \A p \in Pages : kept[p] = mapping[p] \/ (info.memory = p /\ kind = "ashmem")
  BY DEF IInv, TypeOK, MappingOK, Without
<1>3. ASSUME NEW new, infos' = [infos EXCEPT ![m][v][k] = new]
      PROVE  /\ \A d \in Models : d # m => infos'[d] = infos[d]
             /\ \A w \in Vector : w # v => infos'[m][w] = infos[m][w]
             /\ DOMAIN infos'[m][v] = DOMAIN infos[m][v]
             /\ infos'[m][v][k] = new
             /\ \A j \in DOMAIN infos[m][v] : j # k => infos'[m][v][j] = infos[m][v][j]
  <2>1. /\ infos'[m] = [infos[m] EXCEPT ![v][k] = new]
        /\ \A d \in Models : d # m => infos'[d] = infos[d]
    BY <1>1, <1>3 DEF InfosOK
  <2>2. /\ infos'[m][v] = [infos[m][v] EXCEPT ![k] = new]
        /\ \A w \in Vector : w # v => infos'[m][w] = infos[m][w]
    BY <1>1, <2>1
  <2>3. QED
    BY <1>1, <2>1, <2>2
<1> HIDE DEF kind, info, kept
<1>4. ASSUME NEW page \in Pages, mapping[page] = Free,
             infos' = [infos EXCEPT ![m][v][k] = Mapped(info, kind, page)],
             mapping' = [kept EXCEPT ![page] = Pool(m, v, k, kind)],
             IF k < Len(wanted[m]) THEN Goto(m, at[m].pc, k + 1) ELSE Goto(m, next, 1)
      PROVE  /\ SetDone(m, v, next, k, kind)
             /\ \A d \in Models : d # m => at'[d] = at[d]
             /\ \A p \in Pages : \/ mapping'[p] = mapping[p] \/ mapping[p] = Free
                                 \/ info.memory = p /\ kind = "ashmem"
  <2>1. infos'[m][v][k] = Mapped(info, kind, page)
    BY <1>3, <1>4
  <2>2. mapping'[page] = Pool(m, v, k, kind) /\ \A p \in Pages : p # page => mapping'[p] = kept[p]
    BY <1>2, <1>4
  <2>3. /\ IF k < Len(wanted[m]) THEN at'[m].pc = at[m].pc /\ at'[m].k = k + 1 ELSE at'[m].pc = next
        /\ \A d \in Models : d # m => at'[d] = at[d]
    BY <1>1, <1>4, GotoType
  <2>4. SetDone(m, v, next, k, kind)
    BY <1>4, <2>1, <2>2, <2>3 DEF SetDone, info
  <2>5. QED
    BY <1>2, <1>4, <2>2, <2>3, <2>4
<1>5. ASSUME infos' = [infos EXCEPT ![m][v][k] = NotMapped(info, kind)],
             mapping' = kept, Goto(m, failed, 1)
      PROVE  /\ SetFailed(m, v, failed, k, kind) /\ \A d \in Models : d # m => at'[d] = at[d]
             /\ \A p \in Pages : mapping'[p] = mapping[p] \/ (info.memory = p /\ kind = "ashmem")
  <2>1. at'[m].pc = failed /\ \A d \in Models : d # m => at'[d] = at[d]
    BY <1>1, <1>5, GotoType
  <2>2. infos'[m][v][k] = NotMapped(info, kind)
    BY <1>3, <1>5
  <2>3. QED
    BY <1>2, <1>5, <2>1, <2>2 DEF SetFailed, info
<1>6. CASE \E page \in Pages :
              /\ mapping[page] = Free
              /\ infos' = [infos EXCEPT ![m][v][k] = Mapped(info, kind, page)]
              /\ mapping' = [kept EXCEPT ![page] = Pool(m, v, k, kind)]
              /\ IF k < Len(wanted[m]) THEN Goto(m, at[m].pc, k + 1) ELSE Goto(m, next, 1)
  BY <1>3, <1>4, <1>6 DEF kind, info
<1>7. CASE /\ infos' = [infos EXCEPT ![m][v][k] = NotMapped(info, kind)]
           /\ mapping' = kept /\ Goto(m, failed, 1)
  BY <1>3, <1>5, <1>7 DEF kind, info
<1>8. QED
  BY <1>6, <1>7 DEF Set, kind, info, kept

\* A loop over set(): the info at its counter maps its pool now, and the ones
\* before it are left alone.
LEMMA SetPointers ==
  ASSUME IInv, IInv', NEW m \in Models, NEW v \in Vector, NEW next \in PcType,
         NEW failed \in PcType,
         \/ at[m].pc = "prepare" /\ v = "model" /\ next = "create" /\ failed = "derived"
         \/ at[m].pc = "set" /\ v = "request" /\ next = "run" /\ failed = "idle",
         Set(m, v, next, failed), UNCHANGED <<wanted, n>>,
         NEW w \in Vector, NEW j \in Filled(m, w)'
  PROVE  \/ Kept(m, w, j)'
         \/ j \in Filled(m, w) /\ (~Kept(m, w, j) \/ Contested(m, w, j))
<1>1. PICK k : k = at[m].k
  OBVIOUS
<1>2. /\ k \in 1 .. Len(infos[m][v]) /\ k \in Nat \ {0} /\ Len(wanted[m]) = Len(infos[m][v])
      /\ infos[m][v] \in Seq(InfoType) /\ wanted[m] \in Seq(Kind)
      /\ DOMAIN infos[m][v] = 1 .. Len(infos[m][v])
  BY <1>1, WantedType DEF IInv, TypeOK, LengthsOK, ThreadsOK, CounterOK, InfosOK
<1>3. /\ SetDone(m, v, next, k, wanted[m][k]) \/ SetFailed(m, v, failed, k, wanted[m][k])
      /\ DOMAIN infos'[m][v] = DOMAIN infos[m][v]
      /\ \A i \in DOMAIN infos[m][v] : i # k => infos'[m][v][i] = infos[m][v][i]
      /\ \A p \in Pages : \/ mapping'[p] = mapping[p] \/ mapping[p] = Free
                          \/ infos[m][v][k].memory = p
  BY <1>1, <1>2, SetEffect
<1>4. w = v /\ SetDone(m, v, next, k, wanted[m][k]) /\ j \in DOMAIN infos[m][v]
  <2>1. at'[m].pc \in IF w = "model" THEN {"prepare", "create", "build"} ELSE {"set", "run"}
    BY DEF Filled, Working
  <2>2. j \in DOMAIN infos'[m][w]
    BY DEF Filled
  <2>3. at'[m].pc # failed
    BY <2>1
  <2>4. SetDone(m, v, next, k, wanted[m][k])
    BY <1>3, <2>3 DEF SetFailed
  <2>5. at'[m].pc \in {at[m].pc, next}
    BY <2>4 DEF SetDone
  <2>6. w = v
    BY <2>1, <2>5 DEF Vector
  <2>7. QED
    BY <1>3, <2>2, <2>4, <2>6
<1>5. CASE j = k
  <2>1. PICK page \in Pages :
          infos'[m][v][k].buffer = page /\ mapping'[page] = Pool(m, v, k, wanted[m][k])
    BY <1>4 DEF SetDone, Mapped
  <2>2. Pool(m, v, k, wanted[m][k])' = Pool(m, v, k, wanted[m][k])
    BY DEF Pool
  <2>3. QED
    BY <1>4, <1>5, <2>1, <2>2 DEF Kept
<1>6. CASE j # k
  <2>1. j \in Filled(m, w)
    <3>1. j < k
      <4>1. CASE k < Len(wanted[m])
        <5>1. at'[m].pc \in {"prepare", "set"} /\ at'[m].k = k + 1
          BY <1>4, <4>1 DEF SetDone
        <5>2. j < k + 1
          BY <5>1 DEF Filled
        <5>3. QED
          BY <1>2, <1>4, <1>6, <5>2
      <4>2. CASE ~(k < Len(wanted[m]))
        BY <1>2, <1>4, <1>6, <4>2
      <4>3. QED
        BY <4>1, <4>2
    <3>2. QED
      BY <1>1, <1>4, <3>1 DEF Filled, Working
  <2>2. infos'[m][w][j] = infos[m][w][j]
    BY <1>3, <1>4, <1>6
  <2>3. ASSUME NEW p \in Pages
        PROVE  \/ mapping'[p] = mapping[p] \/ mapping[p] = Free
               \/ \E d \in Models, x \in Vector : \E i \in DOMAIN infos[d][x] :
                     <<d, x, i>> # <<m, w, j>> /\ Frees(d, x, i, p)
    BY <1>2, <1>3, <1>4, <1>6 DEF Frees
  <2>4. QED
    BY <2>1, <2>2, <2>3, Untouched
<1>7. QED
  BY <1>5, <1>6

\* The model whose NnapiModelInfo a new factory or a query drops.
LEMMA DropFrees ==
  ASSUME IInv,
         IF sModelInfo # NoModel /\ At(sModelInfo, "destroyed")
         THEN ReleaseInfo(sModelInfo) ELSE UNCHANGED <<infos, mapping>>
  PROVE  /\ \A m \in Models : at[m].pc # "destroyed" => infos'[m] = infos[m]
         /\ \A p \in Pages :
              \/ mapping'[p] = mapping[p]
              \/ \E e \in Models, w \in Vector : \E j \in DOMAIN infos[e][w] :
                    at[e].pc = "destroyed" /\ infos[e][w][j].memory = p
<1>1. CASE UNCHANGED <<infos, mapping>>
  BY <1>1
<1>2. CASE sModelInfo # NoModel /\ At(sModelInfo, "destroyed") /\ ReleaseInfo(sModelInfo)
  <2>1. sModelInfo \in Models /\ at[sModelInfo].pc = "destroyed" /\ MappingOK /\ InfosOK
    BY <1>2 DEF At, IInv, TypeOK, MappingOK
  <2>2. \A m \in Models : m # sModelInfo => infos'[m] = infos[m]
    BY <1>2, <2>1 DEF ReleaseInfo, InfosOK
  <2>3. QED
    BY <1>2, <2>1, <2>2, ReleaseFrees
<1>3. QED
  BY <1>1, <1>2

\* What the step of d frees, and what it leaves alone: the infos of the models
\* that are not destroyed.
LEMMA StepEffect ==
  ASSUME IInv, NEW d \in Models,
         \/ Prepare(d) \/ SetModelPool(d) \/ CreateFactory(d) \/ Build(d)
         \/ Execute(d) \/ SetRequestPool(d) \/ Answer(d) \/ Destroy(d)
         \/ Deinitialize(d, "derived", "base") \/ Deinitialize(d, "base", "members")
         \/ DestroyMembers(d)
  PROVE  /\ \A m \in Models : m # d =>
              /\ at'[m] = at[m] /\ wanted'[m] = wanted[m] /\ n'[m] = n[m]
              /\ at[m].pc # "destroyed" => infos'[m] = infos[m]
         /\ \A p \in Pages :
              \/ mapping'[p] = mapping[p] \/ mapping[p] = Free
              \/ \E e \in Models, w \in Vector : \E j \in DOMAIN infos[e][w] :
                    (e = d \/ at[e].pc = "destroyed") /\ Frees(e, w, j, p)
<1>1. ThreadsOK /\ InfosOK /\ MappingOK /\ LengthsOK
  BY DEF IInv, TypeOK
<1>2. ASSUME NEW pc \in PcType, NEW k \in Nat \ {0}, Goto(d, pc, k)
      PROVE  \A m \in Models : m # d => at'[m] = at[m]
  BY <1>1, <1>2, GotoType
<1>3. /\ {"create", "prepare", "build", "idle", "derived", "set", "base", "members", "destroyed"}
          \subseteq PcType
      /\ 1 \in Nat \ {0} /\ at[d].k + 1 \in Nat \ {0}
  BY <1>1 DEF PcType, ThreadsOK
<1>4. CASE Prepare(d) \/ Execute(d)
  <2>1. \E pc \in PcType : Goto(d, pc, 1)
    BY <1>3, <1>4 DEF Prepare, Execute
  <2>2. \A m \in Models : m # d => at'[m] = at[m]
    BY <1>2, <1>3, <2>1
  <2>3. \A m \in Models : m # d => wanted'[m] = wanted[m] /\ n'[m] = n[m] /\ infos'[m] = infos[m]
    BY <1>1, <1>4 DEF Prepare, Execute, ThreadsOK, InfosOK
  <2>4. ASSUME NEW p \in Pages
        PROVE  mapping'[p] = mapping[p]
               \/ \E j \in DOMAIN infos[d]["request"] : infos[d]["request"][j].memory = p
    <3>1. CASE UNCHANGED mapping
      BY <3>1
    <3>2. CASE Execute(d)
      BY <3>2 DEF Execute, Memories
    <3>3. QED
      BY <1>4, <3>1, <3>2 DEF Prepare
  <2>5. "request" \in Vector
    BY DEF Vector
  <2>6. QED
    BY <2>2, <2>3, <2>4, <2>5 DEF Frees
<1>5. ASSUME NEW v \in Vector, NEW next \in PcType, NEW failed \in PcType,
             \/ at[d].pc = "prepare" /\ v = "model"
             \/ at[d].pc = "set" /\ v = "request",
             Set(d, v, next, failed), UNCHANGED <<wanted, n>>
      PROVE  /\ \A m \in Models : m # d =>
                  /\ at'[m] = at[m] /\ wanted'[m] = wanted[m] /\ n'[m] = n[m]
                  /\ infos'[m] = infos[m]
             /\ \A p \in Pages :
                  \/ mapping'[p] = mapping[p] \/ mapping[p] = Free
                  \/ \E w \in Vector : \E j \in DOMAIN infos[d][w] : Frees(d, w, j, p)
  <2>1. PICK k : k = at[d].k
    OBVIOUS
  <2>2. k \in 1 .. Len(infos[d][v]) /\ k \in DOMAIN infos[d][v]
    <3>1. infos[d][v] \in Seq(InfoType)
      BY <1>1 DEF InfosOK
    <3>2. k \in 1 .. Len(infos[d][v])
      BY <1>1, <1>5, <2>1 DEF IInv, CounterOK, LengthsOK
    <3>3. QED
      BY <3>1, <3>2
  <2>3. /\ \A m \in Models : m # d => at'[m] = at[m] /\ infos'[m] = infos[m]
        /\ \A p \in Pages : \/ mapping'[p] = mapping[p] \/ mapping[p] = Free
                            \/ infos[d][v][k].memory = p
    BY <1>5, <2>1, <2>2, SetEffect
  <2>4. QED
    BY <1>5, <2>2, <2>3 DEF Frees
<1>6. CASE SetModelPool(d) \/ SetRequestPool(d)
  <2>1. "model" \in Vector /\ "request" \in Vector /\ "run" \in PcType
    BY DEF Vector, PcType
  <2>2. QED
    BY <1>3, <1>5, <1>6, <2>1 DEF SetModelPool, SetRequestPool, At
<1>7. CASE CreateFactory(d)
  <2>1. \A m \in Models : m # d => at'[m] = at[m]
    BY <1>2, <1>3, <1>7 DEF CreateFactory
  <2>2. UNCHANGED <<wanted, n>>
    BY <1>7 DEF CreateFactory
  <2>3. /\ \A m \in Models : at[m].pc # "destroyed" => infos'[m] = infos[m]
        /\ \A p \in Pages :
             \/ mapping'[p] = mapping[p]
             \/ \E e \in Models, w \in Vector : \E j \in DOMAIN infos[e][w] :
                   at[e].pc = "destroyed" /\ infos[e][w][j].memory = p
    BY <1>7, DropFrees DEF CreateFactory
  <2>4. QED
    BY <2>1, <2>2, <2>3 DEF Frees
<1>8. CASE Build(d) \/ Answer(d) \/ Destroy(d)
  <2>1. UNCHANGED <<wanted, n, infos, mapping>> /\ \E pc \in PcType : Goto(d, pc, 1)
    BY <1>3, <1>8 DEF Build, Answer, Destroy
  <2>2. QED
    BY <1>2, <1>3, <2>1
<1>9. CASE Deinitialize(d, "derived", "base") \/ Deinitialize(d, "base", "members")
  <2>1. UNCHANGED <<wanted, n, infos>> /\ \E pc \in PcType, k \in Nat \ {0} : Goto(d, pc, k)
    BY <1>3, <1>9 DEF Deinitialize
  <2>2. ASSUME NEW p \in Pages, mapping'[p] # mapping[p]
        PROVE  at[d].k \in DOMAIN infos[d]["request"] /\ Frees(d, "request", at[d].k, p)
    BY <1>1, <1>9, <2>2 DEF Deinitialize, At, Without, MappingOK, Frees
  <2>3. "request" \in Vector
    BY DEF Vector
  <2>4. QED
    BY <1>2, <2>1, <2>2, <2>3
<1>10. CASE DestroyMembers(d)
  <2>1. UNCHANGED <<wanted, n>> /\ \A m \in Models : m # d => at'[m] = at[m]
    BY <1>2, <1>3, <1>10 DEF DestroyMembers
  <2>2. CASE UNCHANGED <<infos, mapping>>
    BY <2>1, <2>2
  <2>3. CASE ReleaseInfo(d)
    <3>1. \A m \in Models : m # d => infos'[m] = infos[m]
      BY <1>1, <2>3 DEF ReleaseInfo, InfosOK
    <3>2. QED
      BY <1>1, <2>1, <2>3, <3>1, ReleaseFrees DEF Frees
  <2>4. QED
    BY <1>10, <2>2, <2>3 DEF DestroyMembers
<1>11. QED
  BY <1>4, <1>6, <1>7, <1>8, <1>9, <1>10

\* The steps of d that are not a loop over set() leave d with no info in use, or
\* build the graph.
LEMMA OwnStep ==
  ASSUME IInv, IInv', NEW d \in Models,
         \/ Prepare(d) \/ Build(d) \/ Execute(d) \/ Answer(d) \/ Destroy(d)
         \/ Deinitialize(d, "derived", "base") \/ Deinitialize(d, "base", "members")
         \/ DestroyMembers(d),
         NEW v \in Vector
  PROVE  Filled(d, v)' = {}
<1>1. ThreadsOK /\ InfosOK /\ InfosOK' /\ 1 \in Nat \ {0} /\ at[d].k + 1 \in Nat \ {0}
  BY DEF IInv, TypeOK, ThreadsOK
<1>2. {"create", "prepare", "idle", "derived", "set", "base", "members", "destroyed"}
        \subseteq PcType
  BY DEF PcType
<1>3. CASE \E pc \in {"idle", "derived", "base", "members", "destroyed"}, k \in Nat \ {0} :
             Goto(d, pc, k)
  <2>1. at'[d].pc \notin {"prepare", "create", "build", "set", "run"}
    BY <1>1, <1>2, <1>3, GotoType
  <2>2. QED
    BY <1>1, <2>1, NoneFilled
<1>4. CASE \E pc \in {"prepare", "set"} : Goto(d, pc, 1)
  <2>1. at'[d].pc \in {"prepare", "set"} /\ at'[d].k = 1
    BY <1>1, <1>2, <1>4, GotoType
  <2>2. QED
    BY <1>1, <2>1, NoneFilled
<1>5. CASE Prepare(d) /\ Goto(d, "create", 1)
  <2>1. at'[d].pc = "create"
    BY <1>1, <1>2, <1>5, GotoType
  <2>2. PICK pools \in ModelPools :
          /\ wanted' = [wanted EXCEPT ![d] = pools]
          /\ Goto(d, IF pools = <<>> THEN "create" ELSE "prepare", 1)
    BY <1>5 DEF Prepare
  <2>3. pools = <<>>
    <3>1. CASE pools # <<>>
      <4>1. Goto(d, "prepare", 1)
        BY <2>2, <3>1
      <4>2. at'[d].pc = "prepare"
        BY <1>1, <1>2, <4>1, GotoType
      <4>3. QED
        BY <2>1, <4>2
    <3>2. QED
      BY <3>1
  <2>4. wanted'[d] = <<>>
    BY <1>1, <2>2, <2>3 DEF ThreadsOK
  <2>5. Len(infos'[d]["model"]) = 0
    BY <2>1, <2>4 DEF IInv, TypeOK, LengthsOK
  <2>6. DOMAIN infos'[d]["model"] = {}
    <3>1. infos'[d]["model"] \in Seq(InfoType)
      BY <1>1 DEF InfosOK, Vector
    <3>2. QED
      BY <2>5, <3>1
  <2>7. CASE v = "model"
    BY <2>6, <2>7 DEF Filled
  <2>8. CASE v = "request"
    BY <2>1, <2>8 DEF Filled, Working
  <2>9. QED
    BY <2>7, <2>8 DEF Vector
<1>6. CASE Prepare(d)
  <2>1. Goto(d, "create", 1) \/ Goto(d, "prepare", 1)
    BY <1>6 DEF Prepare
  <2>2. QED
    BY <1>4, <1>5, <1>6, <2>1
<1>7. CASE Build(d) \/ Answer(d) \/ Destroy(d) \/ DestroyMembers(d)
  BY <1>1, <1>3, <1>7 DEF Build, Answer, Destroy, DestroyMembers
<1>8. CASE Execute(d)
  BY <1>4, <1>8 DEF Execute
<1>9. CASE Deinitialize(d, "derived", "base") \/ Deinitialize(d, "base", "members")
  BY <1>1, <1>3, <1>9 DEF Deinitialize
<1>10. QED
  BY <1>6, <1>7, <1>8, <1>9

\* The infos in use of a model that does not move, or whose graph is made.
LEMMA StandsOrLoses ==
  ASSUME IInv, NEW m \in Models, NEW v \in Vector, NEW k \in Filled(m, v)',
         at'[m] = at[m] \/ (at[m].pc = "create" /\ at'[m].pc = "build"),
         wanted'[m] = wanted[m], n'[m] = n[m],
         at[m].pc # "destroyed" => infos'[m] = infos[m],
         \A p \in Pages :
              \/ mapping'[p] = mapping[p] \/ mapping[p] = Free
              \/ \E e \in Models, w \in Vector : \E j \in DOMAIN infos[e][w] :
                    e # m /\ Frees(e, w, j, p)
  PROVE  Kept(m, v, k)' \/ (k \in Filled(m, v) /\ (~Kept(m, v, k) \/ Contested(m, v, k)))
<1>1. at[m].pc # "destroyed"
  BY DEF Filled, Working
<1>2. k \in Filled(m, v)
  BY <1>1 DEF Filled, Working
<1>3. ASSUME NEW p \in Pages
      PROVE  \/ mapping'[p] = mapping[p] \/ mapping[p] = Free
             \/ \E e \in Models, w \in Vector : \E j \in DOMAIN infos[e][w] :
                   <<e, w, j>> # <<m, v, k>> /\ Frees(e, w, j, p)
  OBVIOUS
<1>4. QED
  BY <1>1, <1>2, <1>3, Untouched

\* PointersKept, of one step.
PointersStep ==
    \A m \in Models, v \in Vector : \A k \in Filled(m, v)' :
        Kept(m, v, k)' \/ (k \in Filled(m, v) /\ (~Kept(m, v, k) \/ Contested(m, v, k)))

LEMMA NextPointers ==
  ASSUME IInv, IInv', Next
  PROVE  PointersStep
<1> SUFFICES ASSUME NEW m \in Models, NEW v \in Vector, NEW k \in Filled(m, v)'
             PROVE  Kept(m, v, k)' \/ (k \in Filled(m, v) /\ (~Kept(m, v, k) \/ Contested(m, v, k)))
  BY DEF PointersStep
<1> DEFINE Step(d) ==
      \/ Prepare(d) \/ SetModelPool(d) \/ CreateFactory(d) \/ Build(d)
      \/ Execute(d) \/ SetRequestPool(d) \/ Answer(d) \/ Destroy(d)
      \/ Deinitialize(d, "derived", "base") \/ Deinitialize(d, "base", "members")
      \/ DestroyMembers(d)
<1>1. ASSUME NEW d \in Models, d # m, Step(d)
      PROVE  Kept(m, v, k)' \/ (k \in Filled(m, v) /\ (~Kept(m, v, k) \/ Contested(m, v, k)))
  <2>1. /\ at'[m] = at[m] /\ wanted'[m] = wanted[m] /\ n'[m] = n[m]
        /\ at[m].pc # "destroyed" => infos'[m] = infos[m]
    BY <1>1, StepEffect
  <2>2. at[m].pc # "destroyed"
    BY <2>1 DEF Filled, Working
  <2>3. ASSUME NEW p \in Pages
        PROVE  \/ mapping'[p] = mapping[p] \/ mapping[p] = Free
               \/ \E e \in Models, w \in Vector : \E j \in DOMAIN infos[e][w] :
                     e # m /\ Frees(e, w, j, p)
    <3>1. \/ mapping'[p] = mapping[p] \/ mapping[p] = Free
          \/ \E e \in Models, w \in Vector : \E j \in DOMAIN infos[e][w] :
                (e = d \/ at[e].pc = "destroyed") /\ Frees(e, w, j, p)
      BY <1>1, StepEffect
    <3>2. QED
      BY <1>1, <2>2, <3>1
  <2>4. QED
    BY <2>1, <2>3, StandsOrLoses
<1>2. CASE SetModelPool(m) \/ SetRequestPool(m)
  <2>1. /\ "model" \in Vector /\ "request" \in Vector
        /\ {"create", "derived", "run", "idle"} \subseteq PcType
    BY DEF Vector, PcType
  <2>2. QED
    BY <1>2, <2>1, SetPointers DEF SetModelPool, SetRequestPool, At
<1>3. CASE CreateFactory(m)
  <2>1. at[m].pc = "create" /\ at'[m].pc = "build" /\ UNCHANGED <<wanted, n>>
    <3>1. ThreadsOK /\ "build" \in PcType /\ 1 \in Nat \ {0}
      BY DEF IInv, TypeOK, PcType
    <3>2. QED
      BY <1>3, <3>1, GotoType DEF CreateFactory, At
  <2>2. /\ \A e \in Models : at[e].pc # "destroyed" => infos'[e] = infos[e]
        /\ \A p \in Pages :
             \/ mapping'[p] = mapping[p]
             \/ \E e \in Models, w \in Vector : \E j \in DOMAIN infos[e][w] :
                   at[e].pc = "destroyed" /\ infos[e][w][j].memory = p
    BY <1>3, DropFrees DEF CreateFactory
  <2>3. ASSUME NEW p \in Pages
        PROVE  \/ mapping'[p] = mapping[p] \/ mapping[p] = Free
               \/ \E e \in Models, w \in Vector : \E j \in DOMAIN infos[e][w] :
                     e # m /\ Frees(e, w, j, p)
    BY <2>1, <2>2 DEF Frees
  <2>4. QED
    BY <2>1, <2>2, <2>3, StandsOrLoses
<1>4. CASE \/ Prepare(m) \/ Build(m) \/ Execute(m) \/ Answer(m) \/ Destroy(m)
           \/ Deinitialize(m, "derived", "base") \/ Deinitialize(m, "base", "members")
           \/ DestroyMembers(m)
  BY <1>4, OwnStep
<1>5. CASE GetSupportedOperations
  <2>1. UNCHANGED <<at, wanted, n>>
    BY <1>5 DEF GetSupportedOperations
  <2>2. /\ \A e \in Models : at[e].pc # "destroyed" => infos'[e] = infos[e]
        /\ \A p \in Pages :
             \/ mapping'[p] = mapping[p]
             \/ \E e \in Models, w \in Vector : \E j \in DOMAIN infos[e][w] :
                   at[e].pc = "destroyed" /\ infos[e][w][j].memory = p
    BY <1>5, DropFrees DEF GetSupportedOperations
  <2>3. at[m].pc # "destroyed"
    BY <2>1 DEF Filled, Working
  <2>4. ASSUME NEW p \in Pages
        PROVE  \/ mapping'[p] = mapping[p] \/ mapping[p] = Free
               \/ \E e \in Models, w \in Vector : \E j \in DOMAIN infos[e][w] :
                     e # m /\ Frees(e, w, j, p)
    BY <2>2, <2>3 DEF Frees
  <2>5. QED
    BY <2>1, <2>2, <2>4, StandsOrLoses
<1>6. CASE Quiescent
  <2>1. UNCHANGED <<at, wanted, n, infos, mapping>>
    BY <1>6 DEF Quiescent, vars
  <2>2. QED
    BY <2>1, StandsOrLoses
<1>7. ASSUME NEW d \in Models, Step(d)
      PROVE  Kept(m, v, k)' \/ (k \in Filled(m, v) /\ (~Kept(m, v, k) \/ Contested(m, v, k)))
  <2>1. CASE d = m
    BY <1>2, <1>3, <1>4, <1>7, <2>1
  <2>2. CASE d # m
    BY <1>1, <1>7, <2>2
  <2>3. QED
    BY <2>1, <2>2
<1>8. QED
  BY <1>5, <1>6, <1>7 DEF Next

\* For any number of models, pools, pages and executions, overlapping or not: an
\* info that is in use keeps its pool mapped, and loses it only to another info
\* that still has the same page.
THEOREM PointersStay == Spec => PointersKept
<1>1. ASSUME IInv, IInv', [Next]_vars
      PROVE  [\A m \in Models, v \in Vector :
                \A k \in Filled(m, v)' :
                   \/ Kept(m, v, k)'
                   \/ /\ k \in Filled(m, v)
                      /\ \/ ~Kept(m, v, k)
                         \/ \E d \in Models, w \in Vector : \E j \in DOMAIN infos[d][w] :
                               /\ <<d, w, j>> # <<m, v, k>>
                               /\ Frees(d, w, j, infos[m][v][k].buffer)]_vars
  <2>1. CASE Next
    BY <1>1, <2>1, NextPointers DEF PointersStep, Contested
  <2>2. QED
    BY <1>1, <2>1
<1>2. QED
  BY <1>1, InvariantHolds, PTL DEF Spec, PointersKept

-----------------------------------------------------------------------------
(* Models that do not overlap: no pointer is lost.                         *)

Alive(m) == at[m].pc \notin {"none", "destroyed"}

OneAlive == \A d, m \in Models : Alive(d) /\ Alive(m) => d = m

\* An IMemory is that of the pool its info was given.
MemoryTrue(d, w, j) ==
    LET page == infos[d][w][j].memory IN
    page # Null =>
        /\ mapping[page] # Free /\ mapping[page].kind = "ashmem"
        /\ mapping[page].model = d /\ mapping[page].vector = w /\ mapping[page].k = j

\* A page that deinitialize() will unmap is that of the pool the info was given,
\* until it is unmapped for the first time.
BufferTrue(d, j) ==
    LET info == infos[d]["request"][j] IN
    Unmaps(info) /\ at[d].pc \notin {"members", "destroyed"} =>
        \/ /\ mapping[info.buffer] # Free /\ mapping[info.buffer].kind = "mmap_fd"
           /\ mapping[info.buffer].model = d /\ mapping[info.buffer].vector = "request"
           /\ mapping[info.buffer].k = j
        \/ mapping[info.buffer] = Free /\ at[d].pc \in {"derived", "base"}

FilledKept == \A m \in Models, v \in Vector : \A k \in Filled(m, v) : Kept(m, v, k)

MemoriesTrue == \A d \in Models, w \in Vector : \A j \in DOMAIN infos[d][w] : MemoryTrue(d, w, j)
BuffersTrue  == \A d \in Models : \A j \in DOMAIN infos[d]["request"] : BufferTrue(d, j)

SerialInv == IInv /\ OneAlive /\ MemoriesTrue /\ BuffersTrue /\ FilledKept

\* No page is another info's.
LEMMA NotContested ==
  ASSUME SerialInv, NEW m \in Models, NEW v \in Vector, NEW k \in Filled(m, v)
  PROVE  ~Contested(m, v, k)
<1> SUFFICES ASSUME NEW d \in Models, NEW w \in Vector, NEW j \in DOMAIN infos[d][w],
                    <<d, w, j>> # <<m, v, k>>, Frees(d, w, j, infos[m][v][k].buffer)
             PROVE  FALSE
  BY DEF Contested
<1> DEFINE p == infos[m][v][k].buffer
<1>1. p \in Pages /\ mapping[p] = Pool(m, v, k, wanted[m][k])
  BY DEF SerialInv, FilledKept, Kept
<1>2. mapping[p].model = m /\ mapping[p].vector = v /\ mapping[p].k = k
  BY <1>1 DEF Pool
<1>3. at[m].pc \notin {"none", "destroyed", "derived", "base"}
  BY DEF Filled, Working
<1>4. CASE infos[d][w][j].memory = p
  BY <1>1, <1>2, <1>4, PointersAssumption DEF SerialInv, MemoriesTrue, MemoryTrue
<1>5. CASE /\ w = "request" /\ at[d].pc \notin {"members", "destroyed"}
           /\ Unmaps(infos[d][w][j]) /\ infos[d][w][j].buffer = p
  <2>1. \/ mapping[p].model = d /\ mapping[p].vector = w /\ mapping[p].k = j
        \/ mapping[p] = Free /\ at[d].pc \in {"derived", "base"}
    BY <1>5 DEF SerialInv, BuffersTrue, BufferTrue
  <2>2. CASE at[d].pc \in {"derived", "base"}
    <3>1. d = m
      BY <1>3, <2>2 DEF SerialInv, OneAlive, Alive
    <3>2. QED
      BY <1>3, <2>2, <3>1
  <2>3. QED
    BY <1>2, <2>1, <2>2
<1>6. QED
  BY <1>4, <1>5 DEF Frees

\* The infos that a step leaves alone stay true, if the pages that it frees are
\* those of IMemories that go, or one that deinitialize() comes to.
LEMMA TrueStays ==
  ASSUME SerialInv,
         NEW e \in Models, NEW w \in Vector, NEW j \in DOMAIN infos[e][w],
         infos'[e][w][j] = infos[e][w][j],
         \A p \in Pages :
            \/ mapping'[p] = mapping[p]
            \/ /\ mapping[p] = Free
               /\ \A d \in Models : at[d].pc \notin {"derived", "base"}
            \/ \E d \in Models, x \in Vector : \E i \in DOMAIN infos[d][x] :
                  <<d, x, i>> # <<e, w, j>> /\ infos[d][x][i].memory = p
            \/ /\ mapping'[p] = Free
               /\ \E d \in Models : \E i \in DOMAIN infos[d]["request"] :
                    /\ at[d].pc \in {"derived", "base"}
                    /\ Unmaps(infos[d]["request"][i]) /\ infos[d]["request"][i].buffer = p,
         at[e].pc \in {"members", "destroyed"} => at'[e].pc \in {"members", "destroyed"},
         at[e].pc \in {"derived", "base"} => at'[e].pc \in {"derived", "base", "members"}
  PROVE  MemoryTrue(e, w, j)' /\ (w = "request" => BufferTrue(e, j)')
<1>1. ASSUME NEW p \in Pages, NEW d \in Models, NEW x \in Vector, NEW i \in DOMAIN infos[d][x],
             infos[d][x][i].memory = p
      PROVE  /\ mapping[p] # Free /\ mapping[p].kind = "ashmem"
             /\ mapping[p].model = d /\ mapping[p].vector = x /\ mapping[p].k = i
  BY <1>1, PointersAssumption DEF SerialInv, MemoriesTrue, MemoryTrue
<1>2. ASSUME NEW p \in Pages, NEW d \in Models, NEW i \in DOMAIN infos[d]["request"],
             at[d].pc \notin {"members", "destroyed"},
             Unmaps(infos[d]["request"][i]), infos[d]["request"][i].buffer = p
      PROVE  \/ /\ mapping[p] # Free /\ mapping[p].kind = "mmap_fd"
                /\ mapping[p].model = d /\ mapping[p].vector = "request" /\ mapping[p].k = i
             \/ mapping[p] = Free /\ at[d].pc \in {"derived", "base"}
  BY <1>2 DEF SerialInv, BuffersTrue, BufferTrue
<1>3. MemoryTrue(e, w, j)'
  <2> DEFINE q == infos[e][w][j].memory
  <2> SUFFICES ASSUME q # Null
               PROVE  /\ mapping'[q] # Free /\ mapping'[q].kind = "ashmem"
                      /\ mapping'[q].model = e /\ mapping'[q].vector = w /\ mapping'[q].k = j
    BY DEF MemoryTrue
  <2>1. q \in Pages
    <3>1. infos[e][w] \in Seq(InfoType)
      BY DEF SerialInv, IInv, TypeOK, InfosOK
    <3>2. infos[e][w][j] \in InfoType
      BY <3>1
    <3>3. QED
      BY <3>2 DEF InfoType
  <2>2. /\ mapping[q] # Free /\ mapping[q].kind = "ashmem"
        /\ mapping[q].model = e /\ mapping[q].vector = w /\ mapping[q].k = j
    BY <1>1, <2>1
  <2>3. mapping'[q] = mapping[q]
    <3>1. ASSUME NEW d \in Models, NEW x \in Vector, NEW i \in DOMAIN infos[d][x],
                 <<d, x, i>> # <<e, w, j>>, infos[d][x][i].memory = q
          PROVE  FALSE
      BY <1>1, <2>1, <2>2, <3>1
    <3>2. ASSUME NEW d \in Models, NEW i \in DOMAIN infos[d]["request"],
                 at[d].pc \in {"derived", "base"},
                 Unmaps(infos[d]["request"][i]), infos[d]["request"][i].buffer = q
          PROVE  FALSE
      BY <1>2, <2>1, <2>2, <3>2
    <3>3. QED
      BY <2>1, <2>2, <3>1, <3>2
  <2>4. QED
    BY <2>2, <2>3
<1>4. ASSUME w = "request" PROVE BufferTrue(e, j)'
  <2> DEFINE b == infos[e][w][j].buffer
  <2> SUFFICES ASSUME Unmaps(infos[e][w][j]), at'[e].pc \notin {"members", "destroyed"}
               PROVE  \/ /\ mapping'[b] # Free /\ mapping'[b].kind = "mmap_fd"
                         /\ mapping'[b].model = e /\ mapping'[b].vector = "request"
                         /\ mapping'[b].k = j
                      \/ mapping'[b] = Free /\ at'[e].pc \in {"derived", "base"}
    BY <1>4 DEF BufferTrue, Unmaps
  <2>1. b \in Pages /\ at[e].pc \notin {"members", "destroyed"}
    BY DEF Unmaps
  <2>2. \/ /\ mapping[b] # Free /\ mapping[b].kind = "mmap_fd"
           /\ mapping[b].model = e /\ mapping[b].vector = "request" /\ mapping[b].k = j
        \/ mapping[b] = Free /\ at[e].pc \in {"derived", "base"}
    BY <1>2, <1>4, <2>1
  <2>3. mapping'[b] = mapping[b] \/ (mapping'[b] = Free /\ at'[e].pc \in {"derived", "base"})
    <3>1. ASSUME NEW d \in Models, NEW x \in Vector, NEW i \in DOMAIN infos[d][x],
                 infos[d][x][i].memory = b
          PROVE  FALSE
      BY <1>1, <2>1, <2>2, <3>1
    <3>2. ASSUME NEW d \in Models, NEW i \in DOMAIN infos[d]["request"],
                 at[d].pc \in {"derived", "base"},
                 Unmaps(infos[d]["request"][i]), infos[d]["request"][i].buffer = b
          PROVE  at'[e].pc \in {"derived", "base"}
      <4>1. \/ mapping[b] = Free
            \/ mapping[b].model = d
        BY <1>2, <2>1, <3>2
      <4>2. at[e].pc \in {"derived", "base"}
        BY <2>2, <3>2, <4>1, <1>2, <2>1
      <4>3. QED
        BY <4>2
    <3>3. QED
      BY <2>1, <2>2, <3>1, <3>2
  <2>4. QED
    BY <2>2, <2>3
<1>5. QED
  BY <1>3, <1>4


\* A step that maps no page keeps the infos true, when it leaves their elements
\* alone or makes new ones, and frees the pages of the IMemories it drops, or one
\* that deinitialize() comes to.
LEMMA TrueKept ==
  ASSUME SerialInv,
         \A e \in Models, w \in Vector : \A j \in DOMAIN infos'[e][w] :
            \/ infos'[e][w][j] = NewInfo
            \/ j \in DOMAIN infos[e][w] /\ infos'[e][w][j] = infos[e][w][j],
         \A p \in Pages :
            \/ mapping'[p] = mapping[p]
            \/ \E d \in Models, x \in Vector : \E i \in DOMAIN infos[d][x] :
                  i \notin DOMAIN infos'[d][x] /\ infos[d][x][i].memory = p
            \/ /\ mapping'[p] = Free
               /\ \E d \in Models : \E i \in DOMAIN infos[d]["request"] :
                    /\ at[d].pc \in {"derived", "base"}
                    /\ Unmaps(infos[d]["request"][i]) /\ infos[d]["request"][i].buffer = p,
         \A e \in Models :
            /\ at[e].pc \in {"members", "destroyed"} => at'[e].pc \in {"members", "destroyed"}
            /\ at[e].pc \in {"derived", "base"} => at'[e].pc \in {"derived", "base", "members"}
  PROVE  MemoriesTrue' /\ BuffersTrue'
<1>1. ASSUME NEW e \in Models, NEW w \in Vector, NEW j \in DOMAIN infos'[e][w]
      PROVE  MemoryTrue(e, w, j)' /\ (w = "request" => BufferTrue(e, j)')
  <2>1. CASE infos'[e][w][j] = NewInfo
    BY <2>1 DEF NewInfo, MemoryTrue, BufferTrue, Unmaps
  <2>2. CASE j \in DOMAIN infos[e][w] /\ infos'[e][w][j] = infos[e][w][j]
    <3>1. ASSUME NEW d \in Models, NEW x \in Vector, NEW i \in DOMAIN infos[d][x],
                 i \notin DOMAIN infos'[d][x]
          PROVE  <<d, x, i>> # <<e, w, j>>
      BY <3>1
    <3>2. \A p \in Pages :
            \/ mapping'[p] = mapping[p]
            \/ \E d \in Models, x \in Vector : \E i \in DOMAIN infos[d][x] :
                  <<d, x, i>> # <<e, w, j>> /\ infos[d][x][i].memory = p
            \/ /\ mapping'[p] = Free
               /\ \E d \in Models : \E i \in DOMAIN infos[d]["request"] :
                    /\ at[d].pc \in {"derived", "base"}
                    /\ Unmaps(infos[d]["request"][i]) /\ infos[d]["request"][i].buffer = p
      BY <3>1
    <3>3. QED
      BY <2>2, <3>2, TrueStays
  <2>3. QED
    BY <1>1, <2>1, <2>2
<1>2. "request" \in Vector
  BY DEF Vector
<1>3. QED
  BY <1>1, <1>2 DEF MemoriesTrue, BuffersTrue

\* A set() of the only model there is maps its pool and leaves the infos true.
LEMMA SetTrue ==
  ASSUME SerialInv, NEW m \in Models, NEW v \in Vector, NEW next \in PcType,
         NEW failed \in PcType,
         \/ at[m].pc = "prepare" /\ v = "model" /\ next = "create" /\ failed = "derived"
         \/ at[m].pc = "set" /\ v = "request" /\ next = "run" /\ failed = "idle",
         Set(m, v, next, failed), UNCHANGED <<wanted, n>>
  PROVE  MemoriesTrue' /\ BuffersTrue'
<1>1. PICK k : k = at[m].k
  OBVIOUS
<1>2. /\ k \in 1 .. Len(infos[m][v]) /\ k \in Nat \ {0} /\ Len(wanted[m]) = Len(infos[m][v])
      /\ infos[m][v] \in Seq(InfoType) /\ wanted[m] \in Seq(Kind)
      /\ DOMAIN infos[m][v] = 1 .. Len(infos[m][v])
  BY <1>1, WantedType DEF SerialInv, IInv, TypeOK, LengthsOK, ThreadsOK, CounterOK, InfosOK
<1> DEFINE kind == wanted[m][k]
<1>3. kind \in Kind /\ infos[m][v][k] \in InfoType
  BY <1>2
<1>4. IInv /\ ThreadsOK
  BY DEF SerialInv, IInv, TypeOK
<1>5. /\ SetDone(m, v, next, k, kind) \/ SetFailed(m, v, failed, k, kind)
      /\ \A d \in Models : d # m => at'[d] = at[d] /\ infos'[d] = infos[d]
      /\ \A w \in Vector : w # v => infos'[m][w] = infos[m][w]
      /\ DOMAIN infos'[m][v] = DOMAIN infos[m][v]
      /\ \A j \in DOMAIN infos[m][v] : j # k => infos'[m][v][j] = infos[m][v][j]
      /\ \A p \in Pages : \/ mapping'[p] = mapping[p] \/ mapping[p] = Free
                          \/ infos[m][v][k].memory = p /\ kind = "ashmem"
  BY <1>1, <1>2, <1>4, SetEffect
<1> HIDE DEF kind
<1>6. \A d \in Models : at[d].pc \notin {"derived", "base"}
  BY DEF SerialInv, OneAlive, Alive
<1>7. ASSUME NEW e \in Models, NEW w \in Vector, NEW j \in DOMAIN infos[e][w],
             <<e, w, j>> # <<m, v, k>>
      PROVE  MemoryTrue(e, w, j)' /\ (w = "request" => BufferTrue(e, j)')
  <2>1. infos'[e][w][j] = infos[e][w][j]
    BY <1>5, <1>7
  <2>2. \A p \in Pages :
            \/ mapping'[p] = mapping[p]
            \/ /\ mapping[p] = Free
               /\ \A d \in Models : at[d].pc \notin {"derived", "base"}
            \/ \E d \in Models, x \in Vector : \E i \in DOMAIN infos[d][x] :
                  <<d, x, i>> # <<e, w, j>> /\ infos[d][x][i].memory = p
    BY <1>2, <1>5, <1>6, <1>7
  <2>3. at[m].pc \notin {"members", "destroyed"} /\ \A d \in Models : d # m => at'[d] = at[d]
    BY <1>5
  <2>4. QED
    BY <1>6, <2>1, <2>2, <2>3, TrueStays
<1>8. ASSUME SetDone(m, v, next, k, kind)
      PROVE  MemoryTrue(m, v, k)' /\ (v = "request" => BufferTrue(m, k)')
  <2>1. PICK page \in Pages :
          /\ infos'[m][v][k] = Mapped(infos[m][v][k], kind, page)
          /\ mapping'[page] = Pool(m, v, k, kind)
    BY <1>8 DEF SetDone
  <2>2. Pool(m, v, k, kind) # Free
    BY <1>2, <1>3, <1>4, FreeIsNoPool
  <2>3. /\ mapping'[page] # Free /\ mapping'[page].model = m /\ mapping'[page].vector = v
        /\ mapping'[page].k = k /\ mapping'[page].kind = kind
    BY <2>1, <2>2 DEF Pool
  <2>4. CASE kind = "ashmem"
    <3>1. infos'[m][v][k].memory = page /\ infos'[m][v][k].name = "ashmem"
      BY <2>1, <2>4 DEF Mapped
    <3>2. QED
      BY <2>3, <2>4, <3>1 DEF MemoryTrue, BufferTrue, Unmaps
  <2>5. CASE kind # "ashmem"
    <3>1. /\ infos'[m][v][k].memory = infos[m][v][k].memory /\ infos'[m][v][k].name = kind
          /\ infos'[m][v][k].buffer = page
      BY <2>1, <2>5 DEF Mapped
    <3>2. MemoryTrue(m, v, k)'
      <4>1. MemoryTrue(m, v, k)
        BY <1>2 DEF SerialInv, MemoriesTrue
      <4>2. infos[m][v][k].memory \in Pages \cup {Null}
        BY <1>3 DEF InfoType
      <4>3. QED
        BY <1>5, <2>5, <3>1, <4>1, <4>2 DEF MemoryTrue
    <3>3. v = "request" => BufferTrue(m, k)'
      BY <2>3, <3>1 DEF BufferTrue, Unmaps
    <3>4. QED
      BY <3>2, <3>3
  <2>6. QED
    BY <2>4, <2>5
<1>9. ASSUME SetFailed(m, v, failed, k, kind)
      PROVE  MemoryTrue(m, v, k)' /\ (v = "request" => BufferTrue(m, k)')
  <2>1. infos'[m][v][k] = NotMapped(infos[m][v][k], kind)
    BY <1>9 DEF SetFailed
  <2>2. infos'[m][v][k].buffer \notin Pages
    BY <2>1, PointersAssumption DEF NotMapped
  <2>3. BufferTrue(m, k)' \/ v # "request"
    BY <2>2 DEF BufferTrue, Unmaps
  <2>4. MemoryTrue(m, v, k)'
    <3>1. CASE kind = "ashmem"
      BY <2>1, <3>1 DEF NotMapped, MemoryTrue
    <3>2. CASE kind # "ashmem"
      <4>1. MemoryTrue(m, v, k) /\ infos'[m][v][k].memory = infos[m][v][k].memory
        BY <1>2, <2>1, <3>2 DEF SerialInv, MemoriesTrue, NotMapped
      <4>2. infos[m][v][k].memory \in Pages \cup {Null}
        BY <1>3 DEF InfoType
      <4>3. QED
        BY <1>5, <3>2, <4>1, <4>2 DEF MemoryTrue
    <3>3. QED
      BY <3>1, <3>2
  <2>5. QED
    BY <2>3, <2>4
<1>10. ASSUME NEW e \in Models, NEW w \in Vector, NEW j \in DOMAIN infos'[e][w]
       PROVE  MemoryTrue(e, w, j)' /\ (w = "request" => BufferTrue(e, j)')
  <2>1. j \in DOMAIN infos[e][w]
    BY <1>5, <1>10
  <2>2. CASE <<e, w, j>> = <<m, v, k>>
    <3>1. e = m /\ w = v /\ j = k
      BY <2>2
    <3>2. QED
      BY <1>5, <1>8, <1>9, <3>1
  <2>3. QED
    BY <1>7, <2>1, <2>2
<1>11. "request" \in Vector
  BY DEF Vector
<1>12. QED
  BY <1>10, <1>11 DEF MemoriesTrue, BuffersTrue

\* A vector that resize() has worked on has its old elements and new ones; what
\* is gone was at the end.
LEMMA ResizedTrue ==
  ASSUME IInv, NEW m \in Models, NEW v \in Vector, NEW size \in Nat,
         infos' = [infos EXCEPT ![m][v] = Resized(infos[m][v], size)]
  PROVE  /\ \A e \in Models, w \in Vector : \A j \in DOMAIN infos'[e][w] :
              \/ infos'[e][w][j] = NewInfo
              \/ j \in DOMAIN infos[e][w] /\ infos'[e][w][j] = infos[e][w][j]
         /\ infos'[m][v] = Resized(infos[m][v], size)
         /\ \A j \in DOMAIN infos[m][v] :
              j \in DOMAIN infos'[m][v] => infos'[m][v][j] = infos[m][v][j]
<1> DEFINE new == Resized(infos[m][v], size)
<1>1. InfosOK /\ infos[m] \in [Vector -> Seq(InfoType)] /\ infos[m][v] \in Seq(InfoType)
  BY DEF IInv, TypeOK, InfosOK
<1>2. DOMAIN infos[m][v] = 1 .. Len(infos[m][v]) /\ Len(infos[m][v]) \in Nat
  BY <1>1
<1>3. new \in Seq(InfoType) /\ Len(new) = size
      /\ \A k \in 1 .. size : new[k] = IF k <= Len(infos[m][v]) THEN infos[m][v][k] ELSE NewInfo
  BY <1>1, ResizedType
<1>4. DOMAIN new = 1 .. size
  BY <1>3
<1>5. infos' = [infos EXCEPT ![m] = [infos[m] EXCEPT ![v] = new]]
  BY <1>1 DEF InfosOK
<1> HIDE DEF new
<1>6. /\ infos'[m][v] = new
      /\ \A e \in Models, w \in Vector : e # m \/ w # v => infos'[e][w] = infos[e][w]
  BY <1>1, <1>5 DEF InfosOK
<1>7. ASSUME NEW e \in Models, NEW w \in Vector, NEW j \in DOMAIN infos'[e][w]
      PROVE  \/ infos'[e][w][j] = NewInfo
             \/ j \in DOMAIN infos[e][w] /\ infos'[e][w][j] = infos[e][w][j]
  <2>1. CASE e = m /\ w = v
    <3>1. j \in 1 .. size /\ infos'[e][w][j] = new[j]
      BY <1>4, <1>6, <1>7, <2>1
    <3>2. CASE j <= Len(infos[m][v])
      BY <1>2, <1>3, <2>1, <3>1, <3>2
    <3>3. CASE ~(j <= Len(infos[m][v]))
      BY <1>3, <3>1, <3>3
    <3>4. QED
      BY <3>2, <3>3
  <2>2. CASE e # m \/ w # v
    <3>1. infos'[e][w] = infos[e][w]
      BY <1>6, <2>2
    <3>2. QED
      BY <1>7, <3>1
  <2>3. QED
    BY <2>1, <2>2
<1>8. \A j \in DOMAIN infos[m][v] : j \in DOMAIN infos'[m][v] => infos'[m][v][j] = infos[m][v][j]
  BY <1>2, <1>3, <1>4, <1>6
<1>9. QED
  BY <1>6, <1>7, <1>8 DEF new

\* An NnapiModelInfo that goes leaves the infos of the others alone.
LEMMA ReleaseTrue ==
  ASSUME IInv, NEW d \in Models, ReleaseInfo(d)
  PROVE  /\ \A e \in Models, w \in Vector : \A j \in DOMAIN infos'[e][w] :
              j \in DOMAIN infos[e][w] /\ infos'[e][w][j] = infos[e][w][j]
         /\ \A p \in Pages :
              \/ mapping'[p] = mapping[p]
              \/ \E x \in Vector : \E i \in DOMAIN infos[d][x] :
                    i \notin DOMAIN infos'[d][x] /\ infos[d][x][i].memory = p
<1>1. InfosOK /\ MappingOK
  BY DEF IInv, TypeOK
<1>2. infos'[d] = [v \in Vector |-> <<>>] /\ \A e \in Models : e # d => infos'[e] = infos[e]
  BY <1>1 DEF ReleaseInfo, InfosOK
<1>3. \A w \in Vector : DOMAIN infos'[d][w] = {}
  BY <1>2
<1>4. \A p \in Pages :
        \/ mapping'[p] = mapping[p]
        \/ \E x \in Vector : \E i \in DOMAIN infos[d][x] : infos[d][x][i].memory = p
  BY <1>1, ReleaseFrees
<1>5. QED
  BY <1>2, <1>3, <1>4

\* Every step other than a set() keeps the infos true.
LEMMA StepTrue ==
  ASSUME SerialInv, NEW d \in Models,
         \/ Prepare(d) \/ CreateFactory(d) \/ Build(d)
         \/ Execute(d) \/ Answer(d) \/ Destroy(d)
         \/ Deinitialize(d, "derived", "base") \/ Deinitialize(d, "base", "members")
         \/ DestroyMembers(d)
  PROVE  MemoriesTrue' /\ BuffersTrue'
<1> DEFINE SameInfos ==
      \A e \in Models, w \in Vector : \A j \in DOMAIN infos'[e][w] :
            \/ infos'[e][w][j] = NewInfo
            \/ j \in DOMAIN infos[e][w] /\ infos'[e][w][j] = infos[e][w][j]
           Freed(p) ==
      \/ mapping'[p] = mapping[p]
      \/ \E e \in Models, x \in Vector : \E i \in DOMAIN infos[e][x] :
            i \notin DOMAIN infos'[e][x] /\ infos[e][x][i].memory = p
      \/ /\ mapping'[p] = Free
         /\ \E e \in Models : \E i \in DOMAIN infos[e]["request"] :
              /\ at[e].pc \in {"derived", "base"}
              /\ Unmaps(infos[e]["request"][i]) /\ infos[e]["request"][i].buffer = p
           Onwards ==
      \A e \in Models :
         /\ at[e].pc \in {"members", "destroyed"} => at'[e].pc \in {"members", "destroyed"}
         /\ at[e].pc \in {"derived", "base"} => at'[e].pc \in {"derived", "base", "members"}
<1>1. IInv /\ ThreadsOK /\ InfosOK /\ MappingOK
  BY DEF SerialInv, IInv, TypeOK
<1>2. SameInfos /\ (\A p \in Pages : Freed(p)) /\ Onwards => MemoriesTrue' /\ BuffersTrue'
  BY TrueKept
<1>3. ASSUME NEW pc \in PcType, NEW k \in Nat \ {0}, Goto(d, pc, k),
             at[d].pc \in {"members", "destroyed"} => pc \in {"members", "destroyed"},
             at[d].pc \in {"derived", "base"} => pc \in {"derived", "base", "members"}
      PROVE  Onwards
  <2>1. at'[d].pc = pc /\ \A e \in Models : e # d => at'[e] = at[e]
    BY <1>1, <1>3, GotoType
  <2>2. QED
    BY <1>3, <2>1
<1>4. /\ {"create", "prepare", "build", "idle", "derived", "set", "base", "members", "destroyed"}
          \subseteq PcType
      /\ 1 \in Nat \ {0} /\ at[d].k + 1 \in Nat \ {0}
  BY <1>1 DEF PcType, ThreadsOK
<1>5. ASSUME ReleaseInfo(d) \/ UNCHANGED <<infos, mapping>>
      PROVE  SameInfos /\ \A p \in Pages : Freed(p)
  <2>1. CASE UNCHANGED <<infos, mapping>>
    BY <2>1
  <2>2. CASE ReleaseInfo(d)
    <3>1. SameInfos
      BY <1>1, <2>2, ReleaseTrue
    <3>2. \A p \in Pages : Freed(p)
      BY <1>1, <2>2, ReleaseTrue
    <3>3. QED
      BY <3>1, <3>2
  <2>3. QED
    BY <1>5, <2>1, <2>2
<1>6. CASE Prepare(d)
  <2>1. PICK pools \in ModelPools :
          /\ infos' = [infos EXCEPT ![d]["model"] = Resized(@, Len(pools))]
          /\ Goto(d, IF pools = <<>> THEN "create" ELSE "prepare", 1)
    BY <1>6 DEF Prepare
  <2>2. at[d].pc = "none" /\ UNCHANGED mapping
    BY <1>6 DEF Prepare, At
  <2>3. Len(pools) \in Nat /\ "model" \in Vector
    BY PoolsAssumption DEF Vector
  <2>4. infos' = [infos EXCEPT ![d]["model"] = Resized(infos[d]["model"], Len(pools))]
    BY <2>1
  <2>5. SameInfos
    BY <1>1, <2>3, <2>4, ResizedTrue
  <2>6. Onwards
    BY <1>3, <1>4, <2>1, <2>2
  <2>7. \A p \in Pages : Freed(p)
    BY <2>2
  <2>8. QED
    BY <1>2, <2>5, <2>6, <2>7
<1>7. CASE Execute(d)
  <2>1. PICK pools \in RequestPools :
          /\ infos' = [infos EXCEPT ![d]["request"] = Resized(infos[d]["request"], Len(pools))]
          /\ mapping' = [p \in Pages |->
                 IF p \in Memories(infos[d]["request"])
                            \ Memories(Resized(infos[d]["request"], Len(pools)))
                 THEN Free ELSE mapping[p]]
    BY <1>7 DEF Execute
  <2>2. at[d].pc = "idle" /\ Goto(d, "set", 1)
    BY <1>7 DEF Execute, At
  <2>3. Len(pools) \in Nat /\ "request" \in Vector
    BY PoolsAssumption DEF Vector
  <2>4. /\ SameInfos /\ infos'[d]["request"] = Resized(infos[d]["request"], Len(pools))
        /\ \A j \in DOMAIN infos[d]["request"] :
             j \in DOMAIN infos'[d]["request"] => infos'[d]["request"][j] = infos[d]["request"][j]
    BY <1>1, <2>1, <2>3, ResizedTrue
  <2>5. Onwards
    BY <1>3, <1>4, <2>2
  <2>6. ASSUME NEW p \in Pages, mapping'[p] # mapping[p]
        PROVE  \E i \in DOMAIN infos[d]["request"] :
                  i \notin DOMAIN infos'[d]["request"] /\ infos[d]["request"][i].memory = p
    <3>1. p \in Memories(infos[d]["request"]) /\ p \notin Memories(infos'[d]["request"])
      BY <2>1, <2>4, <2>6
    <3>2. PICK i \in DOMAIN infos[d]["request"] : infos[d]["request"][i].memory = p
      BY <3>1 DEF Memories
    <3>3. QED
      BY <2>4, <3>1, <3>2 DEF Memories
  <2>7. \A p \in Pages : Freed(p)
    BY <2>3, <2>6
  <2>8. QED
    BY <1>2, <2>4, <2>5, <2>7
<1>8. CASE CreateFactory(d)
  <2>1. at[d].pc = "create" /\ Goto(d, "build", 1)
    BY <1>8 DEF CreateFactory, At
  <2>2. Onwards
    BY <1>3, <1>4, <2>1
  <2>3. CASE UNCHANGED <<infos, mapping>>
    BY <1>2, <2>2, <2>3
  <2>4. CASE sModelInfo # NoModel /\ ReleaseInfo(sModelInfo)
    <3>1. sModelInfo \in Models
      BY <1>1, <2>4 DEF MappingOK
    <3>2. SameInfos
      BY <1>1, <2>4, <3>1, ReleaseTrue
    <3>3. \A p \in Pages : Freed(p)
      BY <1>1, <2>4, <3>1, ReleaseTrue
    <3>4. QED
      BY <1>2, <2>2, <3>2, <3>3
  <2>5. QED
    BY <1>8, <2>3, <2>4 DEF CreateFactory
<1>9. CASE Build(d) \/ Answer(d) \/ Destroy(d)
  <2>1. UNCHANGED <<infos, mapping>> /\ at[d].pc \in {"build", "run", "idle"}
        /\ \E pc \in PcType : Goto(d, pc, 1)
    BY <1>4, <1>9 DEF Build, Answer, Destroy, At
  <2>2. Onwards
    BY <1>3, <1>4, <2>1
  <2>3. QED
    BY <1>2, <2>1, <2>2
<1>10. ASSUME NEW pc \in PcType, NEW next \in PcType, Deinitialize(d, pc, next),
              \/ pc = "derived" /\ next = "base"
              \/ pc = "base" /\ next = "members"
       PROVE  MemoriesTrue' /\ BuffersTrue'
  <2>1. at[d].pc = pc /\ UNCHANGED infos
    BY <1>10 DEF Deinitialize, At
  <2>2. Goto(d, pc, at[d].k + 1) \/ Goto(d, next, 1)
    BY <1>10 DEF Deinitialize
  <2>3. Onwards
    BY <1>3, <1>4, <1>10, <2>1, <2>2
  <2>4. SameInfos
    BY <2>1
  <2>5. ASSUME NEW p \in Pages
        PROVE  Freed(p)
    <3>1. PICK k : k = at[d].k
      OBVIOUS
    <3>2. mapping' = IF k \in DOMAIN infos[d]["request"] /\ Unmaps(infos[d]["request"][k])
                     THEN Without(mapping, infos[d]["request"][k].buffer) ELSE mapping
      BY <1>10, <3>1 DEF Deinitialize
    <3>3. \/ mapping'[p] = mapping[p]
          \/ /\ mapping'[p] = Free /\ k \in DOMAIN infos[d]["request"]
             /\ Unmaps(infos[d]["request"][k]) /\ infos[d]["request"][k].buffer = p
      BY <3>2 DEF Without
    <3>4. QED
      BY <1>10, <2>1, <3>3
  <2>6. QED
    BY <1>2, <2>3, <2>4, <2>5
<1>11. CASE Deinitialize(d, "derived", "base") \/ Deinitialize(d, "base", "members")
  BY <1>4, <1>10, <1>11
<1>12. CASE DestroyMembers(d)
  <2>1. at[d].pc = "members" /\ Goto(d, "destroyed", 1)
    BY <1>12 DEF DestroyMembers, At
  <2>2. Onwards
    BY <1>3, <1>4, <2>1
  <2>3. SameInfos /\ \A p \in Pages : Freed(p)
    BY <1>5, <1>12 DEF DestroyMembers
  <2>4. QED
    BY <1>2, <2>2, <2>3
<1>13. QED
  BY <1>6, <1>7, <1>8, <1>9, <1>11, <1>12

\* Without overlap, a preparation begins when no other model exists.
LEMMA StepAlone ==
  ASSUME SerialInv, ~Overlap, NEW d \in Models,
         \/ Prepare(d) \/ SetModelPool(d) \/ CreateFactory(d) \/ Build(d)
         \/ Execute(d) \/ SetRequestPool(d) \/ Answer(d) \/ Destroy(d)
         \/ Deinitialize(d, "derived", "base") \/ Deinitialize(d, "base", "members")
         \/ DestroyMembers(d)
  PROVE  OneAlive'
<1>1. \A m \in Models : m # d => at'[m] = at[m]
  <2>1. IInv
    BY DEF SerialInv
  <2>2. QED
    BY <2>1, StepEffect
<1>2. \A m \in Models : m # d => ~Alive(m)
  <2>1. CASE Prepare(d)
    BY <2>1 DEF Prepare, Alive
  <2>2. CASE ~Prepare(d)
    <3>1. Alive(d)
      BY <2>2 DEF SetModelPool, CreateFactory, Build, Execute, SetRequestPool, Answer, Destroy,
                  Deinitialize, DestroyMembers, At, Alive
    <3>2. QED
      BY <3>1 DEF SerialInv, OneAlive
  <2>3. QED
    BY <2>1, <2>2
<1>3. \A m \in Models : m # d => ~Alive(m)'
  BY <1>1, <1>2 DEF Alive
<1>4. QED
  BY <1>3 DEF OneAlive

\* What no other info can free stays.
LEMMA FilledStays ==
  ASSUME SerialInv, PointersStep
  PROVE  FilledKept'
<1> SUFFICES ASSUME NEW m \in Models, NEW v \in Vector, NEW k \in Filled(m, v)'
             PROVE  Kept(m, v, k)'
  BY DEF FilledKept
<1>1. Kept(m, v, k)' \/ (k \in Filled(m, v) /\ (~Kept(m, v, k) \/ Contested(m, v, k)))
  BY DEF PointersStep
<1>2. CASE k \in Filled(m, v)
  BY <1>1, <1>2, NotContested DEF SerialInv, FilledKept
<1>3. QED
  BY <1>1, <1>2

LEMMA NextSerial ==
  ASSUME SerialInv, ~Overlap, [Next]_vars
  PROVE  SerialInv'
<1>1. IInv /\ IInv'
  BY NextIInv DEF SerialInv
<1>2. CASE Next
  <2>1. FilledKept'
    BY <1>1, <1>2, NextPointers, FilledStays
  <2>2. CASE GetSupportedOperations
    <3>1. UNCHANGED at /\ sModelInfo \in Models \cup {NoModel} /\ sModelInfo # NoModel
      BY <1>1, <2>2 DEF GetSupportedOperations, IInv, TypeOK, MappingOK
    <3>2. OneAlive'
      BY <3>1 DEF SerialInv, OneAlive, Alive
    <3>3. /\ \A e \in Models, w \in Vector : \A j \in DOMAIN infos'[e][w] :
               j \in DOMAIN infos[e][w] /\ infos'[e][w][j] = infos[e][w][j]
          /\ \A p \in Pages :
               \/ mapping'[p] = mapping[p]
               \/ \E d \in Models, x \in Vector : \E i \in DOMAIN infos[d][x] :
                     i \notin DOMAIN infos'[d][x] /\ infos[d][x][i].memory = p
      <4>1. CASE ReleaseInfo(sModelInfo)
        <5>1. sModelInfo \in Models
          BY <3>1
        <5>2. QED
          BY <1>1, <4>1, <5>1, ReleaseTrue
      <4>2. CASE UNCHANGED <<infos, mapping>>
        BY <4>2
      <4>3. QED
        BY <2>2, <4>1, <4>2 DEF GetSupportedOperations
    <3>4. MemoriesTrue' /\ BuffersTrue'
      BY <3>1, <3>3, TrueKept
    <3>5. QED
      BY <1>1, <2>1, <3>2, <3>4 DEF SerialInv
  <2>3. ASSUME NEW d \in Models,
               \/ Prepare(d) \/ CreateFactory(d) \/ Build(d)
               \/ Execute(d) \/ Answer(d) \/ Destroy(d)
               \/ Deinitialize(d, "derived", "base") \/ Deinitialize(d, "base", "members")
               \/ DestroyMembers(d)
        PROVE  SerialInv'
    <3>1. OneAlive'
      BY <2>3, StepAlone
    <3>2. MemoriesTrue' /\ BuffersTrue'
      BY <2>3, StepTrue
    <3>3. QED
      BY <1>1, <2>1, <3>1, <3>2 DEF SerialInv
  <2>4. ASSUME NEW d \in Models, SetModelPool(d) \/ SetRequestPool(d)
        PROVE  SerialInv'
    <3>1. OneAlive'
      BY <2>4, StepAlone
    <3>2. /\ "model" \in Vector /\ "request" \in Vector
          /\ {"create", "derived", "run", "idle"} \subseteq PcType
      BY DEF Vector, PcType
    <3>3. CASE SetModelPool(d)
      <4>1. /\ at[d].pc = "prepare" /\ Set(d, "model", "create", "derived")
            /\ UNCHANGED <<wanted, n>>
        BY <3>3 DEF SetModelPool, At
      <4>2. MemoriesTrue' /\ BuffersTrue'
        BY <3>2, <4>1, SetTrue
      <4>3. QED
        BY <1>1, <2>1, <3>1, <4>2 DEF SerialInv
    <3>4. CASE SetRequestPool(d)
      <4>1. /\ at[d].pc = "set" /\ Set(d, "request", "run", "idle")
            /\ UNCHANGED <<wanted, n>>
        BY <3>4 DEF SetRequestPool, At
      <4>2. MemoriesTrue' /\ BuffersTrue'
        BY <3>2, <4>1, SetTrue
      <4>3. QED
        BY <1>1, <2>1, <3>1, <4>2 DEF SerialInv
    <3>5. QED
      BY <2>4, <3>3, <3>4
  <2>5. CASE Quiescent
    BY <1>1, <2>1, <2>5
       DEF Quiescent, vars, SerialInv, OneAlive, Alive, MemoriesTrue, MemoryTrue, BuffersTrue,
           BufferTrue
  <2>6. QED
    BY <1>2, <2>2, <2>3, <2>4, <2>5 DEF Next
<1>3. CASE UNCHANGED vars
  <2>1. FilledKept'
    BY <1>3 DEF vars, SerialInv, FilledKept, Filled, Working, Kept, Pool
  <2>2. OneAlive' /\ MemoriesTrue' /\ BuffersTrue'
    BY <1>3 DEF vars, SerialInv, OneAlive, Alive, MemoriesTrue, MemoryTrue, BuffersTrue, BufferTrue
  <2>3. QED
    BY <1>1, <2>1, <2>2 DEF SerialInv
<1>4. QED
  BY <1>2, <1>3

LEMMA InitSerial == Init => SerialInv
<1> SUFFICES ASSUME Init PROVE SerialInv
  OBVIOUS
<1>1. IInv
  BY InitIInv
<1>2. \A m \in Models, v \in Vector : at[m].pc = "none" /\ infos[m][v] = <<>>
  BY DEF Init
<1>3. \A m \in Models, v \in Vector : DOMAIN infos[m][v] = {}
  BY <1>2
<1>4. "request" \in Vector
  BY DEF Vector
<1>5. QED
  BY <1>1, <1>2, <1>3, <1>4
     DEF SerialInv, OneAlive, Alive, MemoriesTrue, BuffersTrue, FilledKept, Filled

\* A client that prepares no model while another one exists loses no pointer:
\* every info in use maps the pool it was given, with any number of models one
\* after the other, whatever earlier executions and failures have left behind
\* and whatever the second deinitialize() unmaps (ModelManager.h:189-193).
THEOREM SerialPointers == ~Overlap => (Spec => []FilledKept)
<1> SUFFICES ASSUME ~Overlap PROVE Spec => []FilledKept
  OBVIOUS
<1>1. Init => SerialInv
  BY InitSerial
<1>2. SerialInv /\ [Next]_vars => SerialInv'
  BY NextSerial
<1>3. SerialInv => FilledKept
  BY DEF SerialInv
<1>4. QED
  BY <1>1, <1>2, <1>3, PTL DEF Spec
===============================================================================
