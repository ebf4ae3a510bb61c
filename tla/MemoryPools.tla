------------------------------ MODULE MemoryPools ------------------------------
(***************************************************************************)
(* The life of the memory mappings behind RunTimePoolInfo (utils.cpp):     *)
(* set() maps a pool, unmap_mem() unmaps it, and the two vectors of an     *)
(* NnapiModelInfo, mPoolInfos and mRequestPoolInfos, hold the infos from   *)
(* the preparation of a model, over its executions, to the two destructors *)
(* that each call deinitialize() (CpuPreparedModel.h:38,                   *)
(* BasePreparedModel.h:64) and beyond, since the static sModelInfo keeps   *)
(* the last NnapiModelInfo alive.                                          *)
(*                                                                         *)
(* One mapping takes one page of the process.  The executions of one model *)
(* follow each other here; PreparedModel has them at the same time, and it *)
(* has the requests without pools, which end the service before anything   *)
(* is mapped.                                                              *)
(***************************************************************************)
EXTENDS Naturals, Sequences

CONSTANTS
    Models,        \* prepared models
    Pages,         \* where the kernel can place a mapping
    ModelPools,    \* the pools a model may have, as sequences of kinds
    RequestPools,  \* the pools a request may have, at least one
    MaxExecutions, \* bound on the executions of a model
    Overlap,       \* a model may be prepared while another one exists
    NoModel,       \* sModelInfo before the first preparation, or of a query
    Null,          \* the null pointer
    MapFailed,     \* MAP_FAILED
    Free           \* a page with no mapping

\* hidl_memory.name()
Kind == {"ashmem", "mmap_fd", "hardware_buffer_blob", "other"}

\* mPoolInfos and mRequestPoolInfos
Vector == {"model", "request"}

ASSUME PoolsAssumption ==
    /\ ModelPools \subseteq Seq(Kind) /\ RequestPools \subseteq Seq(Kind) \ {<<>>}
    /\ MaxExecutions \in Nat /\ Overlap \in BOOLEAN
ASSUME PointersAssumption == Null \notin Pages /\ MapFailed \notin Pages /\ Null # MapFailed
ASSUME NoModelAssumption == NoModel \notin Models
ASSUME FreeAssumption ==
    Free \notin [model : Models, vector : Vector, n : Nat, k : Nat, kind : Kind]

VARIABLES
    at,         \* where the thread that works on a model is: [pc, k]
    wanted,     \* the pools its loop over set() is given
    n,          \* executions begun
    infos,      \* the RunTimePoolInfos of its two vectors
    sModelInfo, \* the model whose NnapiModelInfo the static holds
    mapping     \* what each page maps

vars == <<at, wanted, n, infos, sModelInfo, mapping>>

\* A pool as the client means it, and as a page maps it.
Pool(m, v, k, kind) == [model |-> m, vector |-> v, n |-> n[m], k |-> k, kind |-> kind]

\* A RunTimePoolInfo as resize() makes it.
NewInfo == [name |-> "none", buffer |-> Null, memory |-> Null]

-----------------------------------------------------------------------------
(* Steps.                                                                  *)

At(m, pc) == at[m].pc = pc
Goto(m, pc, k) == at' = [at EXCEPT ![m] = [pc |-> pc, k |-> k]]

\* The page of an IMemory goes with its last reference.
Without(map, page) == [p \in Pages |-> IF p = page THEN Free ELSE map[p]]

\* Not the code: what the vector has already is kept.
NotResized(old, size) == IF Len(old) >= size THEN old ELSE [k \in 1 .. size |-> NewInfo]

\* resize(): elements at the end are dropped, or value-initialised.
Resized(old, size) == [k \in 1 .. size |-> IF k <= Len(old) THEN old[k] ELSE NewInfo]

\* The pages of the IMemories that a vector holds.
Memories(vector) == {vector[k].memory : k \in DOMAIN vector} \ {Null}

\* Not the code: a buffer that is mapped already is used again.
MappedOnce(info, kind, page) ==
    [name |-> kind, buffer |-> IF info.buffer = Null THEN page ELSE info.buffer,
     memory |-> IF kind = "ashmem" THEN page ELSE info.memory]

\* set() has mapped the pool.  The IMemory of an earlier pool in ashmem stays.
Mapped(info, kind, page) ==
    [name |-> kind, buffer |-> page,
     memory |-> IF kind = "ashmem" THEN page ELSE info.memory]

\* set() has failed.
NotMapped(info, kind) ==
    [name |-> kind, buffer |-> IF kind = "mmap_fd" THEN MapFailed ELSE Null,
     memory |-> IF kind = "ashmem" THEN Null ELSE info.memory]

\* One iteration of the loops over set(): the mapping of the pool, which
\* replaces the IMemory of the info, or the end of the loop.
Set(m, v, next, failed) ==
    LET k    == at[m].k
        kind == wanted[m][k]
        info == infos[m][v][k]
        kept == IF kind = "ashmem" THEN Without(mapping, info.memory) ELSE mapping
    IN  \/ \E page \in Pages :
              /\ kind # "other" /\ mapping[page] = Free
              /\ infos' = [infos EXCEPT ![m][v][k] = Mapped(info, kind, page)]
              /\ mapping' = [kept EXCEPT ![page] = Pool(m, v, k, kind)]
              /\ IF k < Len(wanted[m]) THEN Goto(m, at[m].pc, k + 1) ELSE Goto(m, next, 1)
        \/ /\ infos' = [infos EXCEPT ![m][v][k] = NotMapped(info, kind)]
           /\ mapping' = kept
           /\ Goto(m, failed, 1)

-----------------------------------------------------------------------------
(* Preparation.                                                            *)

\* initRuntimeInfo(): mPoolInfos.resize()
Prepare(m) ==
    /\ At(m, "none")
    /\ Overlap \/ \A d \in Models \ {m} : at[d].pc \in {"none", "destroyed"}
    /\ \E pools \in ModelPools :
        /\ wanted' = [wanted EXCEPT ![m] = pools]
        /\ infos' = [infos EXCEPT ![m]["model"] = Resized(@, Len(pools))]
        /\ Goto(m, IF pools = <<>> THEN "create" ELSE "prepare", 1)
    /\ UNCHANGED <<n, sModelInfo, mapping>>

\* A model that cannot be initialized is destroyed by the thread that made it.
SetModelPool(m) ==
    /\ At(m, "prepare")
    /\ Set(m, "model", "create", "derived")
    /\ UNCHANGED <<wanted, n, sModelInfo>>

\* The destructor of an NnapiModelInfo drops its IMemories.
Released(m) == Memories(infos[m]["model"]) \cup Memories(infos[m]["request"])

\* Not the code: the IMemories are forgotten.
LeakInfo(m) ==
    /\ infos' = [infos EXCEPT ![m] = [v \in Vector |-> <<>>]]
    /\ UNCHANGED mapping

ReleaseInfo(m) ==
    /\ infos' = [infos EXCEPT ![m] = [v \in Vector |-> <<>>]]
    /\ mapping' = [p \in Pages |-> IF p \in Released(m) THEN Free ELSE mapping[p]]

\* OperationsFactory replaces sModelInfo, the last reference to the
\* NnapiModelInfo of a model that has been destroyed.
CreateFactory(m) ==
    /\ At(m, "create")
    /\ sModelInfo' = m
    /\ IF sModelInfo # NoModel /\ At(sModelInfo, "destroyed")
       THEN ReleaseInfo(sModelInfo) ELSE UNCHANGED <<infos, mapping>>
    /\ Goto(m, "build", 1)
    /\ UNCHANGED <<wanted, n>>

\* So does the OperationsFactory of a query.
GetSupportedOperations ==
    /\ sModelInfo # NoModel /\ sModelInfo' = NoModel
    /\ IF At(sModelInfo, "destroyed") THEN ReleaseInfo(sModelInfo) ELSE UNCHANGED <<infos, mapping>>
    /\ UNCHANGED <<at, wanted, n>>

\* The graph is made from the constants in the model's pools; when that fails
\* the model is destroyed.
Build(m) ==
    /\ At(m, "build")
    /\ \E pc \in {"idle", "derived"} : Goto(m, pc, 1)
    /\ UNCHANGED <<wanted, n, infos, sModelInfo, mapping>>

-----------------------------------------------------------------------------
(* Executions.                                                             *)

\* setRunTimePoolInfosFromHidlMemories(): mRequestPoolInfos.resize()
Execute(m) ==
    /\ At(m, "idle") /\ n[m] < MaxExecutions
    /\ \E pools \in RequestPools :
        LET old == infos[m]["request"]
            new == Resized(old, Len(pools))
        IN  /\ wanted' = [wanted EXCEPT ![m] = pools]
            /\ infos' = [infos EXCEPT ![m]["request"] = new]
            /\ mapping' = [p \in Pages |->
                   IF p \in Memories(old) \ Memories(new) THEN Free ELSE mapping[p]]
    /\ n' = [n EXCEPT ![m] = @ + 1]
    /\ Goto(m, "set", 1)
    /\ UNCHANGED sModelInfo

SetRequestPool(m) ==
    /\ At(m, "set")
    /\ Set(m, "request", "run", "idle")
    /\ UNCHANGED <<wanted, n, sModelInfo>>

\* The request is answered: the pools have been read, written and updated.
Answer(m) ==
    /\ At(m, "run")
    /\ Goto(m, "idle", 1)
    /\ UNCHANGED <<wanted, n, infos, sModelInfo, mapping>>

-----------------------------------------------------------------------------
(* Destruction.                                                            *)

\* The client drops its last reference: ~CpuPreparedModel or ~GnaPreparedModel.
Destroy(m) ==
    /\ At(m, "idle")
    /\ Goto(m, "derived", 1)
    /\ UNCHANGED <<wanted, n, infos, sModelInfo, mapping>>

\* Not the code: the mappings of ashmem are unmapped.
UnmapsOther(info) == info.name = "ashmem" /\ info.buffer \in Pages

\* unmap_mem() calls munmap() with a pointer that is not null; MAP_FAILED is
\* refused by the kernel.
Unmaps(info) == info.name = "mmap_fd" /\ info.buffer \in Pages

\* unmapRuntimeMemPools(), one info at a time.  It works on copies: buffer
\* keeps its value, and the second deinitialize() unmaps the page again.
Deinitialize(m, pc, next) ==
    /\ At(m, pc)
    /\ LET request == infos[m]["request"]
           k == at[m].k
       IN  /\ mapping' = IF k \in DOMAIN request /\ Unmaps(request[k])
                         THEN Without(mapping, request[k].buffer) ELSE mapping
           /\ IF k < Len(request) THEN Goto(m, pc, k + 1) ELSE Goto(m, next, 1)
    /\ UNCHANGED <<wanted, n, infos, sModelInfo>>

\* The members go last.
DestroyMembers(m) ==
    /\ At(m, "members")
    /\ IF sModelInfo = m THEN UNCHANGED <<infos, mapping>> ELSE ReleaseInfo(m)
    /\ Goto(m, "destroyed", 1)
    /\ UNCHANGED <<wanted, n, sModelInfo>>

Quiescent == (\A m \in Models : At(m, "destroyed")) /\ UNCHANGED vars

-----------------------------------------------------------------------------
Init ==
    /\ at = [m \in Models |-> [pc |-> "none", k |-> 1]]
    /\ wanted = [m \in Models |-> <<>>]
    /\ n = [m \in Models |-> 0]
    /\ infos = [m \in Models |-> [v \in Vector |-> <<>>]]
    /\ sModelInfo = NoModel
    /\ mapping = [p \in Pages |-> Free]

Next ==
    \/ \E m \in Models :
        \/ Prepare(m) \/ SetModelPool(m) \/ CreateFactory(m) \/ Build(m)
        \/ Execute(m) \/ SetRequestPool(m) \/ Answer(m)
        \/ Destroy(m)
        \/ Deinitialize(m, "derived", "base") \/ Deinitialize(m, "base", "members")
        \/ DestroyMembers(m)
    \/ GetSupportedOperations
    \/ Quiescent

Spec == Init /\ [][Next]_vars
-----------------------------------------------------------------------------
(* Properties.                                                             *)

PcType == {"none", "prepare", "create", "build", "idle", "set", "run",
           "derived", "base", "members", "destroyed"}

InfoType == [name : Kind \cup {"none"}, buffer : Pages \cup {Null, MapFailed},
             memory : Pages \cup {Null}]

PoolType == [model : Models, vector : Vector, n : 0 .. MaxExecutions,
             k : Nat \ {0}, kind : Kind]

ThreadsOK ==
    /\ at \in [Models -> [pc : PcType, k : Nat \ {0}]]
    /\ wanted \in [Models -> ModelPools \cup RequestPools \cup {<<>>}]
    /\ n \in [Models -> 0 .. MaxExecutions]

InfosOK == infos \in [Models -> [Vector -> Seq(InfoType)]]

\* A vector that is being filled, or used, has one element for each pool.
LengthsOK ==
    \A m \in Models :
        /\ at[m].pc \in {"prepare", "create", "build"} => Len(infos[m]["model"]) = Len(wanted[m])
        /\ at[m].pc \in {"set", "run"} => Len(infos[m]["request"]) = Len(wanted[m])

\* The loops over set() stay within the pools they are given.
LoopsOK ==
    \A m \in Models : at[m].pc \in {"prepare", "set"} => at[m].k \in 1 .. Len(wanted[m])

MappingOK ==
    /\ sModelInfo \in Models \cup {NoModel}
    /\ mapping \in [Pages -> PoolType \cup {Free}]

\* The variables hold what the C++ types allow, the vectors have the sizes of the
\* pools they are for, and no loop over set() leaves them.
TypeOK == ThreadsOK /\ InfosOK /\ LengthsOK /\ LoopsOK /\ MappingOK

\* A graph is being made from the model's pools, or an execution has its pools.
Working(m, v) ==
    at[m].pc \in IF v = "model" THEN {"prepare", "create", "build"} ELSE {"set", "run"}

\* The infos that set() has filled.
Filled(m, v) ==
    {k \in DOMAIN infos[m][v] : Working(m, v) /\ (at[m].pc \in {"prepare", "set"} => k < at[m].k)}

\* The buffer of an info maps the pool the client gave for it.
Kept(m, v, k) ==
    LET info == infos[m][v][k] IN
    info.buffer \in Pages /\ mapping[info.buffer] = Pool(m, v, k, wanted[m][k])

\* The page goes when this info drops its IMemory, or when deinitialize() comes
\* to it.
Frees(d, w, j, page) ==
    LET info == infos[d][w][j] IN
    \/ info.memory = page
    \/ /\ w = "request" /\ at[d].pc \notin {"members", "destroyed"}
       /\ Unmaps(info) /\ info.buffer = page

\* "Used to keep a pointer to each of the memory pools." (utils.h:167): an info
\* maps its pool from its set() to the end of the preparation or execution that
\* uses it, whatever earlier executions, failures and models have left behind and
\* other models do meanwhile.  It loses it only to a second info that still has
\* the page: one whose mapping has been unmapped under it, because the second
\* deinitialize() of a model (ModelManager.h:190) unmaps what others have mapped
\* since the first.
PointersKept ==
    [][\A m \in Models, v \in Vector :
         \A k \in Filled(m, v)' :
            \/ Kept(m, v, k)'
            \/ /\ k \in Filled(m, v)
               /\ \/ ~Kept(m, v, k)
                  \/ \E d \in Models, w \in Vector : \E j \in DOMAIN infos[d][w] :
                        /\ <<d, w, j>> # <<m, v, k>>
                        /\ Frees(d, w, j, infos[m][v][k].buffer)]_vars

\* A mapping of ashmem has its IMemory in an info: it is never lost, and it is
\* gone with the NnapiModelInfo, whichever way the model ended
\* (utils.cpp:351-362).
AshmemReleased ==
    \A p \in Pages : mapping[p] # Free /\ mapping[p].kind = "ashmem" =>
        LET pool == mapping[p] IN p \in Memories(infos[pool.model][pool.vector])

\* When a model has been destroyed, what is left of its requests' mmap_fd
\* mappings is what a later set() or a resize() had dropped: none that an info
\* still points to (ModelManager.h:189-193).
HeldUnmapped ==
    \A m \in Models : at[m].pc \in {"base", "members", "destroyed"} =>
        \A k \in DOMAIN infos[m]["request"] :
            LET info == infos[m]["request"][k] IN
            info.name = "mmap_fd" /\ info.buffer \in Pages =>
                mapping[info.buffer] = Free \/ mapping[info.buffer].model # m

===============================================================================
