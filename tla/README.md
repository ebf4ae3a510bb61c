# A TLA+ model of the Intel NN HAL

`nn-hal` is an Android neural-networks driver: a HIDL service that turns an NNAPI model into an nGraph
function, loads it into OpenVINO, and runs inferences on it for its clients. This directory models the
parts of it that are hard to test: executions that share one inference request and one vector of memory
pools, detached threads, waits that give up, error paths, object lifetimes, the binder threads behind them, and the
arithmetic of shapes, paddings and half floats.

## 1. The system

| Component | State it keeps | Operations | What makes it correct |
| --- | --- | --- | --- |
| Service process (`service.cpp`) | four binder threads, one `Driver` | `main`, registering the service | a call finds a thread; one thread's failure is not everybody's |
| Driver (`Driver.cpp`) | `mDeviceType` | `prepareModel*` (HAL 1.0 to 1.3), `getSupportedOperations*`, capabilities, cache and buffer methods that refuse | exactly one `notify` per accepted call, agreeing with the returned status; a null model is never used |
| CPU and GNA prepared models (`cpu/`, `gna/`) | `cnnNetworkPtr`, `mPlugin`, `mNgraphNetCreator` | `initialize`, destructor | a model that cannot be built is refused, not fatal; every mapping is released once |
| Executions (`BasePreparedModel.cpp`, `IENetwork.cpp`) | the blobs of one `InferRequest`, detached threads | `execute*`, `executeSynchronously*`, `executeFenced`, `configureExecutionBurst` | one answer per call; NONE means the outputs are there; a failed call changes nothing; an answered request is left alone |
| Model information (`ModelManager`) | `mPoolInfos`, `mRequestPoolInfos`, `mOperands`, `mOutputShapes` | set, read, update and unmap pools; constants; output shapes | an execution reads and writes its own client's memory |
| Memory pools (`RunTimePoolInfo`) | a mapping per pool | `set`, `update`, `unmap_mem` | what is mapped is unmapped once, by its owner |
| Graph creation (`NgraphNetworkCreator`, `NgraphNodes`, `OperationsFactory`) | node per operand, parameters, results, names; the *static* `OperationsBase::sModelInfo` | construct, validate, connect, name | a graph is built from its own model; parameters and results match the request's inputs and outputs |
| Operation translations (about 80 classes) | none | `validate`, `createNode` | rules, index arithmetic and flags agree with NNAPI |
| Numeric helpers (`utils.cpp`, `NgraphHelper.hpp`) | none | padding, half floats, element counts, and the shapes and masks that operations compute with them | right at their boundaries |
| Build, packaging and CI | none | none | not modelled |

How they interact. A client calls `prepareModel`; the driver builds a prepared model synchronously and hands
it back through `notify`. The client then calls the execute methods on binder threads. `execute*` starts a
detached thread with a raw pointer to the model and returns; the other two run on the binder thread. All of
them go through the same program: map the request's pools into the model's vector, copy inputs into the
blobs of the single `InferRequest`, `StartAsync`, `Wait(10000)`, copy outputs out, commit the pools, answer.
**There is no lock anywhere in the repository.** When the client's last reference goes, the destructor unmaps
the pools.

What is hard: two executions at once on one model; a wait that gives up while the device works on; a model
destroyed under a detached thread; errors in the middle of the outputs; state (`isSufficient`, mapped slots)
left by earlier executions; two preparations at once over static state. `PROJECT.json` lists the hazards at
their lines.

## 2. The plan

The order follows what is most important to the clients of the service and hardest to test.

| | Module | What it adds | State |
| --- | --- | --- | --- |
| 1 | `PreparedModel` | executions of one prepared model, with all of their interleavings and failures, and what a careful client can rely on | modelled, checked, nine theorems |
| 2 | `ExecutionService`, `PreparedModelRefinement` | the abstract promise to a serial client, and that `PreparedModel` implements it | checked, its steps proved |
| 3 | `ModelPreparation` | `Driver` and `initialize`, over the static `sModelInfo` | modelled, checked, five theorems |
| 4 | `MemoryPools` | mappings from `set` to the destructors, over several models | modelled, checked, five theorems |
| 5 | `GraphConstruction` | `NgraphNodes`, `NgraphNetworkCreator` and the operations that connect themselves: nodes, parameters, results, the lazy name map and its race between executions | modelled, checked, four theorems |
| 6 | `OperationArguments`, `OperationTranslation` | what each operation reads and what `validate` refuses; element types, scales, axes and argument positions | modelled, checked, four theorems |
| 7 | `BinderThreads` | the pool of four threads of `service.cpp`, and `executeFenced` calls that keep one while they wait | modelled, checked, two theorems |
| 8 | `ExplicitPadding`, `HalfFloats`, `NumericHelpers` | explicit padding, half floats, element counts that wrap, shapes and masks, each against what was asked for | modelled, checked, six theorems |

Every invariant of a passing run is stated by a theorem, and every action property; what is left to TLC is liveness
(section 5).

## 3. The modules and the code

A thread is a program counter `at[x] = [pc, k]`: `pc` names a place in the code and `k` is the iteration of the
loop at that place. One action is one iteration of a loop, or one call that touches shared state; what lies
between two of them is local to the thread. `service` goes `"down"` when the code aborts (`nnAssert`), lets an
exception escape, or goes through a pointer or an index that is not valid: undefined behaviour is one of the
outcomes an action chooses from.

### PreparedModel (`BasePreparedModel.cpp`, `ModelManager.cpp`, `IENetwork.cpp`)

| State | In the code |
| --- | --- |
| `at`, `call`, `ret`, `answers` | the thread of an execution, its arguments, what `execute` returned, what its callback was told |
| `pools` | `mRequestPoolInfos`: for each slot the execution whose memory it maps, `Unmapped`, or `Absent` beyond `size()` |
| `insufficient` | the elements of `mOutputShapes` with `isSufficient == false` |
| `inBlob`, `outBlob`, `device`, `raised` | the blobs of the one `InferRequest`, the inference that runs, and those that threw |
| `overran` | the executions whose copy went past the end of a blob or a pool |
| `mem`, `dirty` | the clients' memory, and the pools written but not yet committed by `update` |
| `model` | whether `~BasePreparedModel` has run |

`Execute`, `ExecuteSynchronously` and `ExecuteFenced` are the HAL methods with their argument checks. The three
copies of the execution program (`asyncExecute`, `executeSynchronouslyBase`, `executeFenced`) are `Infers`:
`ResizePools`, `SetPool`, `CopyInput`, `StartAsync`, `WaitReturns` or `WaitTimesOut`, `CopyOutput`,
`UpdateRequestPoolInfos`, `Report`. What differs between the copies is kept where it differs: the status of a
pool that is not supported (`PoolFailure`), the shapes a fenced answer has no room for (`ShapesTold`), the fences
(`WaitFence`) and the single look at the deadline.

- A blob holds *whose* data it has, and an output the inputs it was computed from. The bytes are left out, and so
  is the padding of inputs by the client. Their lengths are not left out, because the copy into a blob takes the client's
  `location.length` unchecked (lines 181, 351 and 625): an omitted input leaves the blob to whoever wrote it before, a
  short one makes it `Mixed`, and a long one writes past its end. Where that lands is undefined. `Overrun` lets it damage
  any of the blobs, and `OverrunFaults` lets the service end at any later time; damage to a client's memory, or to the
  driver's own variables, is not modelled other than by that end. The same goes for an output that reaches past its pool
  (lines 255, 424 and 683): its length is compared with its blob, but not with the pool.
- A request may have no pools when all of its arguments are omitted. The lookup of the first input's pool then
  fails its `nnAssert` (`ModelManager.cpp:219`), whether the input has a node or not.
- `validateRequest` and the device are not in this repository. The model has them as the code uses them: a
  request is refused when a location names a pool it does not have, and the device replaces all output blobs when it
  completes, or throws. Lengths are taken not to be compared with anything there, so that what the driver itself does not
  check is not checked.
- `InferRequest::GetBlob` on a request that is running may throw where nothing catches it (`GetBlobThrows`).
- A detached thread copies its `shared_ptr`s from the raw pointer at its start (`Attach`, lines 148-150); from
  then on it keeps the network alive.
- `hardware_buffer_blob` pools are like ashmem to an execution; `MemoryPools` has them as a kind of their own.
- A burst is a server of Android's that calls `executeSynchronously`.

An execution is `Careful` as long as no other one is in flight together with it and it has not left `infer()` before its
inference ended. Nothing in the driver sees to that; it says what a client can rely on who sees to it itself.

### ModelPreparation (`Driver.cpp`, `CpuPreparedModel.cpp`, `GnaPreparedModel.cpp`, `NgraphNetworkCreator.cpp`)

A call is one binder thread in `prepareModel*`, `getSupportedOperations*` or `prepareModelFromCache*`. A model is
what can become of it: whether it is valid, can be mapped, has operands and inputs of known types, builds and
loads, and, for every operation, whether it reads a constant, from a memory pool or not, is refused, throws,
follows a null pointer (in `validate` or in `createNode`, which reads as a constant an operand that is none), or has
no class. The static `OperationsBase::sModelInfo` is a variable all calls share: `CreateFactory` sets it, and
`CreateOperation`, `ValidateOperation` and `ConnectOperation` read it. An operation that reads the information of a
different model may find anything (`Foreign`), so that its step may succeed, fail or end the service. `read` and
`overtaken` record what was read and who lost the static; no action depends on them.

`Fail` and `End` are the tails the methods share: `notify` and the return. The four versions differ in what they
check, which `Accepted`, `HasModelClass` and the disjuncts of `PrepareModel` keep apart; `CatchesLoad` is the
`try` block that CPU has and GNA has not.

### MemoryPools (`utils.cpp`, `ModelManager.h`)

A `RunTimePoolInfo` is its name, `buffer` and `memory`; a page of the process holds one mapping and says which pool
it maps. `Set` is one iteration of the loops over `RunTimePoolInfo::set`, and `Mapped` and `NotMapped` what it leaves
in the info: assigning `memory` drops the last reference to the ashmem mapped before, while the page of an earlier
`mmap_fd` or hardware buffer stays mapped. `Deinitialize` is one iteration of `unmapRuntimeMemPools`, which works on
copies, so that the buffer keeps its value; it runs twice, from the derived and the base destructor. `ReleaseInfo` is
the destructor of the `NnapiModelInfo`, which for the last model prepared is put off until `sModelInfo` is replaced.

The executions of one model follow each other here, because `PreparedModel` has them side by side. `Overlap` says
whether a model may be prepared while another one exists; the run has it `TRUE`.

### GraphConstruction (`NgraphNetworkCreator.cpp`, `NgraphNodes.cpp`, `OperationsBase`, the recurrent networks, `Split`, `TopkV2`, `Cast`)

| State | In the code |
| --- | --- |
| `model` | the operands and operations of its `NnapiModelInfo` |
| `at` | where the thread that prepares the model is: the operation it connects, and the removal it has come to |
| `nodes`, `params`, `results`, `names` | `mOutputAtOperandIndex`, `mInputParams`, `mResultNodes`, `mNodeNames` |
| `thread` | where each execution of the finished model is in its loops over inputs and outputs |

A node is who made it and the parameters it is computed from; a name is the node that has it, or `Empty`.
`CreateInputParams` makes the parameters; `CreateNode` is an operation up to its outputs, `RemoveInputNode` one call of
that name, `SetOutputs` the outputs that get a node, `ConnectCast` a `Cast`, `GenerateGraph` the function. `FindName` and
`InsertName` are the two halves of `getNodeName` when the name is not in the map, with the race in between; `GetBlob` is
the blob of that name.

- `Reads`, `Removes` and `Written` are what the operations do with optional inputs and several outputs: `Cifg`,
  `Peephole`, `Projection` and `LayerNorm` of `LSTM`, `ParallelLinking` and `AuxInputs` of `BidirectionalSequenceRNN`.
  All other operations are `"base"`: they read all of their inputs and set one output. `Quantize`, which connects
  itself, does the same.
- Scalars, tensor values, shapes and types are left out. What nGraph thinks of them is the `Refuse` that each step may
  take. Every output is taken to depend on all the inputs its operation reads, so a parameter that is removed although
  it was used is refused by the function.
- The removals of an LSTM come after its other inputs are fetched rather than between them. The preparing thread is
  alone, and fetching changes nothing.
- `Admitted` is what Android's `validateModel` and the operations' `validate()` have checked before. It is external, and
  does not say which optional inputs come together or how many outputs an operation has; `Consistent` says that, from
  NNAPI's rules, and only `OnlyDefectsFault` and `OmittedInputsHaveNoValue` use it.

### OperationArguments and OperationTranslation (`operations/`, `OperationsBase`, `NgraphNetworkCreator.cpp`)

`OperationArguments` has one definition per operation file, of the sequence of operands that are its arguments.
`Conv2d`, `PadV2` and so on say what `createNode()` reads: inputs as nodes, scalars with the number of bytes that
`ParseOperationInput` expects, vectors, and the dimensions it indexes. `Conv2dCheck` and so on say what `validate()`
wants. For convolutions and pools, `Conv2dArguments` and its like are functions from the names of `createNode()` to
positions, for explicit and implicit padding and each number of optional arguments.

| State of `OperationTranslation` | In the code |
| --- | --- |
| `model` | the operands and operations of its `NnapiModelInfo` |
| `at` | the phase (`validateOperations`, `createInputParams`, `connectOperationToGraph`) and the operation |
| `nodes` | `mOutputAtOperandIndex`: of each node the element type, and what its numbers stand for |

A node's numbers are `Real`, the integers of a scale, or `Wrong`. `DequantizeNode` makes integers `Real` if they have the
type and scale of the operand it is told, and `Wrong` otherwise; `QuantizeNode` is the other direction; `Computed` is
everything that nGraph computes in between, right if its inputs are. So `Wrong` spreads to all that is computed from it.
The axes of a tensor are a sequence of names that `Transposed` permutes as `transpose()` does.

- What `validate()` compares besides types, ranks and lifetimes (a `channelDim`, equal ratios, the elements of a slice) is
  the field `fits` of an operation, which may be either.
- The numbers in a constant are what the code can trip over (`Data`): a 0 that is a divisor, the 1 of SAME padding, a mask
  with bits beyond the rank, a vector that is too short for its indexes. For `RESHAPE`, a dimension to be stretched with 0
  for the product of the others counts as a 0; which dimensions have that product is in `NumericHelpers`.
- Reading an operand that is no constant as a scalar or vector follows a null pointer, unless it is a vector without
  elements (`sizeOfData`), and a scalar of another size fails an assertion; both are a fault. So is a null node,
  indexing dimensions that an operand has not, and a division by zero, be it by a number of the client (`divisors`: strides
  under SAME, groups, the other dimensions of a reshape) or by a dimension (`extents`: the weights of `FULLY_CONNECTED`, the
  channels of a depthwise convolution).
- A vector that is indexed beyond its end (`strays`: the output shape of `TRANSPOSE_CONV_2D`, the vectors and mask bits of
  `STRIDED_SLICE`) is undefined behaviour that may go unnoticed: the service ends, or the step goes on.
- nGraph may refuse anything, so that each step of the translation may be refused.
- `LSTM` and `BidirectionalSequenceRNN` are in `GraphConstruction`. The state that `RNN` returns first is zero (a TODO at
  `RNN.cpp:47`): its node has the right type, and values are left out.
- The types NNAPI admits (`Typed`), the positions it documents (`NnapiPosition`) and the axes of filters are external.

### BinderThreads (`service.cpp`, `BasePreparedModel.cpp`)

`configureRpcThreadpool(4, true)` gives the service `NumThreads` threads, and binder hands calls to them in the order of
their arrival. A call's number is its place in that order; `at` is where it is, `kind` which of three sorts of method it
is of. `Take` gives the next call to a free thread. `ExecuteReturns` is the detachment, after which a call needs no
thread; `WaitFences` is `syncWait(fd, -1)`, which keeps one. `Busy` are the calls that occupy a thread. `needs[c]` are the
calls that whoever signals the fences of `c` waits for: fences are external, and the model allows every such set, circles
included. What a call does with its thread is in the other modules.

### HalfFloats, ExplicitPadding and NumericHelpers (`utils.cpp`, `NgraphHelper.hpp`, `operations/`)

`HalfFloats` has `f32tof16`, `f16tof32` and `float2half` on bit patterns, the rounding of the float addition in
`f32tof16` included. `ExplicitPadding` has `calculateExplicitPadding` in exact integers. `NumericHelpers` is a machine
that serves one call: it computes the shapes of `Reshape`, `FullyConnected` and the grouped convolutions with an `int` of
`Width` bits (`Int32`, `Unsigned`, `Quotient`, which cuts towards zero), runs the loop of `getMaskBits` bit by bit, and
stops the service at a division by zero or a write behind the vector. `Reshaped` is nGraph's reshape, external.

- The multiplication of dimensions is modelled by its result modulo `2^Width`, which is what a chain of wrapping
  multiplications gives. Paddings are small next to an `int` and do not wrap.
- Negative strides are left out: nGraph takes them for huge ones.
- No operation calls the conversions of halves at this commit; they are checked as the library they are. An infinity, or
  a NaN, comes back from `f32tof16` with its sign set: it is shifted to 18 bits and cut to a `short` (`utils.cpp:246`).
- The formula in the comment at `utils.h:64-79` subtracts `output_size` where the code subtracts the size of the input;
  the module follows the code, and `SamePaddingFits` shows that the code is right.

### How they fit together

`ModelPreparation` ends where `PreparedModel` begins: a call told `NONE` is a model whose `model` is `"live"`.
`PreparedModel` takes for granted what a mapping is; `MemoryPools` looks at nothing else. `GraphConstruction` is what
`ConnectOperation` of `ModelPreparation` does to the graph, and where the names that `PreparedModel` takes as fixed
(`NamedInputs`, `NamedOutputs`) come from. `OperationTranslation` looks at what is inside
the nodes of `GraphConstruction`, and decides what `ModelPreparation` leaves open in its `refused`, `scalar` and faulting
operations. `BinderThreads` says which calls of those modules get to run, and they say what a call then does.
`NumericHelpers` computes the shapes that `OperationTranslation` takes for granted. The service process of all of them is
the same, so `service = "down"` in one is the end of all.

## 4. The runs

| Run | Asks | Answer |
| --- | --- | --- |
| `execution_serial` | a client with one execution in progress at a time: is every answer true, is the data right, does every call end, and does the driver implement `ExecutionService`? | yes |
| `execution_concurrent` | two executions at once, an inference that outlasts its wait, a client that drops the model early: what still holds? | answers and liveness for all; data for an execution that met no other and whose inference ended in time; and only careless clients, or ones with an argument that nobody checks, bring the service down |
| `pool_index` | can the `nnAssert` on a pool index fail for valid requests? | yes: finding 1 |
| `detached_thread` | does the model outlive its detached threads? | no: finding 2 |
| `model_preparation` | two calls on models at once, every version, three devices, and models that fail at every step: who is notified, what is a prepared model built from, what ends the service? | all properties hold, with the exceptions they name |
| `model_race` | can the length assertion of a scalar constant fail for two valid models? | yes: finding 4 |
| `memory_pools` | two models, at the same time or one after the other, in an address space that is reused: do buffers map the right pools, and is what is mapped released? | yes, but for a model that is destroyed and unmaps twice, or a stale `IMemory` |
| `graph_construction` | optional inputs given and omitted in every way, too many or too few outputs, casts, shared inputs, then two executions: are parameters, names and results those of the model, and what ends the service? | all properties hold, with the exceptions they name |
| `operation_translation` | every kind of operation in each of its forms, with one argument deviating, and two operations that pass a tensor on: are types, scales, axes and positions right, and what gets past `validate`? | all properties hold, with the exceptions they name |
| `omitted_inputs` | can optional inputs have the lifetime that a comment expects of them? | not those of a bidirectional network: finding 3 |
| `numeric_helpers` | shapes, groups, paddings, masks and floats on both sides of every bound, for an 8-bit int: is the result what was asked for? | yes, with the exceptions the properties name |
| `binder_threads` | two threads and four calls of every kind, with fences that need any other calls: can all threads wait for calls that have none? | not if fences need only earlier calls, nor while fewer calls than threads have such fences |

### What the properties say

*Executions.* `AnswerDiscipline`: one answer per call, at its end, and consistent with what `execute` returned.
`OutputDataUpdated`: after NONE every output is in the client's own memory, and committed; it is computed from its own
inputs if it gave them all at their length (`Sized`): an omitted or short input leaves bytes of an earlier execution in
the blob, and the answer is NONE all the same. `AnswerTellsTruth`: what each status lets the client rely on, with the
outputs reported short and those already delivered. `AnsweredRequestsAreLeftAlone`: nothing is written to a client's
memory after its answer. `OnlyUncheckedArgumentsEndService`: a serial client ends the service with one of three
arguments that nobody checks, no pools at all, an input longer than its blob, or an output beyond its pool, and in no
other way. `EveryCallEnds`: liveness. `ImplementsExecutionService`: the refinement, steps and fairness.
`CarefulExecutionsDeliver`: with concurrency, timeouts and early release all allowed, an execution that no other
overlapped and whose inference ended within its wait still delivers, whatever others did before and after it.
`CarefulClientsStayUp`: what can end the service during executions is two of them at once, an inference that outlives
its wait, a model destroyed under an execution, or one of the arguments that nobody checks.

*Preparation.* `NotificationDiscipline`: one notification, at the end, agreeing with the return value; without one
only for a null callback or for a device that has no model class (where the code returns `INVALID_ARGUMENT` and does
not notify). `PreparedFromOwnModel`: a model that is handed out was accepted and mapped, and, unless another creation
replaced `sModelInfo`, all of its operations were validated and connected from its own information. `SupportAgrees`: a
model that one client got prepared is a model whose operations another is told are all supported; the two answers
come from different loops. `FailuresContained`: the only ways a call can end the service. Each of its disjuncts is a
place in the code, reached in the run: the null model of `prepareModel_1_3`, the unchecked callback of
`prepareModelFromCache`, GNA's load outside a `try` block, a query that reads a constant in a pool that nobody
mapped, an operation that follows a null pointer, and `sModelInfo`. `EveryPreparationEnds`: liveness.

*Pools.* `PointersKept`: while a graph is built, and while an execution uses its pools, every buffer maps the pool it
was set for, through whatever other models do; the only step that takes a pool away is one that frees its page on behalf
of a different info that still points there (`Frees`). There are two such infos: one that its `deinitialize()` has unmapped
already and now unmaps again (`unmap_mem` at `ModelManager.h:190` resets copies, so that both destructors unmap the page,
which may have been given to another model in between), and one whose `IMemory` outlived an `mmap_fd` mapping that was set
over it. It is an action property, so that the exception is the step itself. Of models that do not overlap there is no
exception (`SerialPointers`).
`AshmemReleased`: no ashmem mapping is lost. `HeldUnmapped`: a destroyed model has unmapped each
`mmap_fd` page that an info of its request vector still points to. The model's own pools are no part of it:
`unmapRuntimeMemPools` (`ModelManager.h:189`) walks `mRequestPoolInfos` alone, so that `mmap_fd` pages of `mPoolInfos` stay
mapped for as long as the service lives. Nor are what `set` overwrote before and hardware buffers ever
unmapped: the model says so (`Mapped`, `Unmaps`, `Deinitialize`) and the properties ask nothing of them.

*Graphs.* `BlobsFound`: each input and output of a finished model has a name for which there is a blob, or is to be
passed over. Its exceptions are reached in the run: an output that no operation set, and an input that a
`Cast` passed on under its own name and a later operation removed. `EveryParameterIsFed`: each parameter of the
function belongs to an input that executions copy to it, so no inference computes with a blob that nobody wrote.
`OnlyDefectsFault`: only a model that breaks NNAPI's rules about optional inputs and numbers of outputs, or two
executions that race for `mNodeNames`, ends the service; all combinations of the flags of an LSTM are behind it.

*Operations.* `NodesFitOperands`: each operand's node has its element type and, if it is quantized, integers of its
scale, through any mixture of quantized and floating-point operations. `AxesAgree`: data, filters, strides, paddings,
dilations and kernels reach nGraph with the axes it wants, results return to the layout they came in, and every argument
comes from the position that NNAPI documents for its name. `OnlyUncheckedFaults`: a service that goes down was given an
argument of the kinds `Unchecked` lists; the constants that `validate()` asks for, and the empty tensors it refuses, do
no harm, and only numbers out of NNAPI's range (`OutOfRange`: strides of 0 under SAME, no groups or channels, an output
shape without four dimensions, masks and vectors that do not have the rank) divide by zero or lead beyond a vector. The
exceptions are defects of the code that the run needs (without any one of them the property is violated): the scale of a
per-channel bias is that of operand 0 of the model (`Borrowed`, `Conv2d.cpp:186` and three copies); `QUANTIZE` and
`SPLIT` put signed integers into `u8` (`SignedAsUnsigned`); `CAST` compares the types of operations it knows nothing of
(`Miscast`, `Cast.cpp:25`); `GROUPED_CONV_2D` passes its strides, paddings and dilations width first; and the scalars,
numbers, output shapes, batch indices, ranks and casts of `Unchecked`.

*Threads.* `OrderedCallsNeverStick`: while a call is unanswered, something can move, if fences need only calls made before
the one that waits. `OrderedCallsAreServed`: then every call is answered. `IndependentCallsAreServed`: in any order, and
with fences in circles, calls whose fences need no call are answered as long as fewer than `NumThreads` calls have fences
that do. The bound is tight: with as many as there are threads, all threads wait, and the call that would wake them stays
in the queue (`executeFenced` has no timeout for its wait).

*Numbers.* `ShapesAsAsked`: a valid request whose elements an `int` can count gets the shape it asks for; beyond, the
service may refuse or trap but computes nothing of another shape. `PaddingAsAsked`: the padding makes room for one window
per stride, no less padding does, and its halves differ by one at most. `MaskAsAsked`: a mask without bits beyond its rank
is spelled out, and nothing is written behind the vector. `HalvesAreNearest`, `HalvesRoundTrip`: conversions agree with
the nearest half, ties and carries included; what becomes of subnormals, overflow, infinities and NaNs is spelled out.

### Bounds

- *Executions*: two executions, two inputs, two outputs, two pools. Two of each tell first from last, let a later
  iteration fail after an earlier one has succeeded, put inputs and outputs in the same and in different pools, and let
  one execution shrink the vector of another. The requests (`MCPreparedModel`) have one pool or two, of two kinds, a
  short first or second output, a token, a location beyond the pools, an output of unspecified size, an omitted and a
  short input, and each of the arguments that nobody checks (`UncheckedRequests`). In the concurrent run one input has
  no node, and the requests are `MixedRequests`: two pools of both kinds, one `mmap_fd` pool with a short output, and no
  pools. Inputs and outputs that overrun are in the serial run only, where the damage they do meets a second execution;
  the theorems have them with any number of executions at once.
- *Preparation*: two calls, models of up to three operations, each failing in one way; CPU, GNA, and GPU for the devices
  without a model class (VPU takes the same branches). A race over one static needs two threads: one that lost the
  static, and one that took it.
- *Pools*: two models, `MaxExecutions = 2` executions of each, three pages, requests of one or two pools of all four
  kinds in the orders that `set` tells apart (`SomeRequestPools`). Two executions give an info that was set before, in a
  vector that grew or shrank, with a pool of another kind in its place. Two models in one address space give a page that
  was handed on; the third page lets both have one while a request maps two. When no page is free, `set` fails; it may
  also fail at any time. The pages are symmetric: `PageSymmetry` is sound, as no property of the run is a liveness
  property and no constant names a page; `PointersKept` looks at single steps.
- *Graphs*: 221 models of one or two operations, each optional input in four forms (fed by the client, constant,
  zero-sized, `NO_VALUE`), groups of them in all forms together and in the mixtures that the flags tell apart, one to
  four outputs; pairs of operations that share or remove an input, and casts before them. Operations meet only through
  operands, which two of them show. Two executions suffice for a race on the map.
- *Operations*: 17362 models. Every kind has each number of its optional arguments, in explicit and implicit form, and
  types that are floating-point, quantized, signed and per-channel. One argument at a time is fed by the client,
  constant, omitted, without rank, empty, empty and fed by the client, or a constant with each of the numbers of `Data`,
  as the checks look at one argument each; results are of the same and of another scale. Two scales tell a right scale
  from a wrong one, and chains of two operations a reader from a writer. `CastModels` have a cast that is taken for one
  of equal types and hands on a node that is not there.
- *Threads*: two threads and four calls: one more dependent call than the threads can hold, and one beyond them that
  waits in the queue. All 2^3 sets of needs for each fenced call.
- *Numbers*: an `int` of 8 bits, so that counts of three dimensions fill it, wrap to zero, to -1 and to the lowest
  `int`; paddings of sizes to 12 with strides to 5 and filters to 6; masks that are negative or exceed their rank;
  floats and halves on both sides of each bound the code compares with, and at each kind of rounding.

### Fairness

`WF_vars(Runs(e))` and `WF_vars(Runs(c))`: the kernel schedules each thread that has work to do. Nothing in the code
waits for another thread, so nothing stronger is needed. A fence that is waited for is settled by its owner
(`syncWait(fd, -1)`: the code has no timeout there); this is part of the fairness of `Runs`, and liveness of
`executeFenced` depends on it. `DeviceFinishes` is fair unless `InferMayTimeOut`; then it may never happen, `Wait(10000)`
gives up by itself, and every call still ends. Clients are not fair: none has to call, or to drop its model.
In `BinderThreads`, `WF_vars(Take)` says that binder uses a free thread, `WF_vars(Serve(c))` that a thread runs, and
`WF_vars(FencesSignal(c))` that whoever signals the fences of `c` does so once it has the answers it needs; `Send` and
`FenceFails` are not fair. `MemoryPools`, `GraphConstruction`, `OperationTranslation` and `NumericHelpers` have no
liveness property.

## 5. What is proved

The theorems hold for every value of the constants that satisfies the named assumptions, which say only of what type
the constants are, that sizes are positive, that models have operations, that sentinels are distinct from values, and
what NNAPI itself guarantees of a model and its operations (`Admitted`, `Formed`, `Called`). TLC evaluates all of them on
every run. Theorems about a serial client have its conditions as a hypothesis: `SerialClient == Serial /\ ~InferMayTimeOut
/\ ~ReleaseEarly`, the flags that the run `execution_serial` sets.

| Module | Theorem | Says |
| --- | --- | --- |
| `PreparedModel_proofs` | `TypeCorrect` | `Spec => []TypeOK`, the bounds of the loops included |
| | `AnswersDisciplined` | `Spec => []AnswerDiscipline`: serial or concurrent, with timeouts and early release |
| | `CarefulDeliver` | `Spec => CarefulExecutionsDeliver`: any number of executions at once, timeouts, early release |
| | `CarefulStayUp` | `Spec => CarefulClientsStayUp`, likewise |
| | `SerialDataUpdated` | `SerialClient => (Spec => []OutputDataUpdated)` |
| | `SerialStaysUp` | `SerialClient => (Spec => []OnlyUncheckedArgumentsEndService)` |
| | `SerialAnswersTell` | `SerialClient => (Spec => []AnswerTellsTruth)` |
| | `SerialLeftAlone` | `SerialClient => (Spec => AnsweredRequestsAreLeftAlone)` |
| | `ImplementsService` | a serial client sees `ExecutionService`: `Service!Init /\ [][Service!Next]_Service!vars` |
| `ModelPreparation_proofs` | `TypeCorrect` | `Spec => []TypeOK`, the bounds of the loops included |
| | `NotificationsDisciplined` | `Spec => []NotificationDiscipline`, races on the static included |
| | `PreparedFromOwn` | `Spec => []PreparedFromOwnModel`, likewise |
| | `SupportAgreed` | `Spec => []SupportAgrees`, likewise |
| | `FailuresStayContained` | `Spec => []FailuresContained`, likewise |
| `MemoryPools_proofs` | `TypeCorrect` | `Spec => []TypeOK`, the bounds of the loops over `set` included |
| | `AshmemNeverLost` | `Spec => []AshmemReleased`, models overlapping or not |
| | `HeldIsUnmapped` | `Spec => []HeldUnmapped`, which is about the infos of requests |
| | `PointersStay` | `Spec => PointersKept`, models overlapping or not |
| | `SerialPointers` | `~Overlap => (Spec => []FilledKept)`: without overlap no buffer ever loses its pool |
| `GraphConstruction_proofs` | `TypeCorrect` | `Spec => []TypeOK` |
| | `ParametersFed` | `Spec => []EveryParameterIsFed`, for all models that `Admitted` allows |
| | `BlobsAreFound` | `Spec => []BlobsFound`, likewise |
| `GraphFaults_proofs` | `DefectsOnlyFault` | `Spec => []OnlyDefectsFault`, likewise |
| `OperationTranslation_proofs` | `TypeCorrect` | `Spec => []TypeOK`, for all models that `Admitted` allows |
| | `NodesFit` | `Spec => []NodesFitOperands`, likewise |
| | `AxesStayAgreed` | `Spec => []AxesAgree`, for all models in the forms of NNAPI (`Formed`) |
| | `OnlyUncheckedFail` | `Spec => []OnlyUncheckedFaults`, for all such models with the arguments NNAPI gives them (`Called`) |
| `BinderThreads_proofs` | `TypeCorrect` | `Spec => []TypeOK` |
| | `OrderedCallsProgress` | `Spec => []OrderedCallsNeverStick`, for any number of threads and calls |
| `NumericHelpers_proofs` | `SamePaddingFits` | the padding is right for every size, stride and filter from 1 |
| | `PaddingIsSame` | `Spec => []PaddingAsAsked`, for any calls |
| | `NearestHalf` | `Spec => []HalvesAreNearest`, for all bit patterns |
| | `HalfRoundTrip` | `Spec => []HalvesRoundTrip`, for all bit patterns |
| | `MaskSpelledOut` | `Spec => []MaskAsAsked`, for every rank up to the width of an int |
| | `ShapesFit` | `Spec => []ShapesAsAsked`, for all dimensions and every width of an int up to 32 bits |

*PreparedModel.* `AnswerDiscipline` speaks of calls that have been answered; that there is one answer needs to know
that there was none before. `IInv` adds `ControlOK`: a running thread has no answer yet, passed its checks, has a
return value that fits its kind, and counts within the loop it is in; and `EndOK`, for calls at their end. The proof
goes action by action over a few lemmas about `Goto`, `Iterate`, `Fail` and `Answer`.

`CarefulExecutionsDeliver` is an implication between histories: an execution that is careful all along delivers. So its
invariant is kept only under `Careful(e)` before and after each step. `CarefulInv(e)` has four parts. `PoolsOK` says
that the slots up to the loop's iteration map the pools of `e`; `BlobsOK`, that the blobs hold its inputs, and after the
wait its outputs; `MemoryFollows`, that the outputs delivered so far are in its memory; and `LeftBehind`, that no
execution which runs after `e` has been answered has a slot of `e` among those it uses. Whatever the other executions do
in the meantime changes none of it, since none is in flight together with `e`, and a late device writes to the blobs
only between two careful executions. `Committed` needs that the model lives as well: an `mmap_fd` pool that the
destructor has unmapped is reported without its `msync`. `DownInv` follows what has preceded the end of the service: a
thread that outlived its model, or an argument that nobody checks, which every execution in `overran` has given
(`OverranInv`). For a serial client `SerialInv` says that everybody is careful and keeps the model, so that `SInv` is
the same invariant for all executions at once; `RInv` adds which pools are `dirty`, for the data behind each status and
for the steps of the refinement. There, `Submit`, `Refuse` and `Complete` of `ExecutionService` are each one step of the
code (the call, its refusal, its report), `GoDown` is the step that loses the service to an unchecked argument, and all
other steps stutter.

*ModelPreparation.* `IInv` is of the same form: a call that works was admitted (a preparation with a callback and for a
device with a class, or a query that is not beyond its validation), has been told nothing, and counts within its
operations. `StaticSet` adds that `sModelInfo` is some call's once a call translates, without which `read` has no type.
That a query never reaches `"inputs"` is what makes its single end in the validation loop the only one. `ModelsOK` adds
the other properties' part: what has been checked of the model where a call is (`ModelOK`), and that the operations already
passed were read from the call's own information and not refused, unless the static was taken from it (`OwnOK`).

*MemoryPools.* `AshmemReleased` is inductive together with the types: a page is freed only with the info that holds its
`IMemory`, and a page that `set` takes was free. `HeldUnmapped` is not: in the middle of the two destructors only a
part of the vector is unmapped. `HInv` says it of the infos that the loops have passed (`Passed`), which is all of
them from the second destructor on. The kernel may hand on an unmapped page: the page then belongs to another model,
because a model that is destroyed sets no pools. `PointersKept` follows from `IInv`, case by case over what frees a page.
For models that do not overlap, `SerialInv` has `FilledKept` itself, that the buffers and memories of all infos are true to
the pages they point to (`BuffersTrue`, `MemoriesTrue`), and that one model is alive (`OneAlive`).

*GraphConstruction.* `EveryParameterIsFed` speaks of finished graphs; `ParametersOK` says it of graphs that are being
built, where a parameter's operand still has it for its node (no operation writes an operand that another one reads)
and no name but its own. `RemovalOK` bounds the removals, and `ThreadsOK` says that an execution that inserts a name has
found a node, without which `names` has no type. For `BlobsFound`, `NamesOK` adds what happens in between: a name is its
operand's node or `""` (`NamesFollow`); a removed parameter leaves an operand with its node and the name `""`
(`InputsOK`), which stays so because only inputs of operations already reached have names (`ReachedOK`) and those are
not written any more; and an output's node is a result (`ResultsOK`).

*GraphFaults.* `OnlyDefectsFault` needs that nothing the code reaches for is missing. `SInv` adds to the invariant above
that a consistent model has nodes for the outputs of all operations already connected (`WrittenOK`), no null result, and
passes over only inputs of the model (`PassedOverOK`), and that an execution fetches blobs under names (`AskedOK`).
The lemmas about the operations carry it: whatever the flags of an LSTM or a recurrent pair of cells choose to read is
given and has a node (`ReadsNodes`), what they remove has one too (`RemovesInputs`), and they set every output
(`WritesItsOutputs`).

*OperationTranslation.* `TypeOK` needs that what an operation reads as a node is among its arguments (`ReadsInRange`), which
is shown for groups of kinds with the same reads, from the least number of arguments NNAPI gives each kind.
`NodesFitOperands` is inductive with the types as `FInv`, which keeps its condition apart: the model has none of the three
defects (`Harmless`), and then every node fits its operand (`FitOK`). The chain of lemmas is that of the code: inputs that
fit are dequantized to the numbers themselves (`InputReal`), so what is computed from them is right (`ComputedReal`), and
quantizing it to the type and scale of the result makes a node that fits (`QuantizeFits`, `BaseFits`); `OwnFits`,
`RecurrentFits` and `CastFits` are the operations that connect themselves. Without `Harmless` none of this holds, since each
defect makes a `Wrong` node of inputs that fit.
`AxesAgree` is a fact about models rather than a history. Its long part is that arguments come from NNAPI's positions: the
names are lists at offsets (`Run`), and `Lists` and `Joined` put them together as the forms do, so that every form of a
convolution or pool is one chain of offsets (`NamesAgree`).
`OnlyUncheckedFaults` needs a history again. `GInv` keeps three things: the checks of all operations looked at have held
(`Accepted`); inputs with elements, and the results of operations already connected, have nodes, but for what a cast
made (`FilledBefore`); and the property. The rest says of each kind that what `createNode()` reads is what `validate()` and
NNAPI give it: every scalar has the width it is read with (`ScalarsWide`, from the types NNAPI gives the arguments at
their positions, and for convolutions and pools from `Named` above), what is read as a node is a tensor
(`NodesAreTensors`), vectors are constants and shapes have their ranks (`VectorsThere`, `ShapesThere`). An operation whose
scalars are constants in range and whose tensors have elements divides by no zero (`DivisorsThere`, `ExtentsThere`), indexes
no vector beyond its end (`NoStray`, `NoCheckStrays`) and so is not `Faulty` (`NotFaulty`), and makes a node for every result
(`OutputThere`).

*BinderThreads.* The oldest unanswered call can always move: all before it are answered, so the fences it may wait for
have signalled, and if it is still in the queue then no call before it keeps a thread and none after it has one. "The
oldest" needs the least-number principle, which is proved here from the cardinality of finite sets (`Least`).

*NumericHelpers.* The integers of paddings are exact, as they do not wrap. `DivBounds` and `DivUnique` characterise a
quotient by the multiples around it; `OutSizeIsCeiling` shows that the code's quotient is the number of strides that begin,
and the rest is linear in the padding that is missing.

The halves are proved per range of the exponent, for all bits at once: the cases of `Narrowed`, `Halved` and `Shifted` are
the branches of the code, and in each of them the distance to the half is linear in the mantissa. A subnormal half has a
divisor for each of its eleven exponents. The mask keeps as its loop invariant that what is left of the value is the mask
divided by the power of two it has come to, and that bits beyond are zero when the power exceeds the mask. `ShapesAsAsked`
needs products of dimensions of any rank: `Elements` is a recursive function on the number of factors, about which one
proves by a least counterexample (`LeastNumber`, from the library's well-founded induction) that it is positive where all
dimensions are, splits where a sequence does, and grows with its factors. With that, `IntsFit` says that nothing wraps below
`2^(Width - 1)`, and above it whatever the wrapped count divides to, nGraph's own check of the true product refuses it.

*Only model-checked:* the liveness properties `EveryCallEnds`, `EveryPreparationEnds`, `OrderedCallsAreServed`,
`IndependentCallsAreServed` and the fairness part of `ImplementsExecutionService`, since the provers have no rules for
fairness and ENABLED.

## 6. Findings

1. **`PoolIndexInRange`** (`ModelManager.cpp:219`): the pools are asserted to be those of the request, but they belong to
   the model, and a concurrent execution resizes them. A valid request aborts the service.
2. **`DetachedThreadOutlivedByModel`** (`BasePreparedModel.cpp:135`): the thread is detached "because the driver service
   is expected to live forever", but what it points to is a model that its client may drop.
3. **`OmittedInputsHaveNoValue`** (`BidirectionalSequenceRNN.cpp:46`): an optional input is "supposed to be NO_VALUE", but
   `removeInputNode` of such an input asks a null node for its name.
4. **`ConstLengthMatches`** (`OperationsFactory.cpp:14`): two models prepared at once read each other's operands through
   the static `sModelInfo`; the assertion on the length of a constant fails for valid models.

Other defects are exceptions that a property names, and the passing run needs each of them: the dropped status of
`Wait(10000)` (`Careful`, `IENetwork.cpp:74`), the arguments of a request that nobody checks (`Unchecked`,
`ModelManager.cpp:219`, `BasePreparedModel.cpp:181` and `255`), the second unmapping (`PointersKept`), and those
listed under *Preparation* and *Operations* above.

## 7. What is not modelled

- *The run-time operands* that an execution updates (`getBlobFromMemoryPoolIn`, `getBlobFromMemoryPoolOut`), and the sizes
  stored with them: nothing reads them after that.
- *Axis numbers, crops and block sizes* that operations pass on: nGraph checks them.
- *Values of tensors and padding of inputs*: the properties ask whose data an output was computed from.
- *What a copy past the end of a blob or pool hits*, other than the blobs of the plugin and the life of the service. A
  property that speaks of other state after such a copy (`AnsweredRequestsAreLeftAlone`, say) takes it to be unharmed.
- *OpenVINO, nGraph and Android's utilities* are outside of the repository: they are modelled as the code uses them.
- *The debug files* that `initialize` serializes its graph to, the same two for every model (`CpuPreparedModel.cpp:49`), so
  that preparations at once interleave their writes, and the helpers that write them: nothing reads them back.
- *Methods of `Driver` that answer constants*, and `configureExecutionBurst`, which hands the model to Android's burst
  server: they change no state.
- *Build files.*
