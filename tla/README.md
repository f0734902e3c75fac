# nodeclrhost in TLA+

A verification development for nodeclrhost, which hosts .NET inside a node or
Electron process and runs Blazor components in an Electron renderer. It holds
TLA+ modules translated from the source, TLC configurations that check them on
small instances, and theorems that TLAPS proves for every value of the
constants. `PROJECT.json` names, for each definition, the lines it models.

## 1. The system

Everything meets on one thread, the node thread of a process or of a worker: JavaScript runs
there, and so must all .NET code that touches JavaScript. Other .NET threads
reach it through a task scheduler. The parts, bottom up:

| Part | State | Operations | Talks to |
|---|---|---|---|
| **Runtime start** `dotnethost.cc` | process-wide `shared` Impl, `initialization_done_` | `Create`, `Instance`, `GetManagedFunction` | hostfxr / coreclr; every thread that calls `runCoreApp` |
| **Application context** `context.cc`, `NativeEntryPoint.cs` | thread safe function (TSFN) and its count, pending finalizers, closing callback | `RunCoreApp`, `SignalEventLoopEntry`, `SignalMicroTask`, `CreateFunction`, `Close`, destructor | node (N-API), the managed host through function pointers |
| **Task scheduler** `NodeTaskScheduler.cs` | `_activeThread`, `_microTasks`, `_closedEvent`, GCHandles | `QueueTask`, `TryExecuteTaskInline`, `OnProcessMicroTask`, `OnProcessJSEventLoopEntry`, `RunCallbackSynchronously` | TPL above, context below |
| **Native host** `NativeNodeHost.cs` | `_registry` of callbacks, `_taskRegistry` of promises | `MarshallCallback`, `MarshallTask`, `Release…`, `Invoke`, `GetMember`, … | scheduler, context |
| **Value marshalling** `DotNetValue.cs`, `JsValue.cs`, `JsDynamicObject.cs`, `InvokeHelper.cs`, `dotnethandle.h`, `jshandle.h` | who owns each JsHandle, GCHandle, string and callback | conversions in both directions, `Dispose`, finalizers | native host |
| **Native memory** `NativeMemory.cs` | `TrackedMemory`, reference counts, release callback | `Create`, `AddReference`, `Dispose`, finalizers | application code, ArrayBuffers |
| **Call queue and renderer** `ElectronCallQueue.cs`, `ElectronRenderer.cs`, `ElectronJSRuntime.cs` | `_isCallInProgress`, `_pendingWork`, byte arrays in transit | `Schedule`, `ProcessPendingRender`, `UpdateDisplayAsync`, begin/end of interop calls | JS interop dispatcher, Blazor's Renderer |
| **Batch stream** `ReusableArrayBufferStream.cs`, `RenderBatchWriter.cs`, `OutOfProcessRenderBatch.ts` | buffer, length, position | write / read a render batch | renderer, browser renderer |
| **JS interop dispatcher** `Microsoft.JSInterop.ts` | pending calls, object table, byte arrays, streams | invoke / begin / end in both directions | `ElectronJSRuntime` |
| **Data streams** `PullFromJSDataStream.cs`, `TransmitDataStreamToJS.cs`, `StreamingInterop.ts` | offset, stream controllers, promises of streams | read a chunk, cancel, send a chunk | dispatcher |
| **Navigation** `ElectronNavigationManager.cs`, `NavigationManager.ts` | history index, pending question, popstate callback | navigate, popstate, `endLocationChanging` | browser history |
| **Browser renderer** `BrowserRenderer.ts`, `LogicalElements.ts`, `DomSpecialPropertyUtil.ts` | logical children arrays beside the DOM, deferred values | apply edits, attach, dispose | batch, DOM |
| **Event delegation** `EventDelegator.ts` | infos by handler id, per element, counts per event name | set / update / remove listener, dispatch | DOM, `DispatchEventAsync` |
| **Root components** `JSRootComponents.ts`, `ComponentDescriptorDiscovery.ts`, `WebAssemblyComponentAttacher.ts` | pending containers, component ids, descriptors found in the page | add, setParameters, dispose, discover, attach | interop, logical elements |
| **DOM merging** `DomSync.ts`, `EditScript.ts` | none (algorithms) | minimal edit script | enhanced navigation |
| Host building, logging, widgets, boot, enhanced navigation | little of their own | start-up wiring | all |

### What is hard, and what correctness means

*One thread, two languages.* JavaScript frames and .NET frames alternate on the
node thread's stack. Whether .NET code "is in the context" is one field,
`_activeThread`; the choice between the two task queues, and between running a task in place or
refusing, depends on it. **Correct**: it tells the truth through any nesting.

*Two queues that must stay one.* Tasks queued in the context go to a managed
queue and, separately, a data-less call goes to V8's microtask queue.
**Correct**: the k-th call meets the task it was queued for, among JavaScript's
own microtasks, even when tasks are executed in place or tasks queue tasks.

*Threads against closing.* Any thread may signal while the node thread
closes the context. **Correct**: until closing begins nothing is lost, leaked or run twice; the
count of the TSFN is exact; a thread that waits is answered.

*Ownership across a boundary.* A JsHandle, a GCHandle, a callback or a block of
memory is owned by exactly one side at a time, and the sides have finalizers,
reference counts and error paths. **Correct**: released once, after the last use.

*Asynchronous answers.* Promises, interop calls, navigation questions and
streams are answered later, out of order, twice or never. **Correct**: each
question gets its own answer, once, and what an answer refers to is still there.

*A DOM beside a model of it.* The renderer addresses DOM nodes by index into
logical arrays, and listeners by ids that are replaced in place. **Correct**: the
two structures never disagree, and counts of listeners match the listeners.

`PROJECT.json` lists the hazards at their lines; each names the properties
that would catch it.

## 2. Plan

Order: the thread and task core first, since everything else runs on it; then
memory and runtime start, whose races no test reaches; then ownership; then the
interop and rendering layers.

| # | Module | Composes / refines | Checks | Proofs |
|---|---|---|---|---|
| 1 | `NodeScheduler`, `TaskService` | the detailed scheduler implements the abstract service | one run | type, context, queue, handle and count invariants, execution once, refinement: **done** |
| 2 | `NativeMemory` | | counting, entries, release; the race of release and reuse as a violation | types, exact count, current entries, freed once: **done** |
| 3 | `DotNetHost` | | one start, waiters, failures | one start, ready before use: **done** |
| 4 | `JsCallQueue`, `CallOrder` | queue, renderer and JavaScript callers implement the order of calls | order, handlers, answers, also when an answer throws; byte arrays as a violation | nesting, handlers, order without its fairness: **done** |
| 5 | `TaskPromise` | uses `TaskService`, not the detailed scheduler | promises settle once and tell the truth; the unsupported result as a violation | settled once with the outcome, closing after Main: **done** |
| 6 | `JsHandles`, `DotNetValues` | one run for the two directions | ownership on every path, release by one owner | one owner, checked reads, one releaser: **done** |
| 7 | `EventDelegation` | | tables, counts, dispatch | live handlers, listeners, bubbling: **done** |
| 8 | `LogicalTree` | DOM beside the logical tree beside .NET's tree | structure | none: recursive operators |
| 9 | `RenderBatchFormat` | writer, stream and reader | what is written is what is read | none: recursive operators |
| 10 | `RootComponents` | JavaScript and .NET with the calls between them | roots, containers, callbacks | the agreement of both sides: **done** |
| 11 | `Navigation` | browser history beside .NET's location | who follows whom; the lock as a violation | .NET follows the page: **done** |
| 12 | `EditScript`, `DomMerging` | the edit script beside its definition, and the merging that follows it | content, minimal edits | both, for lists of any length and any depth: **done** |
| 13 | `FormValues` | the renderer beside the browser's rules for a select | the value shown | the value shows: **done** |
| 14 | `JsMembers` | the interop's checks beside JavaScript's own rules | which calls are refused, what is read and written | calls follow the member: **done** |
| 15 | `JsReferences` | the object table with .NET's references and the open calls of both sides | who can give an object up; a throwing answer as a violation | the accounting: **done** |
| 16 | `DataStreams` | reader and page | chunks, overlapping reads; the stream that does not come as a violation | reads in order: **done** |
| 17 | `ComponentDiscovery` | the scanner and the attachment beside what the markup declares | descriptors, owners of prerendered content | both, for documents of any size and depth: **done** |
| 18 | closing and a second context in one process | with `DotNetHost` and `TaskService` | who is cleaned up when | not written |

No module with a theorem declares a
RECURSIVE operator; recursion, where an algorithm has it, stays in modules that
only TLC uses. Modules that share no state share a run, each on the bounds of its own: `MCHandles`, `MCObjects` and
`MCPage` have a variable that chooses at the start which of them moves, so a run has the sum of their states, not the product.
The others stay in
their initial states. Only the disagreements have runs of their own. The type invariant of a module, where it has one, is a conjunct of one of its
properties or, in modules with a proof, part of the inductive invariant.

## 3. The scheduler

### Modules

`NodeScheduler` is the code; `TaskService` is what it promises;
`MCNodeScheduler` adds a symmetry set.

| Model | Code |
|---|---|
| `stack` | the call stack of the node thread: JavaScript frames (`"js"`), the outermost .NET frames (`"callback"`, `"micro"`, `"macro"`: those that pass the test at `NodeTaskScheduler.cs:49` and set `_activeThread`), inner ones (`"nested"`, `"inline"`), and `Context::Close` (`"close"`) |
| `active` | `_activeThread` equals the node thread |
| `status` | TPL's state of a task, as far as `TryExecuteTask` looks at it |
| `microTasks`, `jsMicro` | `_microTasks` and V8's microtask queue; the V8 entry for a task is written as that task so that being in step can be stated, the actions use only that it is a call of `invokeDotnetMicrotask` |
| `handles` | tasks whose `GCHandle.Alloc(task)` has not been freed |
| `bg` | where each other thread is: between the `_closedEvent` test and `SignalEventLoopEntry` (`"signal"`), after `Acquire` (`"acquired"`), after `BlockingCall` (`"called"`), blocked in `Task.Wait`/`Result` (`"wait"`) |
| `tsfnQueue`, `tsfnRefs`, `tsfnClosing` | the N-API thread safe function: queue, thread count, closing flag |
| `closePhase` | `Context::Close`: `_closedEvent` set, then Abort, then Release |

Each handler is one action where nothing can come between its steps. The signalling of a background thread is
three actions because other threads and Close interleave there; on the node thread
the same three calls are one step, since only that thread aborts the TSFN.
External behaviour (V8 drains microtasks on an empty stack before node takes
the next callback; the TSFN gives up an entry and takes the caller's reference when it is closing) is modelled from how
`context.cc` relies on it and marked external in the map.

Abstracted: what a task does (any sequence of calls, inlining, queueing), values,
exceptions inside a task (TPL stores them), the callback's own exception, which
returns like a value and is marshalled. One context per process; a second one
is in the plan.

### Run

`scheduler` (2 tasks, 2 threads, 4 frames, fair): `ContextMatchesStack`,
`MicroInStep`, `NoTaskLostWhileOpen`, `HandlesAccounted`, `TsfnCounted`;
`ServiceSpec`: every behaviour is one of `TaskService`; `EveryTaskRuns`: each queued task ends, and so does each wait for
one. The safety properties and the refinement are also proved, so the
bounds matter for liveness only.

Bounds. `MaxDepth` bounds the stack, `MaxJsJobs` JavaScript's own microtasks. Four frames
reach callback, JavaScript, nested callback, inlined task; two tasks make one queued by
microtask and one by another thread coexist, or be neighbours in one queue; two threads meet each other and Close inside
`SignalEventLoopEntry`. One JavaScript microtask is enough to stand before, between
or behind tasks.

Fairness. Code entered on the node thread ends: a frame at each depth returns infinitely often
if it can infinitely often (strong fairness per depth, because the frames above come and go). V8 drains
microtasks (weak). libuv does not starve the TSFN's handle while other callbacks
keep arriving (strong: the stack is empty only now and then). The operating
system schedules each thread (weak). The application is never obliged to queue, wait, call
or close. `EveryTaskRuns` ends in `… \/ Closed`: the code drops
tasks silently once `_closedEvent` is set (`NodeTaskScheduler.cs:78-83`), and a
thread waiting for such a task waits for ever.

### Proofs

`NodeScheduler_proofs` proves, for any set of tasks,
any finite set of threads and any bounds (`SchedulerAssumption`), with
`SequenceFacts` holding the lemmas on sequences that all proof modules use:

| Theorem | States |
|---|---|
| `QueuesInStep` | `Spec => [](TypeOK /\ MicroInStep)` |
| `ContextIsTrue` | `Spec => [](ContextMatchesStack /\ TaskFramesMatch)` |
| `TasksRunOnce` | `Spec => RunsOnce`: a task starts once, from "started" only |
| `TsfnStaysOpen` | `Spec => []TsfnCounted` |
| `HandlesAreAccounted` | `Spec => []HandlesAccounted` |
| `NoTaskIsLost` | `Spec => []NoTaskLostWhileOpen` |
| `SchedulerImplementsService` | `Spec => ServiceSpec` |

The argument. `MicroInStep` is inductive only with `TypeOK`, and needs counting:
taking the first entry of V8's queue lowers the rank of every later call by one, and taking the
first task of the managed queue shifts it by one as well. `ContextMatchesStack` needs the whole shape of the stack
(`StackShape`): which frames can lie below a frame that set `_activeThread`, and that Close
sits on JavaScript only. `TaskFramesMatch` rests on it, since a task frame popped must be
the only one of its task. `HandlesAccounted` is not inductive: two threads, or a thread and the
queue, could hold the same handle and free it twice. The strengthening `OnePlace` says a task is in at
most one of a thread's hands, one place of the TSFN's queue, or one macro frame. `NoTaskLostWhileOpen` then
follows from the handle accounting, and the refinement maps each
action to one of `TaskService`'s, or to a stutter, from all of these.

Only model-checked: `EveryTaskRuns` (the prover does not do fairness).
`TaskFramesMatch` and `RunsOnce` are proved and not listed in the run: the refinement implies what they say of
the queues.

## 4. Native memory

`NativeMemory` models `NativeMemory.cs` step by step for concurrent threads, the
finalizer thread among them. Blocks of memory are `NativeMemory` objects, handles
are `NativeMemory.Handle` objects; `tracked` is the dictionary `TrackedMemory`,
`lock` its lock, `refCount` and `callback` the fields `_refCount` and
`_releaseCallback`. A thread's `pc` stands between two atomic operations of the
code: `"addRef"` before the `Interlocked.Increment` of a new handle, `"release"`
before the decrement, `"claim"` before the exchange of the callback, `"call"` in
it, `"remove"` before the entry is removed under the lock.

| Run | Instance | Shows |
|---|---|---|
| `objects` | 2 threads, 2 addresses, 3 blocks, 3 handles, fair | `RefCountExact`, `EntryIsCurrent`, `FreedOnce`, `UnusedIsReleased` |
| `memory_in_use` | the same size, symmetry | `CallbackWhenUnused` is violated |

Three blocks at two addresses make one address be used again after a release
while another is alive; with two threads a Create, an AddReference or a second
Dispose can stand between any two steps of a release. Fairness: a thread that is
inside one of these methods goes on; the lock is strongly fair, as threads come and go
at it.

The disagreement. `releaseCallback` is documented as called "when the memory is
no longer in use" (`NativeMemory.cs:30`). `ReleaseRef` brings the count to zero and claims the callback in two
steps, and `AddRef` does not look at the count that it raises, so a handle made in
between is alive while the callback frees its memory.

Proofs (`Objects_proofs`), for any finite sets of threads and handles. `CountInv`
is inductive: `TypeOK`, `RefCountExact`, and two facts about where objects come
from, `EntryBuilt` and `DisposedBuilt`. Counting is by cardinality, so there is
one lemma for each of the four ways the two sets of `RefCountExact` change.
`EntryInv` adds that a block with its callback, or whose callback runs, is the
entry of its address, that only one thread finishes a block, and that this
thread's memory is still allocated; each part needs the other two. The theorems are
`MemoryTypeOK`, `CountIsExact`, `EntriesAreCurrent` and `MemoryFreedOnce`.

## 5. Runtime start

`DotNetHost` models `dotnethost.cc`: the static mutex and `shared_ptr` of
`Instance`, each stage of `Create` with its error path, the sleep in which other
starters wait with the mutex held, and the Contexts that keep the result. Threads
are JavaScript threads (main, workers, renderers); `ended` are those whose
environment was torn down.

Run `host` (3 threads, 2 calls each, 2 assemblies, every stage may fail, fair):
`OneRuntime` (with `TypeOK`), `ReadyBeforeUse`,
`EveryCallReturns`. Three threads make one that starts, one that waits inside the
mutex and one that waits for the mutex; the second call of each meets a finished or failed start.
Fairness: a thread inside a call goes on. `EveryCallReturns` ends in `… \/ failed # {}` because
the code needs it: `Create` publishes the half-built Impl before it can fail, and after a failure nobody sets
`initialization_done_`, so the next call sleeps for ever, in the mutex.

Proofs (`DotNetHost_proofs`), for any threads and paths and any bound on calls. Neither property is inductive. `HostInv` is `HostTypeOK`
with four facts: where each position of a thread puts the shared Impl (`Positions`: a thread in `Create` works on the shared one, which
is neither done nor failed), `OneCreator`, `Untouched` (no Impl but the shared one has anything), and `Finished` (an Impl that is done has its
functions and what it loaded, one that failed has given everything back, and contexts are made of done ones). The creator is alone because the Impl it makes is shared
before it leaves the mutex, so that whoever enters later finds that one, and a failed one stays shared. `RuntimeStartedOnce` and
`HostsAreReady` follow. Only model-checked: `EveryCallReturns`.

Seen on the way, without a run: "Global state will be cleaned up when last thread
exits" (`dotnethost.cc:362`) does not hold, the static `shared_ptr` is never reset.

## 6. Calls between JavaScript and .NET

`JsCallQueue` composes the work queue (`ElectronCallQueue.cs`), the renderer
(`ElectronRenderer.cs`), the entry points (`ElectronJSRuntime.cs`) and the open
calls of the JavaScript side (`Microsoft.JSInterop.ts`). The stack of the node
thread is explicit, since calls in one direction are made inside calls in the
other. Event handlers are in three sets: in the document, known to the renderer,
and in the current component tree. `CallOrder` is what the queue promises: items are handled one at a time, once, in order, until one fails.

An item fails in one way. .NET answers a method that returned at once from within its item, and JavaScript revives the result before it takes the call out of the open ones
(`Microsoft.JSInterop.ts:457-461`). If that throws (`RevivalThrows`), the exception leaves the item and the loop of `Schedule`, and `_isCallInProgress` stays set (`threw`),
as the comment at `ElectronCallQueue.cs:40` says. It goes to the JavaScript that called `Schedule` first (`caller` in a frame): if that was making a call,
this one is rejected, whether the exception is its own or not (`Microsoft.JSInterop.ts:497-500`); any other call whose result could not be revived stays open (`lost`).
Where a task ended later, the exception ends in the scheduler's task and nothing stops. Nothing else throws out of an item: Blazor catches what rendering throws, and
reports of results and acknowledgements run no code of the application.

Once the queue has stopped, the queue holds what comes for ever, renderings go on without being part of an item (`ElectronRenderer.cs:87`), and acknowledgements
are given at once if nothing waits, or else wait, too. The properties say what is left then: `QueueMatchesStack` that the flag is set and no item
runs, `InOrder` that nothing is started any more, `EveryCallSettled` that only calls that are lost or wait behind the queue stay open, and
`EventsFindHandlers` the same as before.

| Run | Instance | Shows |
|---|---|---|
| `calls` | 2 handlers, 5 self-started things, 6 frames, fair | `QueueMatchesStack` (with `TypeOK`), `EventsFindHandlers`, `InOrder`, `EveryCallSettled` |
| `calls_arrays` | 1 handler, 4 things, 5 frames | `OwnByteArrays` is violated |

`Budget` bounds what JavaScript and .NET code start of their own accord; five reach a
rendering that removes a handler while an event on it waits, with another call
behind, and a call that is answered with an exception while another waits. `EventsFindHandlers` has both directions: an event that waits finds its handler, and a handler that was removed is
given up by the renderer when the batch that removed it is acknowledged. Fairness: code that runs returns, and .NET ends each call that it has begun (an
application whose method never completes leaves its promise open, and nothing here
could change that).

Seen on the way: a caller may be rejected with the exception of another call while its own method still runs; the answer to it then
finds no pending call (`Microsoft.JSInterop.ts:552-555`), which nobody sees. Run `answer_revival` (section 17) shows how a result comes to be one that cannot be revived.

The disagreement: byte arrays are handed over at once, under identifiers that start at 0 for
each call, while the call that they belong to waits in the queue. Another call's
arrays replace them. The same happens between the two microtasks that serialise and report
a result, so two results that are ready together can be mixed up as well.

Proofs (`JsCallQueue_proofs`), for any handlers and any bounds. `CallInv` is inductive. It has four parts:

- `StackInv`: at most one item and one batch on the stack, the item, if there is one, below the batch. An action changes the stack at its top, so
  seven lemmas say what a push, a pop and an edit do to the running item (`Currents`) and the batch being applied
  (`Renders`), and no other proof looks into the stack.
- `CallTypes`, with the calls that .NET has begun among those JavaScript has open, until an item throws.
- `QueueInv`: the flag says whether an item runs or one has thrown, in which case none runs; nothing waits without the flag, a batch is applied in an item unless one
  has thrown, ids in the queue are distinct, and until one throws a call that waits is open and not begun. The last part is needed because an answer takes a call out of the open ones.
- `HandlerInv`: who may still use a handler. `EventsFindHandlers` says only that an event's handlers survive until it runs. That
  they do needs more: a batch gives up nothing that is in the present tree or in the document when its edits are done, two
  acknowledgements never give up the same handler, and none gives up what a batch is about to attach.

Each action keeps `CallInv` and does one of six things to the order of work (`OrderStep`), and each of these is a step or a stutter of
`CallOrder`. The theorems are `WorkIsNeverNested`, `HandlersAreKept` and `CallsKeepOrder`. `EveryCallSettled` and the fairness
in `InOrder` stay with TLC.

## 7. Tasks as promises

`TaskPromise` models `TaskHolder` (`NativeNodeHost.cs`), the conversion in
`dotnethandle.h`, `CompletePromise` and the end of `RunCoreApp`. It stands on
`TaskService`, the abstract scheduler, so what it shows holds for `NodeScheduler`
by the refinement. `Complete` is the application ending a task, on any thread, at
any time, between the test of `IsCompleted` and `ContinueWith` included.

| Run | Instance | Shows |
|---|---|---|
| `objects` | Main and 2 holders, a task with and one without a result, fair | `PromiseTellsOutcome` (with `PromiseTypeOK`), `ClosesAfterMain`, `EveryPromiseSettles` |
| `promise_unsupported` | the same, symmetry | `UnsupportedIsRejected` is violated |

`PromiseTellsOutcome` also says that the delegate native code may still call is kept. Two holders make two conversions of one task, or of both kinds, meet. Fairness is the scheduler's, as in section
3, and the thread that converts goes on. `EveryPromiseSettles` excludes answers that throw and ends in
`… \/ ~open`; the first is the disagreement, the second the closing of the runtime,
which drops what is queued.

A rejected Main closes the runtime as well: the reaction is attached with `then`, for both outcomes.

Proofs (`Objects_proofs`, a part of its own), for any tasks and holders. Both properties need to know where a holder is between the test of `IsCompleted` and its
promise, and `PromiseInv` says it: `OnTheWay` (the continuation is attached once, while the scheduler does not know the holder; it is queued only
for a task that has ended, and until it has run the promise is open), `InRegistry` (`_taskRegistry` has exactly the holders whose value native code
has or is converting), and `JobIsMains` (the job that closes is queued by the settlement of Main's promise only). The steps of `TaskService` are used
as they are: one lemma says that a scheduler step starts at most a continuation that waits. The theorems are `PromisesTellOutcomes` and `ClosedAfterMain`.
Only model-checked: `EveryPromiseSettles`.

## 8. Ownership across the boundary

Two modules, one for each direction in which values cross. `MCHandles` puts them in one
run: they share no state, so `direction` chooses at the start which of them moves.

**From JavaScript to .NET.**
`JsHandles` has every path by which .NET gets, uses and releases a JsHandle: results and arguments,
arrays that are fetched, conversions that throw, `Dispose` by the application on the node thread or
another, finalizers, the release that a task performs later, and closing. A frame's `pending` are the
handles it must still convert or release. Native calls that a conversion makes
itself are left out: they use an object that nobody else knows yet.

**From .NET to JavaScript.**
`DotNetValues` has the values .NET makes for a native call: `registry` are the delegates `_registry` keeps alive,
`blocks` the strings, arrays and handles allocated for one conversion, `passing` what the call under way must still
convert, `functions` and `finalizers` the JavaScript functions and the native data that will release their delegate.
Native calls convert their values without a break, so between their steps come only finalizers and other threads.

Run `handles` (2 handles, 4 frames, 2 arguments; 2 delegates, 2 blocks, 2 values; fair):

- `OneOwner` (with `TypeOK`): each JsHandle allocation has one owner, and is deleted once.
  `lost` are those the code is known to lose: those a conversion's
  exception leaves behind (`InvokeHelper.cs:117`, `NativeNodeHost.cs:281`) and releases dropped by closing.
- `CheckedReadsAreLive`: a handle that passed `CheckDisposed` is alive when it is read.
- `DisposedIsReleased`: what the application disposes is deleted, while the context is open.
- `OneReleaser` (with `ValuesTypeOK`): each delegate and block has one releaser, and a function JavaScript can call
  has its delegate. `leaked` are those of refused calls: native code or the managed side turns the call down after its values were made, a
  later value cannot be converted, an object is to be created and has no constructor.
  `raced` are the pointers that two threads worked on at once: `MarshallCallback` writes `_registry`, a plain
  dictionary, before it checks the thread (`NativeNodeHost.cs:47`), so a refused call of another thread can lose an
  entry of the node thread.

Two handles and two delegates make one be released while the other is in use, and a pointer or address be
used again; two values make a second conversion run behind an exception of the first.
Fairness is that of section 3, for `JsHandles` only.

Proofs (`Handles_proofs`), for any numbers of handles, frames, arguments, delegates, blocks and values. `OneOwner` and `OneReleaser` count owners, and
the count is not inductive: that a step moves one handle from a frame to a wrapper says nothing unless no other frame holds it.

- `HandleInv`: `StackOK` (a frame holds no handle twice, no two frames the same, and only the top frame is inside a native call), `OwnersInv`
  (who the one owner of each handle is, `Owned`), and `CheckedReadsAreLive`, which needs both. Three lemmas say what a push, a pop and an edit
  of the top frame do to the handles the stack holds. `CheckedReads` and `OneOwnerAlways` follow, the latter by counting what `Owned` tells.
- `ValuesInv`: `PassingInv` (the values of a call are different, and a deleted context has neither a call nor a finalizer), `ReleasedInv` (what is
  kept is with exactly one of the call, a finalizer and the leaked) and `FunctionsInv` (a function JavaScript has keeps its finalizer).
  `OneReleaserAlways` follows. Pointers that two threads worked on at once are excepted (`raced`), as in the property.

Only model-checked: `DisposedIsReleased`.

Seen on the way, without a run:

- `CheckDisposed` (`JsDynamicObject.cs:47`) guards members and invocations, but not
  `CreateNewInstance`, nor a disposed object that is passed as an argument or
  within an array: those calls read a deleted reference.
  `CheckedReadsAreLive` speaks of the checked handle only.
- An exception value passed to `SetMember` or `CreateObject` stays pending in the
  environment after the call.
- `RunCoreApp` never releases the handle of its result (`context.cc:233-238`).
- `DotNetValue.FromLong` tags a 64-bit integer as an Int32 (`DotNetValue.cs:91-94`).

## 9. Event delegation

`EventDelegation` models `EventDelegator.ts` with `EventTypes.ts` and the parts of
`BrowserRenderer.ts` and `Renderer.ts` that set, replace and dispose handlers. Elements are nested,
1 inside 2 inside …; a place is an element and an event name. `infos`, `handler`, `stop`, `prevent`, `count` and
`listeners` are the delegator's tables and the document's listeners; `renderedIds` and
`disposing` are what .NET has in its tree and will dispose at the end of the batch. A `walk` is one dispatch in progress, one step per
element, and batches are applied between its steps, since handlers call .NET, which renders.

Run `page` (2 elements; a passive bubbling event, one that does not bubble, an alias
that may be registered late; 3 ids, 4 edits): `TrackedAreLive` (the tables agree, and what they hold is live),
`EventsArrive` (handlers are reached, and a default can be prevented), `BubblesLikeTheDom`. Four edits
reach: a handler set in a new element, replaced and removed; handlers of two elements with a flag between them. The same properties hold for
five edits (2.4 million states), which takes longer.

Counts may err upwards: `EventsArrive` asks only that they do not fall too low. In the code they do drift: removing an element drops
its flags without giving their counts back, so the global listener outlives "the
number of listeners" it is kept for (`EventDelegator.ts:257`), and a flag of an alias is counted under the browser's name but given back under the alias, which makes that count NaN.
Other things seen, excepted by name in the properties: a listener for an alias registered late has the default mode, so it is passive where the
comment at lines 354-356 promises what an early registration gives (`late` in `EventsArrive`); an alias of an
event that does not bubble does bubble (line 202 against 295); the first rendering of a root component
drops the listeners of its container, which another component may have rendered (`dropped` in `TrackedAreLive`).

Proofs (`Page_proofs`), for any depth of the page, any finite sets of event names and aliases, any ids and edits (`EventAssumption`, which also says that the model
value `Nothing` is neither an id nor a place). `EventInv` has four parts, and each step keeps each of them:

- `TablesInv`: the delegator's tables agree, an id is rendered at one place or is to be disposed (`IdsOnce`), and what is rendered is tracked
  at its place (`Tracked`). This gives `HandlersAreLive`.
- `AccountInv`: for each name the count is at least the number of places that claim a listener by a handler or a flag, the document listens while
  something is counted, and actively where a flag asked for it. The claims are counted by cardinality, with lemmas for one claim more, one less, the claims of
  removed elements, and those that move when an alias is registered. The count that errs upwards is why it is "at least"; a
  count that is NaN is never given back. This gives `ListenersStay`.
- `WalkInv`: a walk has called what the DOM would have called up to its element, as long as no table changed. This gives `CallsLikeTheDom`.
- `DocumentOK`: what a batch may do in its phases.

## 10. The logical tree

`LogicalTree` models `LogicalElements.ts` and the structural edits of `BrowserRenderer.ts`. Three
trees stand beside each other: the DOM (`page.dom`, where the contents of
components and markup follow their comment), the logical children (`page.children`), and the tree
.NET has rendered (`rendered`, by kinds, addressed by sibling indices as in the edits).
All algorithms are there step by step: the upward search for the place
behind a container's contents, removal with everything below, the four phases of a permutation with its markers, and the insertion of frame
ranges with regions, captures and attributes.

Run `page` (4 nodes below the root element, frame lists of up to 3, permutations of up to 3 siblings):
`PageShowsRendered`: the DOM is what the logical tree says and the logical tree is what .NET rendered. Four nodes give a container in a container with a sibling behind, and a permutation of containers with
contents. `View` identifies states of the tree (`UpToNames`) that differ in the names of nodes only, which no property can tell apart; nodes
that are removed may be used again. There is no deadlock. The same properties hold for 5
nodes with frame lists of up to 2 (73364 states), which takes longer.

Not proved: the algorithms are recursive.

## 11. The render batch

`RenderBatchFormat` models how a render batch crosses from .NET to the renderer: the writer
(`RenderBatchWriter.cs`), the buffer that is reused and grown between batches (`ReusableArrayBufferStream.cs`) and the
reader (`OutOfProcessRenderBatch.ts`). Every value the writer writes has a width and an offset; the reader follows the offsets of the table
at the end of the batch. `MCPage` builds the batches.

Run `page` as well (58 batches, two renders of any of them, an initial buffer of 64 bytes in place
of 64 KiB): `PageReadsTheBatch`: what the page reads is what was written, of this batch and not of the one before. The
batches have frames of every type the writer knows and one that it does not (a named event: it throws, and half a batch
is left in the stream), values of every kind, empty sections, and strings that are shared and that are not. With 64 bytes
some batches fit, some make the buffer grow once and some more often, and a long batch is followed by a short one that
leaves the end of the first in the buffer.

Not in the model: identifiers of 2^53 and above, for which the reader throws; frames of render modes, which the writer
refuses like those of named events; arrays from several segments. The `Position` setter that `ElectronRenderer.cs:107` uses ignores its
value (`ReusableArrayBufferStream.cs:116-122`); only `SetLength(0)` before it brings the position back to 0, and the model has both.

## 12. Root components

`RootComponents` models what JavaScript does with `Blazor.rootComponents` (`JSRootComponents.ts`), the attachment in
`Renderer.ts` and `BrowserRenderer.ts`, and .NET's side of these calls. `toDotNet` and `toJs` are the calls and answers on
the way; they arrive in order, which is what `JsCallQueue` shows. `add`, `setParameters` and `dispose` are split at their
`await`, so the page calls any of them again while an earlier one waits. `componentId` is that of a `DynamicRootComponent`: none before `add` is
answered, null after `dispose`. `cached` are the wrappers of event callbacks that `DotNet` can find by their reference.

Run `page` (2 elements, 3 components, 2 more calls): `RootsAgree`. Three components make two meet at one element and a third come when it is
free again; two calls are two disposals that overlap, or parameters set during one.

Seen on the way: a container whose `add` was refused for an unknown identifier stays in
`pendingRootComponentContainers` for ever (`refused`), and `setParameters` after `dispose` sends the id null. The same happens to the container of an `add` before
`enableJSRootComponents`, which throws when it asks for the manager (`JSRootComponents.ts:28`); the model starts after that call, and a container left by such an `add` has an
identifier that no other `add` gets, so it meets nothing that is modelled.

Proof (`Page_proofs`), for any components, elements and number of calls. `RootsAgree` compares the two sides, which disagree while a call is on the way,
so `RootInv` speaks of the two queues: while an `add` is under way nothing else is for its component (`AddsInv`), an answered removal is one .NET has
done and a callback .NET has or will get can be found (`CallbackInv`), and an element is claimed by one component, which is set there
or still to be added (`PlacesInv`). `RootComponentsAgree` follows.

## 13. Navigation

`Navigation` has the browser's session history (`entries`, `at`), the state of `NavigationManager.ts`, and .NET's `uri`. Each
handler is one step, since JavaScript calls the delegates of `ElectronNavigationManager.cs` on the same thread and at once. A handler of the application
that `LocationChanged` calls may throw: .NET has set its location by then, and `SetLocation` answers with a rejection, so `onPopState` ends at
`NavigationManager.ts:266` and the index keeps the value it had (`rejected`, until an entry is added or a later move sets it). Links are followed by
the browser or intercepted, traversals go anywhere, and the manager may be used before the renderer is attached.

| Run | Instance | Shows |
|---|---|---|
| `page` | 2 pages with and without a hash, 3 entries, index up to 2 | `UriFollowsLocation` |
| `navigation_lock` | the same with 4 entries, index up to 4 | `LockIsHonoured` is violated |

The disagreement: locks and listeners are those of renderer 0, interception is that of renderer 4, so `getInteractiveRouterNavigationCallbacks` finds
nobody to ask (`Asks` is never true). For this reason the code behind a question (`NavigationManager.ts:214-228` and the
swapping of `popStateCallback`) is not modelled; it would also wait for ever, as `NotifyLocationChangingFromJs` never calls `endLocationChanging`.

`NavigateTo` from .NET never navigates: `GlobalExports.ts` does not export `Blazor._internal.navigateTo`, which
`ElectronNavigationManager.cs:79` calls, and the exception ends in the `catch` of line 82. In the model the action only asks the handlers.
The index in an entry's state does not tell its place: entries that the browser makes for a hash have none, and
`currentHistoryIndex` starts again at 0 behind them. After a rejected move an entry gets the successor of another entry's index, so with
handlers that throw the index grows beyond the length of the history; `MaxIndex` bounds it. Nothing uses the difference while nobody is asked.
`UriFollowsLocation` says that the index is the current entry's unless the last move was rejected, so the next one that succeeds, or the next entry, must put it right; the
location follows in every case.

Proof (`Page_proofs`), for any URLs and any length of the history. `UriFollowsLocation` is not inductive: before a renderer is attached popstate does not reach .NET,
and then it holds because no entry of another page exists yet (`OnePageUntilAttached`). Each way a move can end, rejected or not, is a case of `PopKeeps`. `UriFollows` follows from that and the types of the history.

## 14. DOM merging

`EditScript` has the edit script (`EditScript.ts`) with the comparison of nodes, and beside it the definition of what it should be: the cheapest way to match
the two lists in order (`Matchings`, `MatchingCost`). `DomMerging` has the walk along the script (`DomSync.ts`) and the attributes (`AttributeSync.ts`). Content
is a sequence of nodes: texts, elements, and components of the server's markup, which .NET may take over between two merges (`Activate`).
A component's comment makes logical what holds it and all that is inside of that (`marked`, the walk of `upgradeComponentCommentsToLogicalRootComments` with `toLogicalRootCommentElement` and
`toLogicalElement`). If the page or the new content is logical, both are made so at the top before they are compared (`Synchronize`, `pageLogical`); below, a logical node and another are
never merged (`UpdateCost`), so an element that has got a component inside is replaced, a permanent one as well.
The program reaches this code from enhanced navigation and streaming rendering, which this host does not start;
it is here because it is the one pure algorithm of the code, and one that a wrong boundary breaks for some inputs only.

Everything that recurs is a recursive function: the table of costs and the way back over cells, the walk over the number of edits, and the merging of
children over the depth (`synchronized`, on `Lists[d]`, the lists with at most `d` levels). `Nesting` names the depth of the page; it is any number for the
proofs. `MaxValue` is `Number.MAX_VALUE`, the code's infinite cost: lists are assumed so short that replacing
one by the other costs less (`2 * Len(list) <= MaxValue`).

Run `page` (two merges, content of up to 2 nodes of any of 12 kinds, 3 texts or elements, 4 texts; two levels):
`PageShowsContent` and `ScriptIsMinimal`. The first is about every merge: the nodes of the page are the old ones that some cheapest matching keeps, with the name and the attributes of
the new one, and otherwise the new ones, at every depth. A permanent element that is kept, and a component that .NET rendered into, hold what they held; a permanent element
or a component that cannot be kept is the new one, with its content. The second compares the cost of the script with the cheapest of all ways to match the two lists
in order, so it covers the cutting of equal ends, the table and the way back through it. Four texts give every pattern of two equal and unequal
neighbours at both ends and in the middle; the elements nest one level below, with attributes to add, change and remove. Two of the 12 kinds are elements with a component inside, one of them permanent: beside the same elements
without one they give pairs of which one is logical and the other is not, in both orders.

Proofs (first part of `Documents_proofs`), for lists of any length, nodes of any depth, any labels and attributes. The state's invariant, `MergeInv`, is small: what is on the page,
what was there and what was merged are lists of the page's depth. The work is in the
operators, by induction on the least number at which something fails (`LeastOf`). In the order of the module:

- *The table.* Each entry is the cost of the cheapest matching of the first nodes of both lists: none is cheaper (`NoneCheaper`), and the way back from
  an entry spells out a matching of that cost (`ScriptsPriced`).
- *The ends.* Costs of neighbouring entries differ by at most one (`CostsAreNear`), so a pair of nodes that match for nothing can be matched in a cheapest
  way if it ends both lists (`MatchIsFree`). Hence cutting the common suffix (`EndIsFree`) and the common prefix (`StartIsFree`) changes no cost. This gives `ScriptMinimal`.
- *The walk.* The script consumes exactly the nodes between the cut ends, on both sides (`WalkersArrive`): neither walker runs out, so the error
  "the sets of trailing nodes had inconsistent lengths" (`DomSync.ts:155`, "should never be possible") is never thrown. The script
  spells out a cheapest matching (`RunAttains`), and what was passed is, for each source node, the old node that this matching gives it, kept as the edit says
  (`MatchShows`, `SubstitutionShows`), or the source node itself (`MergedIs`).
- *Depth.* A merge of depth `d` calls that of depth `d - 1`, as does the marking of logical elements; `EveryDepthFits` and `EveryDepthMarks` are the inductions (by `EveryDepth`). `ContentShown`,
  a theorem about steps, follows.

The proof found one flaw of the model: two guards of the `CASE` in `UpdateCost` overlapped, which TLC decides by their order and TLA+ leaves open. It is an `IF` now.

## 15. The value of a select

`FormValues` has the part of `DomSpecialPropertyUtil.ts` with a state: a `<select>` whose value may come before its options. The browser
drops a value that no option has, so the renderer keeps it on the element (`deferred`). `select` is the element as the browser has it, `wanted`
the value .NET gave, `since` how it came about. The browser's own rule, that a drop-down list with nothing selected selects its first option, is `Reset`. Options
come one by one, in a block of markup with the select, or as markup on their own (`late`: nothing looks at those); they are renamed, removed and put elsewhere.

Run `page` (3 options, single and multiple): `ValueIsShown`. Three options give one that is selected by the browser, one that was asked for
and one that moves.

Seen on the way: a single select forgets its deferred value at the first match (lines 183-186), so an option that is removed
and inserted again is not selected again, where a multiple select selects it (`since = "left"`). With the value removed from a multiple select, the
next option meets `null.indexOf` (line 175, `failed`). `ValueIsShown` excepts both.

Proof (`Page_proofs`), for any finite set of options. `ValueIsShown` says what is selected; that it goes on holding depends on what is kept for later, so `FormInv` has `Shows`: the
deferred value is the one .NET gave while an option is missing, and may only go once its option is selected. A step lemma for each edit (`Tried`, `Grown`, `Renaming`, `Removed`) rests
on what inserting and removing does to a sequence without repetitions. A select that is inserted with its options is filled by a loop, a recursive
function in the model; that it is defined (`FillingExists`) and what it keeps (`FilledKeeps`) is induction on the number of options, done by looking at the least number at which it fails (`LeastOf`).

## 16. Calls of JavaScript's members

`JsMembers` has one member of one object with its prototype chain, as .NET calls it, constructs it, reads it or writes it
(`Microsoft.JSInterop.ts`, `JSObject` to `wrapJSCallAsFunction`). JavaScript's rules for reading and writing (`Get`, `CanSet`) are
written beside the code's checks, `isReadableProperty` and `isWritableProperty`; the page defines, freezes and deletes the member between calls.

Run `page` (a chain of 2, a function, 2 values): `CallsFollowTheMember`: the first call of a kind is refused exactly when JavaScript has nothing to
do for it, later ones read and write what the member is now. A prototype behind the object is enough for every rule of the chain. A function is bound when
it is first called, and that one is called ever after, as upstream Blazor does; the property does not ask for more.

Proof (`Page_proofs`), for chains of any length and any values (`MemberAssumption`: functions are no data, and what stands for "missing" is neither a value, a
descriptor nor a kind of call). `MemberInv` says that the handler kept for reading is the one that looks again at each call. The rest is the lookup: the deciding place
of a chain exists, as every set of numbers that is not empty has a least element (`LeastOf`, from the library's well-foundedness), and at it the code's checks and JavaScript's rules
are compared (`AllowedIs`). `CallsFollowMembers` is a theorem about steps.

## 17. References to JavaScript objects

`JsReferences` has `cachedJSObjectsById` with everybody who can give one of its objects up: JavaScript's code (`jsOwns`; `handed` after .NET has one to the same
id), .NET's `JSObjectReference`s (`netOwns`), answers on their way, and `orphans`, the answers to calls that .NET cancelled. Calls
of both sides name references by id, which are revived when the call or the answer is handled.

| Run | Instance | Shows |
|---|---|---|
| `page` | 2 objects, 3 references, 1 call each way | `ReferencesAccounted` |
| `answer_revival` | 1 object, 2 references, no asynchronous calls of .NET, 1 call of JavaScript | `BeginInvokeDoesNotThrow` is violated |

Three references make one given up, one in an answer and one in use at once; for the violation one that is given up while the call that answers with it is under way is enough.
JavaScript hands each reference to .NET once in the model (`Hand`); a second hand-over would give .NET two `JSObjectReference`s to one id, of which the first to be disposed takes the object from the other.

The disagreement: a comment in `BeginInvokeDotNet` calls what it queues "not expected to throw". A method that returns at once is answered within
that call, and JavaScript revives the result before it completes the promise. If the result names a reference that was disposed, the revival throws through .NET
and out of `ElectronCallQueue.Schedule` while `_isCallInProgress` is set: the queue runs nothing any more (`frozen`), and the promise stays open unless the queue was entered for this very call. What that means for the other calls, and who is told, is in `JsCallQueue` (section 6); here a call whose answer failed
only enters `threw`, whether its caller is told or not.

Proof (`Page_proofs`), for any objects, requests, calls and bound. `ReferencesAccounted` is not inductive, as it does not say where the id of an answer
comes from or that ids to be made are unknown. `ReferenceInv` is `ReferenceTypeOK` with `Answers` (each request's answer has an id of its own, made for it), `Owners` (who
may share an id with whom, and that each id was made), `Table` (the accounting itself) and `Orphaned`. One lemma for each action, `ReferencesAreAccounted` at the end.

## 18. Data streams

`DataStreams` has both directions. For `PullFromJSDataStream`, `offset` is the position, `read` each read with what it asked for before its `await`; chunks arrive in any order
and reads are cancelled. For `TransmitDataStreamToJS`, `awaited` are the promises JavaScript has for streams, `Internal` the names that
`GlobalExports.ts` exports.

| Run | Instance | Shows |
|---|---|---|
| `page` | 4 bytes, 3 reads of at most 3 bytes | `ReadsInOrder` |
| `dotnet_stream` | 1 stream, fair | `StreamComes` is violated |

Four bytes and three reads give a read cut short by the end, one that is cancelled before, and one after. Overlapping reads fetch the same
bytes and may fall short; `ReadsInOrder` excepts them (`overlapped`), as .NET's streams ask their users to wait.
Fairness of `dotnet_stream`: JavaScript's functions answer, and .NET goes on with what it sends.

The disagreement: `Microsoft.JSInterop.ts:535` counts on the stream coming. `TransmitDataStreamToJS.cs:26` sends it to
`Blazor._internal.receiveDotNetDataStream`, which `GlobalExports.ts` does not export; neither that call nor the report of its failure arrives.

Proof (`Page_proofs`), for streams of any length and reads of any number and size, as long as no two overlap. `ReadInv`: the read under way is the only one and asked for bytes at the position
(`OneUnderWay`), none goes past the end (`Within`), what arrived is increasing and together with what was thrown away is all before the position (`InOrder`), and
the stream is closed just when its last byte was delivered (`ClosedAtEnd`). `StreamsReadInOrder` follows. `StreamComes` is liveness.

## 19. Components a page comes with

`ComponentDiscovery` has the scan of the page for component markers (`ComponentDescriptorDiscovery.ts`) and the attachment of the components found
(`WebAssemblyComponentAttacher.ts`, `toLogicalElement`, `toLogicalRootCommentElement`). A document is the sequence of its nodes (texts, comments, elements and markers) in document order, each with the place of its parent (`IsDocument`). The
scan and the way down of `toLogicalElement` are recursive functions on places. The result of the scan is
compared with the markers the document declares, found without scanning: those that delimit content with nothing but plain nodes between them.

Run `page` (every body of up to 3 nodes of 10 kinds, 4 of the simple ones, 2 with elements that have content of their own, attachments in any order):
`DiscoveryMatchesMarkup` and `RootsOwnTheirContent`. The bodies have components side by side, prerendered and not, in nested elements and in prerendered
content, of other types, incomplete, without end, with the end of another, and markers outside of any element.

Proofs (second part of `Documents_proofs`), for documents of any size and depth, any number of components, and attachments in any order. The
assumption is `DiscoveryAssumption`: documents are documents, and having no `prerenderId` is not one. The theorems are
`DiscoveryIsRight` and `RootsOwnContent`, from one inductive invariant, `DiscoveryInv`. It says that the document is one, that nothing is found, logical or attached
before discovery ends, that a page is refused only for a marker out of place, that on a page that is not refused every marker is in place and the descriptors describe the
whole of it (`Describes`), and that the logical tree has the form attachment gives it (`Shape`). The argument:

- *The scan.* What a node and its later siblings hold is a stretch of the document, because nodes inside of a node lie between it and its next sibling. By induction
  from the last node back, the scan describes that stretch, or it throws and a marker in it is out of place (`DiscoveryIs`). A scan that goes on after
  the end comment leaves out just the nodes that are enclosed.
- *Becoming logical.* `toLogicalElement` makes logical what is below an element down to the nodes that are so already, each with its children in document order (`PromotedFacts`).
- *Owners.* Prerendered contents do not overlap, so a node has one owner at most (`OneOwner`). Attaching a root gives it what belongs to it and changes the owner of nothing else
  (`OwnerMore`). What belongs to it is, in the children of the parent, the stretch after the start comment up to the end comment, also when other roots of the same parent
  were attached before: that is what the code moves (`RootTakes`), and everything else keeps its place (`RootKeeps`).

## 20. What is only model-checked

All liveness, which the prover does not do, and the fairness in `InOrder`. Of the safety properties:

- `PageShowsRendered` and `PageReadsTheBatch` (sections 10 and 11): their algorithms are
  `RECURSIVE` operators, which the prover does not have. A recursion over numbers can be written as a function and reasoned about (sections 14, 15 and 19); over the
  frames of a tree that edits cut apart, and over the bytes of a batch, this is a larger work.

The run `page` is the largest (about 1.16
million states), then `host` (about 287 thousand) and `objects` (about 212 thousand).

## 21. What is not modelled

`PROJECT.json` gives the reason for each component.

- Never started in this host: `NavigationEnhancement.ts`, `StreamingRendering.ts`, `WebRootComponentManager.ts`, and in `ComponentDescriptorDiscovery.ts`
  `mergeDescriptors` and `discoverBlazorComment` with their options and state comments. They serve server side rendering, which
  `Boot.Electron.ts` does not set up. `DomMerging` is the exception (section 14).
- Not reached: `receiveDotNetDataStream` and `supplyDotNetStream` (section 18), what follows a question before navigation (section 13).
- Little state of their own: widgets, host building, logging, boot, event argument shapes.
- Left for later: closing with a second context in one process, the order of `RunAsync` and disposal of the host.
- Not part of the product: tests, the benchmark and examples.
