---------------------------- MODULE NodeScheduler ----------------------------
(***************************************************************************)
(* The TaskScheduler that runs .NET tasks on the node thread, together     *)
(* with the two queues of the node process it feeds:                       *)
(*   - NodeHostEnvironment/NativeHost/NodeTaskScheduler.cs (managed side), *)
(*   - coreclr-hosting/cppsrc/context.cc (SignalEventLoopEntry,            *)
(*     SignalMicroTask, RunCoreApp, Close),                                *)
(*   - external: the V8 microtask queue and the N-API thread safe function *)
(*     (TSFN) of node, as this code uses them.                             *)
(*                                                                         *)
(* The node thread alternates between JavaScript and .NET frames; every    *)
(* other thread may queue tasks and block on them.                         *)
(***************************************************************************)
EXTENDS Integers, Sequences, FiniteSets

CONSTANTS
  Tasks,      (* the tasks handed to this scheduler                         *)
  Threads,    (* the threads other than the node thread                     *)
  NoTask,     (* the task of a frame or thread that has none                *)
  JsJob,      (* a microtask queued by JavaScript (a promise reaction)      *)
  MaxDepth,   (* bound: frames on the node thread's stack                   *)
  MaxJsJobs   (* bound: JavaScript microtasks in a whole behaviour          *)

ASSUME SchedulerAssumption ==
  /\ NoTask \notin Tasks
  /\ JsJob \notin Tasks
  /\ IsFiniteSet(Threads)
  /\ MaxDepth \in Nat \ {0, 1}
  /\ MaxJsJobs \in Nat

VARIABLES
  stack,       (* frames of the node thread, the innermost last             *)
  active,      (* _activeThread is the node thread (otherwise it is null)   *)
  status,      (* TPL state of each task                                    *)
  microTasks,  (* _microTasks, the managed queue                            *)
  jsMicro,     (* V8's microtask queue; an entry that will call             *)
               (* invokeDotnetMicrotask is written as the task it was       *)
               (* queued for, although the entry itself carries no data     *)
  jsJobs,      (* JavaScript microtasks queued so far                       *)
  handles,     (* tasks with a live GCHandle made by QueueTask              *)
  bg,          (* what each other thread is doing in QueueTask, and to what *)
  tsfnQueue,   (* the TSFN's queue                                          *)
  tsfnRefs,    (* the TSFN's thread count                                   *)
  tsfnClosing, (* the TSFN accepts no more entries                          *)
  closePhase   (* how far Context::Close has got                            *)

nodeVars == <<stack, active>>
microVars == <<microTasks, jsMicro, jsJobs>>
tsfnVars == <<tsfnQueue, tsfnRefs, tsfnClosing>>
vars == <<nodeVars, status, microVars, handles, bg, tsfnVars, closePhase>>

-----------------------------------------------------------------------------
(* Frames of the node thread.                                              *)

OutermostKinds == {"callback", "micro", "macro"}  \* these set _activeThread
InnerKinds     == {"nested", "inline"}            \* these find it set
DotnetKinds    == OutermostKinds \cup InnerKinds
TaskKinds      == {"micro", "macro", "inline"}    \* these execute a task
Kinds          == DotnetKinds \cup {"js", "close"}

Frames == [kind : Kinds, task : Tasks \cup {NoTask}]
Frame(kind, t) == [kind |-> kind, task |-> t]

TopIs(kinds) == stack # <<>> /\ stack[Len(stack)].kind \in kinds
Top == stack[Len(stack)]
Push(kind, t) == /\ Len(stack) < MaxDepth
                 /\ stack' = Append(stack, Frame(kind, t))
Pop == stack' = SubSeq(stack, 1, Len(stack) - 1)

(* Mutant: _closedEvent is set last, after the TSFN was aborted.           *)
ClosedSetLast == closePhase = "closed"

Closed == closePhase # "open"   \* _closedEvent.IsSet

Idle == [pc |-> "idle", task |-> NoTask]

(* Dropping one reference of the TSFN: its last one closes it.             *)
DropRef == /\ tsfnRefs' = IF tsfnRefs = 0 THEN 0 ELSE tsfnRefs - 1
           /\ tsfnClosing' = (tsfnClosing \/ tsfnRefs = 1)

-----------------------------------------------------------------------------
(* RunHostedApplication has built the scheduler, RunCoreApp the TSFN with  *)
(* a thread count of 1, and JavaScript's call of runCoreApp is now inside  *)
(* the entry point, which RunCallbackSynchronously has called.             *)
Init ==
  /\ stack = <<Frame("js", NoTask), Frame("callback", NoTask)>>
  /\ active = TRUE
  /\ status = [t \in Tasks |-> "new"]
  /\ microTasks = <<>>
  /\ jsMicro = <<>>
  /\ jsJobs = 0
  /\ handles = {}
  /\ bg = [b \in Threads |-> Idle]
  /\ tsfnQueue = <<>>
  /\ tsfnRefs = 1
  /\ tsfnClosing = FALSE
  /\ closePhase = "open"

-----------------------------------------------------------------------------
(* JavaScript on the node thread.                                          *)

(* The event loop runs JavaScript: a timer, an event, a script. Node gets  *)
(* here only after the previous callback's microtasks have been drained.   *)
JsTurn ==
  /\ stack = <<>>
  /\ jsMicro = <<>>
  /\ Push("js", NoTask)
  /\ UNCHANGED <<active, status, microVars, handles, bg, tsfnVars, closePhase>>

(* V8 runs a promise reaction, once the stack is empty.                    *)
JsMicrotask ==
  /\ stack = <<>>
  /\ jsMicro # <<>>
  /\ Head(jsMicro) = JsJob
  /\ jsMicro' = Tail(jsMicro)
  /\ Push("js", NoTask)
  /\ UNCHANGED <<active, status, microTasks, jsJobs, handles, bg, tsfnVars, closePhase>>

JsQueuesMicrotask ==
  /\ TopIs({"js"})
  /\ jsJobs < MaxJsJobs
  /\ jsMicro' = Append(jsMicro, JsJob)
  /\ jsJobs' = jsJobs + 1
  /\ UNCHANGED <<nodeVars, status, microTasks, handles, bg, tsfnVars, closePhase>>

JsReturns ==
  /\ TopIs({"js"})
  /\ Pop
  /\ UNCHANGED <<active, status, microVars, handles, bg, tsfnVars, closePhase>>

-----------------------------------------------------------------------------
(* .NET on the node thread.                                                *)

CallbackKind == IF active THEN "nested" ELSE "callback"

(* JavaScript calls a function made from a delegate: with a .NET frame     *)
(* below the callback just runs, otherwise it opens a .NET stack.          *)
RunCallbackSynchronously ==
  /\ TopIs({"js"})
  /\ Push(CallbackKind, NoTask)
  /\ active' = TRUE
  /\ UNCHANGED <<status, microVars, handles, bg, tsfnVars, closePhase>>

(* .NET invokes a JavaScript function, a constructor or an accessor.       *)
Invoke ==
  /\ TopIs(DotnetKinds)
  /\ Push("js", NoTask)
  /\ UNCHANGED <<active, status, microVars, handles, bg, tsfnVars, closePhase>>

(* TryExecuteTask from one of the two queues, on an empty stack: it does   *)
(* nothing to a task that was already executed, inlined in the meantime.   *)
TryExecuteTask(kind, t) ==
  IF status[t] = "started"
  THEN /\ Push(kind, t)
       /\ active' = TRUE
       /\ status' = [status EXCEPT ![t] = "running"]
  ELSE /\ active' = FALSE
       /\ UNCHANGED <<stack, status>>

OnProcessMicroTask ==
  /\ stack = <<>>
  /\ jsMicro # <<>>
  /\ Head(jsMicro) # JsJob
  /\ jsMicro' = Tail(jsMicro)
  /\ microTasks' = Tail(microTasks)
  /\ TryExecuteTask("micro", Head(microTasks))
  /\ UNCHANGED <<jsJobs, handles, bg, tsfnVars, closePhase>>

(* Mutant: one wake-up of the event loop stands for all entries queued.    *)
EventLoopEntryCoalesced ==
  /\ stack = <<>>
  /\ jsMicro = <<>>
  /\ ~tsfnClosing
  /\ tsfnQueue # <<>>
  /\ tsfnQueue' = <<>>
  /\ TryExecuteTask("macro", Head(tsfnQueue))
  /\ handles' = IF status[Head(tsfnQueue)] = "started"
                THEN handles ELSE handles \ {Head(tsfnQueue)}
  /\ UNCHANGED <<microVars, bg, tsfnRefs, tsfnClosing, closePhase>>

(* The event loop takes an entry of the TSFN. Its GCHandle is freed after  *)
(* the task has run, or at once when there was nothing left to run.        *)
OnProcessJSEventLoopEntry ==
  /\ stack = <<>>
  /\ jsMicro = <<>>
  /\ ~tsfnClosing
  /\ tsfnQueue # <<>>
  /\ tsfnQueue' = Tail(tsfnQueue)
  /\ TryExecuteTask("macro", Head(tsfnQueue))
  /\ handles' = IF status[Head(tsfnQueue)] = "started"
                THEN handles ELSE handles \ {Head(tsfnQueue)}
  /\ UNCHANGED <<microVars, bg, tsfnRefs, tsfnClosing, closePhase>>

(* Mutant: an inlined task is taken out of the managed queue.              *)
InlineDequeues(t) ==
  /\ TopIs(DotnetKinds)
  /\ active
  /\ status[t] = "started"
  /\ Push("inline", t)
  /\ status' = [status EXCEPT ![t] = "running"]
  /\ microTasks' = SelectSeq(microTasks, LAMBDA u : u # t)
  /\ UNCHANGED <<active, jsMicro, jsJobs, handles, bg, tsfnVars, closePhase>>

(* A .NET frame on the node thread waits for a task that nobody has        *)
(* executed yet: the task runs in place and stays in the queue it is in.   *)
TryExecuteTaskInline(t) ==
  /\ TopIs(DotnetKinds)
  /\ active
  /\ status[t] = "started"
  /\ Push("inline", t)
  /\ status' = [status EXCEPT ![t] = "running"]
  /\ UNCHANGED <<active, microVars, handles, bg, tsfnVars, closePhase>>

(* Mutant: nobody frees the GCHandle.                                      *)
KeepHandle(frame) == handles

FreeHandle(frame) ==
  IF frame.kind = "macro" THEN handles \ {frame.task} ELSE handles

(* Mutant: the innermost frame always clears _activeThread.                *)
AlwaysCleared(frame) == FALSE

ActiveAfter(frame) == active /\ frame.kind \notin OutermostKinds

(* The innermost .NET frame ends. The frame that set _activeThread clears  *)
(* it; the frame of an event loop entry frees the entry's GCHandle.        *)
DotnetReturns ==
  /\ TopIs(DotnetKinds)
  /\ Pop
  /\ active' = ActiveAfter(Top)
  /\ status' = IF Top.kind \in TaskKinds
               THEN [status EXCEPT ![Top.task] = "done"] ELSE status
  /\ handles' = FreeHandle(Top)
  /\ UNCHANGED <<microVars, bg, tsfnVars, closePhase>>

-----------------------------------------------------------------------------
(* QueueTask on the node thread.                                           *)

(* The runtime is closed: the task is forgotten.                           *)
QueueTaskClosed(t) ==
  /\ TopIs(DotnetKinds \cup {"js"})
  /\ status[t] = "new"
  /\ Closed
  /\ status' = [status EXCEPT ![t] = "started"]
  /\ UNCHANGED <<nodeVars, microVars, handles, bg, tsfnVars, closePhase>>

(* Mutant: the task is enqueued and V8 is not told.                        *)
QueueMicroTaskUnsignalled(t) ==
  /\ TopIs(DotnetKinds \cup {"js"})
  /\ status[t] = "new"
  /\ ~Closed
  /\ active
  /\ status' = [status EXCEPT ![t] = "started"]
  /\ microTasks' = Append(microTasks, t)
  /\ UNCHANGED <<nodeVars, jsMicro, jsJobs, handles, bg, tsfnVars, closePhase>>

(* In the context: the managed queue and V8's grow together.               *)
QueueMicroTask(t) ==
  /\ TopIs(DotnetKinds \cup {"js"})
  /\ status[t] = "new"
  /\ ~Closed
  /\ active
  /\ status' = [status EXCEPT ![t] = "started"]
  /\ microTasks' = Append(microTasks, t)
  /\ jsMicro' = Append(jsMicro, t)
  /\ UNCHANGED <<nodeVars, jsJobs, handles, bg, tsfnVars, closePhase>>

(* Outside the context, yet on the node thread: the marshalling of a       *)
(* callback's result runs after the context is left, and TaskHolder        *)
(* continues a task on this scheduler there. Only this thread aborts the   *)
(* TSFN, so acquire, call and release are one step.                        *)
QueueTaskOutsideContext(t) ==
  /\ TopIs({"js"})
  /\ status[t] = "new"
  /\ ~Closed
  /\ ~active
  /\ status' = [status EXCEPT ![t] = "started"]
  /\ handles' = handles \cup {t}
  /\ tsfnQueue' = IF tsfnClosing THEN tsfnQueue ELSE Append(tsfnQueue, t)
  /\ UNCHANGED <<nodeVars, microVars, bg, tsfnRefs, tsfnClosing, closePhase>>

-----------------------------------------------------------------------------
(* QueueTask and waiting on any other thread.                              *)

(* The check of _closedEvent, then the GCHandle for the task.              *)
QueueTask(b, t) ==
  /\ bg[b] = Idle
  /\ status[t] = "new"
  /\ status' = [status EXCEPT ![t] = "started"]
  /\ IF Closed
     THEN UNCHANGED <<bg, handles>>
     ELSE /\ handles' = handles \cup {t}
          /\ bg' = [bg EXCEPT ![b] = [pc |-> "signal", task |-> t]]
  /\ UNCHANGED <<nodeVars, microVars, tsfnVars, closePhase>>

(* SignalEventLoopEntry: Acquire, or give the entry up.                    *)
SignalAcquire(b) ==
  /\ bg[b].pc = "signal"
  /\ IF tsfnClosing
     THEN /\ bg' = [bg EXCEPT ![b] = Idle]
          /\ UNCHANGED tsfnRefs
     ELSE /\ bg' = [bg EXCEPT ![b].pc = "acquired"]
          /\ tsfnRefs' = tsfnRefs + 1
  /\ UNCHANGED <<nodeVars, status, microVars, handles, tsfnQueue, tsfnClosing, closePhase>>

(* SignalEventLoopEntry: BlockingCall, whose result is ignored. A closing  *)
(* TSFN takes the caller's reference instead of the entry.                 *)
SignalCall(b) ==
  /\ bg[b].pc = "acquired"
  /\ bg' = [bg EXCEPT ![b].pc = "called"]
  /\ IF tsfnClosing
     THEN DropRef /\ UNCHANGED tsfnQueue
     ELSE /\ tsfnQueue' = Append(tsfnQueue, bg[b].task)
          /\ UNCHANGED <<tsfnRefs, tsfnClosing>>
  /\ UNCHANGED <<nodeVars, status, microVars, handles, closePhase>>

(* Mutant: SignalEventLoopEntry returns without Release.                   *)
SignalNoRelease(b) ==
  /\ bg[b].pc = "called"
  /\ bg' = [bg EXCEPT ![b] = Idle]
  /\ UNCHANGED <<nodeVars, status, microVars, handles, tsfnVars, closePhase>>

SignalRelease(b) ==
  /\ bg[b].pc = "called"
  /\ bg' = [bg EXCEPT ![b] = Idle]
  /\ DropRef
  /\ UNCHANGED <<nodeVars, status, microVars, handles, tsfnQueue, closePhase>>

(* The thread blocks on a task (Task.Wait, Task.Result): off the context   *)
(* TryExecuteTaskInline refuses, so somebody else has to execute it.       *)
StartWait(b, t) ==
  /\ bg[b] = Idle
  /\ status[t] \in {"started", "running"}
  /\ bg' = [bg EXCEPT ![b] = [pc |-> "wait", task |-> t]]
  /\ UNCHANGED <<nodeVars, status, microVars, handles, tsfnVars, closePhase>>

EndWait(b) ==
  /\ bg[b].pc = "wait"
  /\ status[bg[b].task] = "done"
  /\ bg' = [bg EXCEPT ![b] = Idle]
  /\ UNCHANGED <<nodeVars, status, microVars, handles, tsfnVars, closePhase>>

-----------------------------------------------------------------------------
(* Context::Close, called by RunCoreApp when the entry point has returned  *)
(* something that is no promise, or by the reaction to its promise; in     *)
(* both cases below it there is JavaScript only.                           *)

CloseRuntime ==
  /\ TopIs({"js"})
  /\ ~active
  /\ closePhase = "open"
  /\ Push("close", NoTask)
  /\ closePhase' = "closing"
  /\ UNCHANGED <<active, status, microVars, handles, bg, tsfnVars>>

CloseAbort ==
  /\ closePhase = "closing"
  /\ closePhase' = "aborted"
  /\ tsfnRefs' = IF tsfnRefs = 0 THEN 0 ELSE tsfnRefs - 1
  /\ tsfnClosing' = TRUE
  /\ UNCHANGED <<nodeVars, status, microVars, handles, bg, tsfnQueue>>

CloseRelease ==
  /\ closePhase = "aborted"
  /\ closePhase' = "closed"
  /\ DropRef
  /\ Pop
  /\ UNCHANGED <<active, status, microVars, handles, bg, tsfnQueue>>

(* The event loop finalizes the aborted TSFN: what it still holds is given *)
(* to the callback wrapper without an environment, which drops it.         *)
TsfnFinalize ==
  /\ stack = <<>>
  /\ jsMicro = <<>>
  /\ tsfnClosing
  /\ tsfnQueue # <<>>
  /\ tsfnQueue' = <<>>
  /\ UNCHANGED <<nodeVars, status, microVars, handles, bg, tsfnRefs, tsfnClosing, closePhase>>

-----------------------------------------------------------------------------
JsStep == JsTurn \/ JsMicrotask \/ JsQueuesMicrotask \/ JsReturns

DotnetStep ==
  \/ RunCallbackSynchronously \/ Invoke \/ DotnetReturns
  \/ OnProcessMicroTask \/ OnProcessJSEventLoopEntry
  \/ \E t \in Tasks : \/ TryExecuteTaskInline(t)
                      \/ QueueTaskClosed(t)
                      \/ QueueMicroTask(t)
                      \/ QueueTaskOutsideContext(t)

CloseStep == CloseRuntime \/ CloseAbort \/ CloseRelease \/ TsfnFinalize

SignalStep(b) == SignalAcquire(b) \/ SignalCall(b) \/ SignalRelease(b)

ThreadStep(b) ==
  \/ SignalStep(b)
  \/ EndWait(b)
  \/ \E t \in Tasks : QueueTask(b, t) \/ StartWait(b, t)

Next == JsStep \/ DotnetStep \/ CloseStep \/ \E b \in Threads : ThreadStep(b)

(***************************************************************************)
(* Fairness: code that was entered on the node thread comes to its end (a  *)
(* frame at each depth returns, whatever it calls before), V8 drains its   *)
(* microtasks, libuv does not starve the TSFN's async handle in favour of  *)
(* other callbacks, and the operating system schedules every thread. No    *)
(* fairness makes the application queue, wait, call or close.              *)
(***************************************************************************)
Returns(d) == Len(stack) = d /\ (JsReturns \/ DotnetReturns)

Fairness ==
  /\ \A d \in 1..MaxDepth : SF_vars(Returns(d))
  /\ WF_vars(JsMicrotask)
  /\ WF_vars(OnProcessMicroTask)
  /\ SF_vars(OnProcessJSEventLoopEntry)
  /\ WF_vars(CloseAbort) /\ WF_vars(CloseRelease)
  /\ \A b \in Threads : WF_vars(SignalStep(b)) /\ WF_vars(EndWait(b))

Spec == Init /\ [][Next]_vars
FairSpec == Spec /\ Fairness

-----------------------------------------------------------------------------
(* Properties.                                                             *)

Pcs == {"idle", "signal", "acquired", "called", "wait"}

(* Every variable has its type; a thread that is not idle has a task.      *)
(* (NodeTaskScheduler's fields, the TSFN of Context.)                      *)
TypeOK ==
  /\ stack \in Seq(Frames)
  /\ active \in BOOLEAN
  /\ status \in [Tasks -> {"new", "started", "running", "done"}]
  /\ microTasks \in Seq(Tasks)
  /\ jsMicro \in Seq(Tasks \cup {JsJob})
  /\ jsJobs \in Nat
  /\ handles \subseteq Tasks
  /\ bg \in [Threads -> [pc : Pcs, task : Tasks \cup {NoTask}]]
  /\ \A b \in Threads : bg[b].pc = "idle" <=> bg[b].task = NoTask
  /\ tsfnQueue \in Seq(Tasks)
  /\ tsfnRefs \in Nat
  /\ tsfnClosing \in BOOLEAN
  /\ closePhase \in {"open", "closing", "aborted", "closed"}

(* A frame that sets _activeThread has nothing but JavaScript below it, an *)
(* inner frame has one that set it below, and Close, until it returns, is  *)
(* on top of JavaScript only. (RunCallbackSynchronously, Close.)           *)
StackShape ==
  /\ \A i \in 1..Len(stack) :
       /\ stack[i].kind \in OutermostKinds \cup {"close"} =>
            \A j \in 1..(i-1) : stack[j].kind = "js"
       /\ stack[i].kind \in InnerKinds =>
            \E j \in 1..(i-1) : stack[j].kind \in OutermostKinds
       /\ stack[i].kind = "close" => i = Len(stack)
  /\ closePhase \in {"closing", "aborted"} <=> TopIs({"close"})

(* ContextIsActive tells the truth: _activeThread is the node thread       *)
(* exactly while some .NET frame is on its stack, however JavaScript and   *)
(* .NET are nested; so a callback's return never makes the frames below it *)
(* look as if they ran outside the context. (RunCallbackSynchronously.)    *)
ContextMatchesStack ==
  /\ active <=> \E i \in 1..Len(stack) : stack[i].kind \in DotnetKinds
  /\ StackShape

(* The task frames on the stack are exactly the running tasks, one frame   *)
(* each: no task is entered while it already runs, inlined or not.         *)
TaskFramesMatch ==
  /\ \A i \in 1..Len(stack) : stack[i].kind \in TaskKinds =>
       /\ stack[i].task \in Tasks
       /\ status[stack[i].task] = "running"
       /\ \A j \in 1..Len(stack) :
            stack[j].kind \in TaskKinds /\ stack[j].task = stack[i].task => i = j
  /\ \A t \in Tasks : status[t] = "running" =>
       \E i \in 1..Len(stack) : stack[i].kind \in TaskKinds /\ stack[i].task = t

(* How many of the first n entries of s, a queue like V8's, are calls of   *)
(* invokeDotnetMicrotask.                                                  *)
Rank(s, n) == Cardinality({j \in 1..n : s[j] # JsJob})

(* V8's queue and the managed queue stay in step although the V8 entries   *)
(* carry no task: the k-th call of invokeDotnetMicrotask dequeues the task *)
(* it was queued for, so _microTasks.Dequeue never meets an empty queue    *)
(* and tasks keep their place among JavaScript's own microtasks (the       *)
(* comment at NodeTaskScheduler.cs:87-88).                                 *)
MicroInStep ==
  /\ Len(microTasks) = Rank(jsMicro, Len(jsMicro))
  /\ \A i \in 1..Len(jsMicro) :
       jsMicro[i] # JsJob => microTasks[Rank(jsMicro, i)] = jsMicro[i]

InFlight(t) == \E b \in Threads : bg[b].pc \in {"signal", "acquired"} /\ bg[b].task = t
Queued(s, t) == \E i \in 1..Len(s) : s[i] = t
InMacroFrame(t) == \E i \in 1..Len(stack) : stack[i] = Frame("macro", t)

(* Until Close begins, a task that was queued and has not been executed is *)
(* held by a queue or by the thread signalling it: it cannot be forgotten  *)
(* by two queues, an inlined execution and several threads between them.   *)
(* (QueueTask, SignalEventLoopEntry.)                                      *)
NoTaskLostWhileOpen ==
  ~Closed => \A t \in Tasks : status[t] = "started" =>
    InFlight(t) \/ Queued(microTasks, t) \/ Queued(tsfnQueue, t)

HoldsHandle(t) == InFlight(t) \/ Queued(tsfnQueue, t) \/ InMacroFrame(t)

(* Whoever will still use a task's GCHandle finds it live, so              *)
(* GCHandle.FromIntPtr is valid and Free runs once; and until Close begins *)
(* no GCHandle is leaked. (QueueTask, OnProcessJSEventLoopEntry.)          *)
HandlesAccounted ==
  /\ \A t \in Tasks : HoldsHandle(t) => t \in handles
  /\ ~Closed => \A t \in handles : HoldsHandle(t)

(* The TSFN's thread count is the context's own reference plus one for     *)
(* each thread inside SignalEventLoopEntry, so no thread's Release closes  *)
(* it: only Context::Close does. (SignalEventLoopEntry, Context::Close.)   *)
TsfnCounted ==
  /\ tsfnClosing <=> closePhase \in {"aborted", "closed"}
  /\ ~tsfnClosing =>
       tsfnRefs = 1 + Cardinality({b \in Threads : bg[b].pc \in {"acquired", "called"}})

(* A task is executed at most once, and only when it was queued: each step *)
(* moves it at most one state forward, whichever of inlining, microtask    *)
(* and event loop entry gets to it first. (TryExecuteTask's callers.)      *)
RunsOnce ==
  [][\A t \in Tasks : \/ status'[t] = status[t]
                      \/ status[t] = "new" /\ status'[t] = "started"
                      \/ status[t] = "started" /\ status'[t] = "running"
                      \/ status[t] = "running" /\ status'[t] = "done"]_vars

(* A queued task is executed, unless the runtime closes: neither JavaScript *)
(* nor nested callbacks nor other tasks can keep it waiting for ever. And  *)
(* a thread that blocks on a task (as ElectronJSRuntime does on every      *)
(* synchronous call) gets its answer, unless the runtime closes.           *)
EveryTaskRuns ==
  /\ \A t \in Tasks : status[t] = "started" ~> (status[t] = "done" \/ Closed)
  /\ \A b \in Threads : bg[b].pc = "wait" ~> (bg[b].pc # "wait" \/ Closed)

(* The scheduler implements TaskService: the two microtask queues are one  *)
(* order, a thread's GCHandle is the task in transit, the TSFN's queue is  *)
(* the event loop's.                                                       *)
Service == INSTANCE TaskService WITH
  state   <- status,
  micro   <- jsMicro,
  transit <- {t \in Tasks : InFlight(t)},
  macro   <- tsfnQueue,
  open    <- ~Closed

ServiceSpec == Service!Spec

=============================================================================
