---------------------------- MODULE TaskPromise ----------------------------
(***************************************************************************)
(* .NET tasks handed to JavaScript as promises: TaskHolder in              *)
(* NativeHost/NativeNodeHost.cs, the conversion in dotnethandle.h,         *)
(* CompletePromise and the end of RunCoreApp in context.cc.                *)
(*                                                                         *)
(* A holder is one conversion of one task. Its continuation is a task of   *)
(* the scheduler, of which only the promises of TaskService are used. The  *)
(* promise of Main is the one whose settlement closes the runtime.         *)
(***************************************************************************)
EXTENDS Naturals, Sequences

CONSTANTS
  Tasks,      (* the application's tasks                                    *)
  Typed,      (* those with a result, Task<T>                               *)
  Holders,    (* bound: TaskHolder objects in a behaviour                   *)
  Main,       (* the holder of the task that the entry point returns        *)
  JsJob,      (* the reaction to Main's promise: Close                      *)
  NoTask

ASSUME PromiseAssumption ==
  /\ Typed \subseteq Tasks
  /\ Main \in Holders
  /\ NoTask \notin Tasks \cup Holders
  /\ JsJob \notin Holders

VARIABLES
  task,       (* "running", or how each task ended                          *)
  taskOf,     (* _task of each holder, NoTask before its construction       *)
  taskRegistry,  (* _taskRegistry                                           *)
  promise,    (* what became of each holder's value and of its promise      *)
  uses,       (* how often each deferred was resolved or rejected           *)
  calling,    (* the holder in OnCalled between its test and ContinueWith   *)
  attached,   (* holders whose continuation waits for the task              *)
  state, micro, transit, macro, open  (* the scheduler's, see TaskService   *)

Scheduler == INSTANCE TaskService WITH Tasks <- Holders

schedulerVars == <<state, micro, transit, macro, open>>
holderVars == <<taskOf, taskRegistry>>
promiseVars == <<task, holderVars, promise, uses, calling, attached, schedulerVars>>

Outcomes == {"value", "unsupported", "faulted", "cancelled"}
Settled == {"fulfilled", "rejected"}
IsCompleted(t) == task[t] \in Outcomes
NodeThreadIsFree == calling = NoTask /\ Scheduler!NoneRunning

PromiseInit ==
  /\ task = [t \in Tasks |-> "running"]
  /\ taskOf = [h \in Holders |-> NoTask]
  /\ taskRegistry = {}
  /\ promise = [h \in Holders |-> "unused"]
  /\ uses = [h \in Holders |-> 0]
  /\ calling = NoTask
  /\ attached = {}
  /\ Scheduler!Init

-----------------------------------------------------------------------------
(* The application ends a task, on any thread. "unsupported" is a result   *)
(* that FromObject refuses.                                                *)
Complete(t, outcome) ==
  /\ task[t] = "running"
  /\ outcome = "unsupported" => t \in Typed
  /\ task' = [task EXCEPT ![t] = outcome]
  /\ UNCHANGED <<holderVars, promise, uses, calling, attached, schedulerVars>>

(* FromTask: a task is made a value for JavaScript.                        *)
MarshallTask(h, t) ==
  /\ taskOf[h] = NoTask
  /\ h = Main => open
  /\ taskOf' = [taskOf EXCEPT ![h] = t]
  /\ taskRegistry' = taskRegistry \cup {h}
  /\ promise' = [promise EXCEPT ![h] = "value"]
  /\ UNCHANGED <<task, uses, calling, attached, schedulerVars>>

(* The value is not converted: the call it is an argument of is refused,   *)
(* by CheckInContext or by an early return of the native side. (Main's is  *)
(* always converted.)                                                      *)
LoseValue(h) ==
  /\ h # Main
  /\ promise[h] = "value"
  /\ promise' = [promise EXCEPT ![h] = "lost"]
  /\ UNCHANGED <<task, holderVars, uses, calling, attached, schedulerVars>>

-----------------------------------------------------------------------------
(* Mutant: a task without a result is never looked at.                     *)
AnswerBlind(t) ==
  IF t \in Typed /\ task[t] = "value" THEN "fulfilled"
  ELSE IF t \notin Typed THEN "fulfilled"
  ELSE IF task[t] = "faulted" THEN "rejected" ELSE "throws"

(* What the two branches of OnCalled compute from a completed task. Only a *)
(* fault gives an exception; GetResult throws for a cancelled Task<T>, and *)
(* FromObject for a value JavaScript cannot have.                          *)
Answer(t) ==
  IF task[t] = "faulted" THEN "rejected"
  ELSE IF task[t] = "unsupported" \/ (task[t] = "cancelled" /\ t \in Typed) THEN "throws"
  ELSE "fulfilled"

(* The deferred is resolved or rejected. The reaction to Main's promise    *)
(* is queued.                                                              *)
Settle(h, how) ==
  /\ promise' = [promise EXCEPT ![h] = how]
  /\ uses' = [uses EXCEPT ![h] = @ + 1]
  /\ micro' = IF h = Main THEN Append(micro, JsJob) ELSE micro

(* ToValue makes the promise and calls OnCalled. For a completed task the  *)
(* promise is settled there, with the exception if an answer throws; the   *)
(* holder is then forgotten.                                               *)
SettleAtOnce(h) ==
  /\ NodeThreadIsFree
  /\ promise[h] = "value"
  /\ IsCompleted(taskOf[h])
  /\ LET answer == Answer(taskOf[h]) IN
       Settle(h, IF answer = "throws" THEN "rejected" ELSE answer)
  /\ taskRegistry' = taskRegistry \ {h}
  /\ UNCHANGED <<task, taskOf, calling, attached, state, transit, macro, open>>

FindRunning(h) ==
  /\ NodeThreadIsFree
  /\ promise[h] = "value"
  /\ ~IsCompleted(taskOf[h])
  /\ promise' = [promise EXCEPT ![h] = "pending"]
  /\ calling' = h
  /\ UNCHANGED <<task, holderVars, uses, attached, schedulerVars>>

(* Mutant: a continuation is attached only to a task that still runs.      *)
ContinueIfRunning(h) ==
  /\ calling = h
  /\ calling' = NoTask
  /\ attached' = IF IsCompleted(taskOf[h]) THEN attached ELSE attached \cup {h}
  /\ taskRegistry' = taskRegistry \ {h}
  /\ UNCHANGED <<task, taskOf, promise, uses, schedulerVars>>

(* Mutant: the holder stays in _taskRegistry.                              *)
ContinueAndKeep(h) ==
  /\ calling = h
  /\ calling' = NoTask
  /\ attached' = attached \cup {h}
  /\ UNCHANGED <<task, holderVars, promise, uses, schedulerVars>>

(* The task may have completed since the test: the continuation is then    *)
(* due at once.                                                            *)
ContinueWith(h) ==
  /\ calling = h
  /\ calling' = NoTask
  /\ attached' = attached \cup {h}
  /\ taskRegistry' = taskRegistry \ {h}
  /\ UNCHANGED <<task, taskOf, promise, uses, schedulerVars>>

-----------------------------------------------------------------------------
(* The thread that completed the task hands a continuation to the          *)
(* scheduler: as a microtask if it is the node thread and in the context.  *)
QueueContinuation(h) ==
  /\ h \in attached
  /\ IsCompleted(taskOf[h])
  /\ attached' = attached \ {h}
  /\ \/ NodeThreadIsFree /\ Scheduler!QueueMicro(h)
     \/ Scheduler!QueueMacro(h)
     \/ Scheduler!QueueLate(h)
  /\ UNCHANGED <<task, holderVars, promise, uses, calling>>

SchedulerStep ==
  /\ calling = NoTask
  /\ Scheduler!RunMicro \/ Scheduler!RunMacro \/ Scheduler!Discard
  /\ UNCHANGED <<task, holderVars, promise, uses, calling, attached>>

Arrive(h) ==
  /\ Scheduler!Arrive(h)
  /\ UNCHANGED <<task, holderVars, promise, uses, calling, attached>>

(* The continuation. Nobody catches what an answer throws.                 *)
RunContinuation(h) ==
  /\ state[h] = "running"
  /\ state' = [state EXCEPT ![h] = "done"]
  /\ LET answer == Answer(taskOf[h]) IN
       IF answer = "throws" THEN UNCHANGED <<promise, uses, micro>> ELSE Settle(h, answer)
  /\ UNCHANGED <<task, holderVars, calling, attached, transit, macro, open>>

(* Either reaction to Main's promise closes the runtime.                   *)
CloseAfterMain ==
  /\ NodeThreadIsFree
  /\ micro # <<>>
  /\ Head(micro) = JsJob
  /\ micro' = Tail(micro)
  /\ open' = FALSE
  /\ UNCHANGED <<task, holderVars, promise, uses, calling, attached, state, transit, macro>>

(* Mutant: RunCoreApp closes without looking at what it returns.           *)
CloseAlways ==
  /\ calling = NoTask
  /\ Scheduler!Close
  /\ UNCHANGED <<task, holderVars, promise, uses, calling, attached>>

(* RunCoreApp closes at once if the entry point returns no task.           *)
CloseWithoutMain ==
  /\ calling = NoTask
  /\ taskOf[Main] = NoTask
  /\ Scheduler!Close
  /\ UNCHANGED <<task, holderVars, promise, uses, calling, attached>>

-----------------------------------------------------------------------------
HolderStep(h) ==
  \/ SettleAtOnce(h) \/ FindRunning(h) \/ ContinueWith(h)
  \/ QueueContinuation(h) \/ Arrive(h) \/ RunContinuation(h)

PromiseNext ==
  \/ SchedulerStep \/ CloseAfterMain \/ CloseWithoutMain
  \/ \E h \in Holders :
       \/ HolderStep(h) \/ LoseValue(h)
       \/ \E t \in Tasks : MarshallTask(h, t)
  \/ \E t \in Tasks, outcome \in Outcomes : Complete(t, outcome)

(* The node thread goes on, a thread that completes a task hands on all    *)
(* its continuations, and what the scheduler promises (NodeScheduler's     *)
(* EveryTaskRuns). The application need not complete anything.             *)
PromiseFairness ==
  /\ WF_promiseVars(SchedulerStep) /\ WF_promiseVars(CloseAfterMain)
  /\ \A h \in Holders :
       /\ WF_promiseVars(ContinueWith(h)) /\ WF_promiseVars(QueueContinuation(h))
       /\ WF_promiseVars(Arrive(h)) /\ WF_promiseVars(RunContinuation(h))

PromiseSpec == PromiseInit /\ [][PromiseNext]_promiseVars
PromiseFairSpec == PromiseSpec /\ PromiseFairness

-----------------------------------------------------------------------------
(* The types; a holder is built once it has a task and is a value, lost or *)
(* a promise from then on. (TaskHolder.)                                   *)
PromiseTypeOK ==
  /\ task \in [Tasks -> Outcomes \cup {"running"}]
  /\ taskOf \in [Holders -> Tasks \cup {NoTask}]
  /\ taskRegistry \subseteq Holders /\ attached \subseteq Holders
  /\ promise \in [Holders -> Settled \cup {"unused", "value", "lost", "pending"}]
  /\ uses \in [Holders -> Nat]
  /\ calling \in Holders \cup {NoTask}
  /\ state \in [Holders -> {"new", "started", "running", "done"}]
  /\ micro \in Seq(Holders \cup {JsJob}) /\ macro \in Seq(Holders)
  /\ transit \subseteq Holders
  /\ open \in BOOLEAN
  /\ \A h \in Holders : taskOf[h] = NoTask <=> promise[h] = "unused"

(* A deferred is resolved or rejected once, whether its task completes     *)
(* before the test, between test and ContinueWith, or later: node frees it *)
(* with the first use. And a settled promise says how its task ended: it   *)
(* is rejected for a fault and for a result that cannot be had, never      *)
(* before the end. _taskRegistry keeps a holder as long as native code may *)
(* call it, and no longer once it has been called; only values that are    *)
(* never converted stay. (MarshallTask, OnCalled, CompletePromise.)        *)
PromiseTellsOutcome ==
  /\ PromiseTypeOK
  /\ \A h \in Holders :
    /\ uses[h] = IF promise[h] \in Settled THEN 1 ELSE 0
    /\ promise[h] \in Settled => IsCompleted(taskOf[h])
    /\ promise[h] = "fulfilled" =>
         \/ task[taskOf[h]] = "value"
         \/ taskOf[h] \notin Typed /\ task[taskOf[h]] # "faulted"
    /\ promise[h] = "rejected" =>
         \/ task[taskOf[h]] = "faulted"
         \/ taskOf[h] \in Typed /\ task[taskOf[h]] # "value"
  /\ taskRegistry = {h \in Holders : promise[h] \in {"value", "lost"} \/ calling = h}

(* A promise whose task has ended with an answer is settled, unless the    *)
(* runtime closes: the task's end is not missed between the test and       *)
(* ContinueWith. (OnCalled.)                                               *)
EveryPromiseSettles ==
  \A h \in Holders :
    (promise[h] = "pending" /\ IsCompleted(taskOf[h]) /\ Answer(taskOf[h]) # "throws")
      ~> (promise[h] \in Settled \/ ~open)

(* The runtime closes after Main's task has ended, and not before its      *)
(* promise is settled. (RunCoreApp.)                                       *)
ClosesAfterMain ==
  ~open /\ taskOf[Main] # NoTask => promise[Main] \in Settled

(* "It_should_marshal_Task_with_unsupported_result_type_as_exception"      *)
(* (coreclr-hosting/test/TestApp/Tests/Global_test_object.cs:168): when    *)
(* all code has run, the promise of such a task is rejected. The code does *)
(* so only for a task that was complete when it was converted.             *)
UnsupportedIsRejected ==
  \A h \in Holders :
    state[h] = "done" /\ task[taskOf[h]] = "unsupported" => promise[h] = "rejected"
=============================================================================
