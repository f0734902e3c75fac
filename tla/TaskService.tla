----------------------------- MODULE TaskService -----------------------------
(***************************************************************************)
(* What NodeTaskScheduler promises to code that queues tasks on it, with   *)
(* no stack, no thread, no handle and no thread safe function:             *)
(*   - a task queued by code of the node thread takes its place in ONE     *)
(*     microtask order that it shares with JavaScript's own microtasks;    *)
(*   - a task queued elsewhere is in transit for a while, then waits in    *)
(*     the order of arrival for a moment without microtasks;               *)
(*   - a queued task starts only when no other task is running, unless     *)
(*     the node thread itself waits for it and executes it in place;       *)
(*   - nothing is given up while the runtime is open.                      *)
(* Implemented by NodeScheduler (Service there).                           *)
(***************************************************************************)
EXTENDS Naturals, Sequences

CONSTANTS Tasks, JsJob

VARIABLES
  state,    (* "new", "started", "running" or "done", per task             *)
  micro,    (* the one order of microtasks: tasks and JavaScript's jobs     *)
  transit,  (* tasks queued by others that have not arrived yet             *)
  macro,    (* tasks that wait for the event loop, in order of arrival      *)
  open      (* the runtime has not begun to close                           *)

vars == <<state, micro, transit, macro, open>>

NoneRunning == \A t \in Tasks : state[t] # "running"

Accept(t) == state[t] = "new" /\ state' = [state EXCEPT ![t] = "started"]

(* The queue's entry for t is used up; t runs unless it already has.       *)
Execute(t) ==
  /\ NoneRunning
  /\ state' = IF state[t] = "started"
              THEN [state EXCEPT ![t] = "running"] ELSE state

Init ==
  /\ state = [t \in Tasks |-> "new"]
  /\ micro = <<>>
  /\ transit = {}
  /\ macro = <<>>
  /\ open = TRUE

QueueMicro(t) ==
  /\ open /\ Accept(t)
  /\ micro' = Append(micro, t)
  /\ UNCHANGED <<transit, macro, open>>

QueueMacro(t) ==
  /\ open /\ Accept(t)
  /\ \/ transit' = transit \cup {t} /\ UNCHANGED macro
     \/ macro' = Append(macro, t) /\ UNCHANGED transit
  /\ UNCHANGED <<micro, open>>

QueueLate(t) ==
  /\ ~open /\ Accept(t)
  /\ UNCHANGED <<micro, transit, macro, open>>

Arrive(t) ==
  /\ t \in transit
  /\ transit' = transit \ {t}
  /\ \/ macro' = Append(macro, t)
     \/ ~open /\ UNCHANGED macro
  /\ UNCHANGED <<state, micro, open>>

QueueJs ==
  /\ micro' = Append(micro, JsJob)
  /\ UNCHANGED <<state, transit, macro, open>>

RunJs ==
  /\ micro # <<>>
  /\ Head(micro) = JsJob
  /\ NoneRunning
  /\ micro' = Tail(micro)
  /\ UNCHANGED <<state, transit, macro, open>>

RunMicro ==
  /\ micro # <<>>
  /\ Head(micro) # JsJob
  /\ Execute(Head(micro))
  /\ micro' = Tail(micro)
  /\ UNCHANGED <<transit, macro, open>>

RunMacro ==
  /\ micro = <<>>
  /\ macro # <<>>
  /\ Execute(Head(macro))
  /\ macro' = Tail(macro)
  /\ UNCHANGED <<micro, transit, open>>

Inline(t) ==
  /\ state[t] = "started"
  /\ state' = [state EXCEPT ![t] = "running"]
  /\ UNCHANGED <<micro, transit, macro, open>>

Finish(t) ==
  /\ state[t] = "running"
  /\ state' = [state EXCEPT ![t] = "done"]
  /\ UNCHANGED <<micro, transit, macro, open>>

(* Closing begins outside every task.                                      *)
Close ==
  /\ open /\ NoneRunning
  /\ open' = FALSE
  /\ UNCHANGED <<state, micro, transit, macro>>

Discard ==
  /\ ~open /\ NoneRunning
  /\ macro' = <<>>
  /\ UNCHANGED <<state, micro, transit, open>>

Next ==
  \/ QueueJs \/ RunJs \/ RunMicro \/ RunMacro \/ Close \/ Discard
  \/ \E t \in Tasks : \/ QueueMicro(t) \/ QueueMacro(t) \/ QueueLate(t)
                      \/ Arrive(t) \/ Inline(t) \/ Finish(t)

Spec == Init /\ [][Next]_vars
=============================================================================
