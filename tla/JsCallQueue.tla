---------------------------- MODULE JsCallQueue ----------------------------
(***************************************************************************)
(* Calls between JavaScript and .NET on the node thread: the work queue of *)
(* Hosting/ElectronCallQueue.cs, the renderer that holds calls back while  *)
(* a batch is applied (Rendering/ElectronRenderer.cs), the entry points of *)
(* Services/ElectronJSRuntime.cs, and the calls that JavaScript has open   *)
(* (JsInterop/Microsoft.JSInterop.ts, class CallDispatcher).               *)
(*                                                                         *)
(* The call stack of the thread is explicit, because calls in one          *)
(* direction are made from inside calls in the other. A frame is           *)
(*   js      JavaScript,                                                   *)
(*   task    .NET code run by the scheduler or called synchronously,       *)
(*   item    .NET code run as a work item of the queue,                    *)
(*   render  ProcessPendingRender, with JavaScript applying a batch.       *)
(* Event handlers are known by id to both sides: JavaScript's are those    *)
(* in the document, .NET's those the renderer can dispatch to.             *)
(***************************************************************************)
EXTENDS Naturals, Sequences, SequencesExt

CONSTANTS
  Handlers,   (* event handler ids                                          *)
  Budget,     (* bound: things JavaScript and .NET code start by themselves *)
  MaxDepth    (* bound: frames on the stack                                 *)

ASSUME QueueAssumption == Budget \in Nat /\ MaxDepth \in Nat

VARIABLES
  stack,
  inProgress, (* _isCallInProgress                                          *)
  queue,      (* _pendingWork                                               *)
  made,       (* items scheduled so far; the next one's id follows          *)
  threw,      (* an exception has left Schedule                             *)
  attached,   (* handlers in the document                                   *)
  registered, (* handlers .NET can dispatch to                              *)
  present,    (* handlers of the current component tree                     *)
  pending,    (* _pendingAsyncCalls                                         *)
  begun,      (* calls .NET has begun and not ended                         *)
  lost,       (* calls whose result could not be revived                    *)
  asked,      (* JavaScript calls of .NET whose promise is open             *)
  results,    (* those whose result is serialised but not reported yet      *)
  arrays,     (* the byte arrays .NET holds: those of one call or result    *)
  spent

queueVars == <<inProgress, queue, made, threw>>
handlerVars == <<attached, registered, present>>
callVars == <<pending, begun, lost, asked, results>>
vars == <<stack, queueVars, handlerVars, callVars, arrays, spent>>

(* A work item: what it is for, the handler an event is for or those an    *)
(* acknowledgement gives up, and the byte arrays sent for it (0: none).    *)
Item(kind, id, handlers, data) ==
  [kind |-> kind, id |-> id, handlers |-> handlers, data |-> data]
NoItem == Item("none", 0, {}, 0)

(* got: the byte arrays an item found. caller: the call for which Schedule *)
(* was called, 0 if it was for something else. add, remove: the edits of a *)
(* batch that are still to be made. gone: all it disposes.                 *)
Frame(kind, item, got, caller, add, remove) ==
  [kind |-> kind, item |-> item, got |-> got, caller |-> caller,
   add |-> add, remove |-> remove, gone |-> remove]
JsFrame == Frame("js", NoItem, 0, 0, {}, {})
TaskFrame == Frame("task", NoItem, 0, 0, {}, {})
RenderFrame(add, remove) == Frame("render", NoItem, 0, 0, add, remove)
ItemFrame(item, got, caller) == Frame("item", item, got, caller, {}, {})

TopIs(kinds) == stack # <<>> /\ Last(stack).kind \in kinds
InDotnet == TopIs({"task", "item"})
InJs == TopIs({"js", "render"})
Rendering == \E i \in DOMAIN stack : stack[i].kind = "render"
HasUnstartedWork == queue # <<>>

Spend == spent < Budget /\ spent' = spent + 1
NewId == made + 1

Init ==
  /\ stack = <<>>
  /\ inProgress = FALSE
  /\ queue = <<>>
  /\ made = 0 /\ threw = FALSE
  /\ attached = {} /\ registered = {} /\ present = {}
  /\ pending = {} /\ begun = {} /\ lost = {} /\ asked = {} /\ results = {}
  /\ arrays = 0
  /\ spent = 0

-----------------------------------------------------------------------------
(* What an item does when it starts: an acknowledgement lets the renderer  *)
(* forget handlers, a call revives its arguments and begins.               *)
Start(item, base, found, caller) ==
  /\ stack' = Append(base, ItemFrame(item, found, caller))
  /\ registered' = IF item.kind = "ack" THEN registered \ item.handlers ELSE registered
  /\ begun' = IF item.kind = "call" THEN begun \cup {item.id} ELSE begun

(* Schedule, up to the callback. base is the stack of the caller, found    *)
(* what a call finds in the store of byte arrays. (The flag also stays set *)
(* once an exception has left the loop: then all that comes waits for ever.)*)
Schedule(item, base, found) ==
  /\ made' = item.id
  /\ \/ /\ inProgress
        /\ queue' = Append(queue, item)
        /\ stack' = base
        /\ UNCHANGED <<inProgress, registered, begun>>
     \/ /\ ~inProgress
        /\ inProgress' = TRUE
        /\ Start(item, base, found, IF item.kind = "call" THEN item.id ELSE 0)
        /\ UNCHANGED queue

(* Mutant: the queue is taken from the back.                               *)
DrainLast ==
  /\ TopIs({"item"})
  /\ \/ /\ queue = <<>>
        /\ inProgress' = FALSE
        /\ stack' = Front(stack)
        /\ UNCHANGED <<queue, registered, begun>>
     \/ /\ queue # <<>>
        /\ queue' = Front(queue)
        /\ Start(Last(queue), Front(stack), arrays, Last(stack).caller)
        /\ UNCHANGED inProgress
  /\ UNCHANGED <<made, threw, attached, present, pending, lost, asked, results, arrays, spent>>

(* Mutant: one item is run, the rest is left.                              *)
DrainNone ==
  /\ TopIs({"item"})
  /\ inProgress' = FALSE
  /\ stack' = Front(stack)
  /\ UNCHANGED <<queue, registered, begun>>
  /\ UNCHANGED <<made, threw, attached, present, pending, lost, asked, results, arrays, spent>>

(* A callback returns to Schedule, which takes the next item or leaves.    *)
Drain ==
  /\ TopIs({"item"})
  /\ \/ /\ queue = <<>>
        /\ inProgress' = FALSE
        /\ stack' = Front(stack)
        /\ UNCHANGED <<queue, registered, begun>>
     \/ /\ queue # <<>>
        /\ queue' = Tail(queue)
        /\ Start(Head(queue), Front(stack), arrays, Last(stack).caller)
        /\ UNCHANGED inProgress
  /\ UNCHANGED <<made, threw, attached, present, pending, lost, asked, results, arrays, spent>>

-----------------------------------------------------------------------------
(* The event loop runs JavaScript or a .NET task.                          *)
Turn(frame) ==
  /\ stack = <<>>
  /\ Spend
  /\ stack' = <<frame>>
  /\ UNCHANGED <<queueVars, handlerVars, callVars, arrays>>

Return ==
  /\ TopIs({"js", "task"})
  /\ stack' = Front(stack)
  /\ UNCHANGED <<queueVars, handlerVars, callVars, arrays, spent>>

(* invokeDotNetMethodAsync and BeginInvokeDotNet: the call is entered among*)
(* the open ones, its byte arrays are sent while it is serialised, and it  *)
(* is scheduled. An event names a handler that is in the document.         *)
BeginInvokeDotNet(handlers, sends) ==
  /\ InJs
  /\ Len(stack) < MaxDepth
  /\ handlers \subseteq attached
  /\ Spend
  /\ pending' = pending \cup {NewId}
  /\ arrays' = IF sends THEN spent' ELSE arrays
  /\ Schedule(Item("call", NewId, handlers, IF sends THEN spent' ELSE 0), stack, arrays')
  /\ UNCHANGED <<threw, attached, present, lost, asked, results>>

(* InvokeDotNet is not queued: it is the synchronous call.                 *)
InvokeDotNet ==
  /\ InJs
  /\ Len(stack) < MaxDepth
  /\ Spend
  /\ stack' = Append(stack, TaskFrame)
  /\ UNCHANGED <<queueVars, handlerVars, callVars, arrays>>

(* The result cannot be revived, which is found before the open call is    *)
(* taken out. Where the method returned at once, what is thrown leaves the *)
(* item and the loop of Schedule, and the flag stays set. It goes to where *)
(* Schedule was called: invokeDotNetMethodAsync rejects the call it was    *)
(* making, any other caller rejects none. Where a task ended later, nobody *)
(* sees what is thrown.                                                    *)
RevivalThrows(c) ==
  \/ /\ TopIs({"item"}) /\ Last(stack).item.id = c
     /\ threw' = TRUE
     /\ stack' = Front(stack)
     /\ pending' = pending \ {Last(stack).caller}
     /\ lost' = lost \cup ({c} \ {Last(stack).caller})
  \/ /\ ~(TopIs({"item"}) /\ Last(stack).item.id = c)
     /\ lost' = lost \cup {c}
     /\ UNCHANGED <<stack, threw, pending>>

(* EndInvokeDotNet, from .NET code on this thread, or through the scheduler*)
(* from another: completePendingCall takes the open call out (and throws,  *)
(* which nobody sees, if the call has been rejected meanwhile).            *)
EndInvokeDotNet(c) ==
  /\ c \in begun
  /\ InDotnet \/ stack = <<>>
  /\ begun' = begun \ {c}
  /\ \/ /\ pending' = pending \ {c}
        /\ UNCHANGED <<stack, threw, lost>>
     \/ RevivalThrows(c)
  /\ UNCHANGED <<inProgress, queue, made, handlerVars, asked, results, arrays, spent>>

-----------------------------------------------------------------------------
(* BeginInvokeJS: JavaScript is called, and its promise is open.           *)
BeginInvokeJS ==
  /\ InDotnet
  /\ Len(stack) < MaxDepth
  /\ Spend
  /\ asked' = asked \cup {spent'}
  /\ stack' = Append(stack, JsFrame)
  /\ UNCHANGED <<queueVars, handlerVars, pending, begun, lost, results, arrays>>

(* The promise is settled: its first reaction serialises the result, which *)
(* sends byte arrays, and a second one reports it. Both are microtasks.    *)
SerializeResult(a, sends) ==
  /\ stack = <<>>
  /\ a \in asked
  /\ asked' = asked \ {a}
  /\ LET data == IF sends THEN Budget + a ELSE 0 IN
       /\ results' = results \cup {[call |-> a, data |-> data]}
       /\ arrays' = IF sends THEN data ELSE arrays
  /\ UNCHANGED <<stack, queueVars, handlerVars, pending, begun, lost, spent>>

EndInvokeJS(r) ==
  /\ stack = <<>>
  /\ r \in results
  /\ results' = results \ {r}
  /\ Schedule(Item("result", NewId, {}, r.data), <<JsFrame>>, arrays)
  /\ UNCHANGED <<threw, attached, present, pending, lost, asked, arrays, spent>>

-----------------------------------------------------------------------------
(* Mutant: rendering does not get onto the work queue.                     *)
RenderOffQueue(add, remove) ==
  /\ stack' = Append(stack, RenderFrame(add, remove))
  /\ UNCHANGED <<inProgress, made>>

(* Rendering goes on at once, on the work queue.                           *)
ProcessPendingRender(add, remove) ==
  \/ /\ inProgress
     /\ stack' = Append(stack, RenderFrame(add, remove))
     /\ UNCHANGED <<inProgress, made>>
  \/ /\ ~inProgress
     /\ inProgress' = TRUE
     /\ made' = NewId
     /\ stack' = stack \o <<ItemFrame(Item("render", NewId, {}, 0), 0, 0),
                            RenderFrame(add, remove)>>

(* .NET code renders: components get and lose handlers. (A rendering asked *)
(* for during another is done by the same loop.)                           *)
Render(add, remove) ==
  /\ InDotnet
  /\ Len(stack) + 1 < MaxDepth
  /\ ~Rendering
  /\ Spend
  /\ add \cap (registered \cup attached) = {}
  /\ remove \subseteq present
  /\ ProcessPendingRender(add, remove)
  /\ registered' = registered \cup add
  /\ present' = (present \cup add) \ remove
  /\ UNCHANGED <<queue, threw, attached, callVars, arrays>>

(* renderBatch applies one edit; JavaScript may raise events in between.   *)
ApplyEdit(h) ==
  /\ TopIs({"render"})
  /\ \/ /\ h \in Last(stack).add
        /\ attached' = attached \cup {h}
        /\ stack' = [stack EXCEPT ![Len(stack)].add = @ \ {h}]
     \/ /\ h \in Last(stack).remove
        /\ attached' = attached \ {h}
        /\ stack' = [stack EXCEPT ![Len(stack)].remove = @ \ {h}]
  /\ UNCHANGED <<queueVars, registered, present, callVars, arrays, spent>>

(* Mutant: while calls wait there is no acknowledgement.                   *)
AcknowledgeIdle(gone) ==
  /\ stack' = Front(stack)
  /\ registered' = IF HasUnstartedWork THEN registered ELSE registered \ gone
  /\ UNCHANGED <<queue, made>>

(* Mutant: a batch is always acknowledged at once.                         *)
AcknowledgeNow(gone) ==
  /\ stack' = Front(stack)
  /\ registered' = registered \ gone
  /\ UNCHANGED <<queue, made>>

(* UpdateDisplayAsync returns a task that is done, or that the queue will  *)
(* complete behind the calls that came meanwhile.                          *)
Acknowledge(gone) ==
  /\ stack' = Front(stack)
  /\ \/ /\ ~HasUnstartedWork
        /\ registered' = registered \ gone
        /\ UNCHANGED <<queue, made>>
     \/ /\ HasUnstartedWork
        /\ queue' = Append(queue, Item("ack", NewId, gone, 0))
        /\ made' = NewId
        /\ UNCHANGED registered

UpdateDisplay ==
  /\ TopIs({"render"})
  /\ Last(stack).add = {} /\ Last(stack).remove = {}
  /\ Acknowledge(Last(stack).gone)
  /\ UNCHANGED <<inProgress, threw, attached, present, callVars, arrays, spent>>

-----------------------------------------------------------------------------
(* What goes on by itself once it has begun.                               *)
Progress ==
  \/ Drain \/ Return \/ UpdateDisplay
  \/ \E h \in Handlers : ApplyEdit(h)
  \/ \E r \in results : EndInvokeJS(r)
  \/ \E c \in begun : EndInvokeDotNet(c)

Next ==
  \/ Progress
  \/ Turn(JsFrame) \/ Turn(TaskFrame)
  \/ \E sends \in BOOLEAN :
       \/ BeginInvokeDotNet({}, sends)
       \/ \E h \in Handlers : BeginInvokeDotNet({h}, sends)
       \/ \E a \in asked : SerializeResult(a, sends)
  \/ InvokeDotNet
  \/ BeginInvokeJS
  \/ \E add, remove \in SUBSET Handlers : Render(add, remove)

(* Code that runs returns, and a call that .NET has begun is ended: the    *)
(* application's methods terminate.                                        *)
Fairness ==
  /\ WF_vars(Progress)
  /\ \A c \in 1..(2 * Budget) : WF_vars(EndInvokeDotNet(c))

Spec == Init /\ [][Next]_vars
FairSpec == Spec /\ Fairness

-----------------------------------------------------------------------------
ItemFrames == {i \in DOMAIN stack : stack[i].kind = "item"}
RenderFrames == {i \in DOMAIN stack : stack[i].kind = "render"}

(* The types; a call that .NET has begun is still open in JavaScript,      *)
(* unless it was rejected with an exception of another one's.              *)
TypeOK ==
  /\ inProgress \in BOOLEAN /\ threw \in BOOLEAN
  /\ made \in Nat /\ arrays \in Nat /\ spent \in 0..Budget
  /\ attached \subseteq Handlers /\ registered \subseteq Handlers /\ present \subseteq registered
  /\ pending \subseteq 1..made /\ begun \subseteq 1..made /\ lost \subseteq 1..made
  /\ threw \/ begun \subseteq pending
  /\ asked \subseteq 1..spent
  /\ \A i \in DOMAIN stack : stack[i].kind \in {"js", "task", "item", "render"}
  /\ \A i \in DOMAIN queue : queue[i].kind \in {"call", "ack", "result"}

(* Queued work runs one item at a time and never inside a rendering, and   *)
(* when the outermost item has returned nothing is left: neither the flag  *)
(* nor waiting work. "Unhandled exceptions will be fatal to the application*)
(* as the work queue will no longer process further items": once one has   *)
(* left the queue the flag stays, nothing is an item any more, and only    *)
(* then is a rendering not part of one. (Schedule, ProcessPendingRender;   *)
(* ElectronCallQueue.cs:40.)                                               *)
QueueMatchesStack ==
  /\ TypeOK
  /\ inProgress <=> ItemFrames # {} \/ threw
  /\ threw => ItemFrames = {}
  /\ queue # <<>> => inProgress
  /\ \A i, j \in ItemFrames : i = j
  /\ \A i \in ItemFrames, j \in RenderFrames : i < j
  /\ RenderFrames # {} => ItemFrames # {} \/ threw

(* An event raised on an element of the document reaches the renderer      *)
(* before the renderer forgets the handler, even if the batch that removes *)
(* the element is being applied when it is raised: the handlers of a       *)
(* waiting event are registered, and no acknowledgement that gives them up *)
(* is ahead of it. And handlers of removed elements are not kept for ever: *)
(* those still registered are in a batch being applied or in an            *)
(* acknowledgement that waits. (UpdateDisplayAsync.)                       *)
EventsFindHandlers ==
  /\ \A i \in DOMAIN queue : queue[i].kind = "call" =>
       /\ queue[i].handlers \subseteq registered
       /\ \A j \in 1..(i - 1) : queue[j].kind = "ack" => queue[j].handlers \cap queue[i].handlers = {}
  /\ \A h \in registered \ present :
       \/ \E i \in RenderFrames : h \in stack[i].gone
       \/ \E i \in DOMAIN queue : queue[i].kind = "ack" /\ h \in queue[i].handlers

(* Work items are handled one at a time, once, in the order in which they  *)
(* were scheduled, renderings and acknowledgements among them, until one   *)
(* fails.                                                                  *)
Order == INSTANCE CallOrder WITH
  arrived <- made,
  failed <- threw,
  waiting <- [i \in DOMAIN queue |-> queue[i].id],
  current <- IF ItemFrames = {} THEN 0
             ELSE stack[CHOOSE i \in ItemFrames : \A j \in ItemFrames : j <= i].item.id

InOrder == Order!Spec

(* Every call that JavaScript makes is settled, but one whose result       *)
(* cannot be revived, and those behind which the queue has stopped.        *)
(* (BeginInvokeDotNet to completePendingCall.)                             *)
WaitsForEver(c) == threw /\ \E i \in DOMAIN queue : queue[i].kind = "call" /\ queue[i].id = c

EveryCallSettled ==
  \A c \in 1..(2 * Budget) : c \in pending ~> c \notin pending \/ c \in lost \/ WaitsForEver(c)

(* "The identifier for the byte array used during revival"                 *)
(* (Microsoft.JSInterop.ts:315): a call or a result finds the byte arrays  *)
(* that were sent for it. The code does not keep this: identifiers start   *)
(* again with every call and the arrays are not queued with it.            *)
OwnByteArrays ==
  \A i \in ItemFrames :
    stack[i].item.data # 0 => stack[i].got = stack[i].item.data
=============================================================================
