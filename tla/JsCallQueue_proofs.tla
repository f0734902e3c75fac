-------------------------- MODULE JsCallQueue_proofs --------------------------
(***************************************************************************)
(* Proofs about JsCallQueue for any handlers and bounds. The stack matters *)
(* in two ways only: which item is running (Currents) and which batch is   *)
(* being applied (Renders). The first lemmas say what each change of the   *)
(* stack does to these two, so that the actions need not look at it again. *)
(***************************************************************************)
EXTENDS JsCallQueue, SequenceFacts

Items ==
  [kind : {"none", "call", "ack", "result", "render"}, id : Nat,
   handlers : SUBSET Handlers, data : Nat]

Frames ==
  [kind : {"js", "task", "item", "render"}, item : Items, got : Nat, caller : Nat,
   add : SUBSET Handlers, remove : SUBSET Handlers, gone : SUBSET Handlers]

Places(s, kind) == {i \in 1..Len(s) : s[i].kind = kind}
Currents(s) == {s[i].item.id : i \in Places(s, "item")}
Renders(s) == {s[i] : i \in Places(s, "render")}

(* One item at a time, one rendering, and nothing queued inside of it.     *)
StackInv(s) ==
  /\ s \in Seq(Frames)
  /\ \A i, j \in Places(s, "item") : i = j
  /\ \A i, j \in Places(s, "render") : i = j
  /\ \A i \in Places(s, "item"), j \in Places(s, "render") : i < j
  /\ \A i \in Places(s, "item") : s[i].item.id # 0

-----------------------------------------------------------------------------
(* What a change of the stack does.                                        *)
LEMMA PopFacts ==
  ASSUME NEW s \in Seq(Frames), s # <<>>, NEW r, r = Front(s)
  PROVE  /\ r \in Seq(Frames) /\ Len(r) = Len(s) - 1 /\ Len(s) \in 1..Len(s)
         /\ \A i \in 1..Len(r) : r[i] = s[i]
         /\ Last(s) = s[Len(s)] /\ Last(s) \in Frames
<1>1. r = SubSeq(s, 1, Len(s) - 1)
  BY DEF Front
<1>2. r \in Seq(Frames) /\ Len(r) = Len(s) - 1 /\ Len(s) \in 1..Len(s)
  BY <1>1, FrontFacts
<1>3. \A i \in 1..Len(r) : r[i] = s[i]
  BY <1>1, FrontFacts
<1>4. s[Len(s)] \in Frames
  BY <1>1, FrontFacts
<1> QED
  BY <1>2, <1>3, <1>4 DEF Last

(* A frame of JavaScript or of a task is pushed.                           *)
LEMMA PushPlain ==
  ASSUME NEW s, StackInv(s), NEW f \in Frames, f.kind \in {"js", "task"},
         NEW r, r = Append(s, f)
  PROVE  StackInv(r) /\ Currents(r) = Currents(s) /\ Renders(r) = Renders(s)
<1>1. /\ r \in Seq(Frames) /\ Len(s) \in Nat /\ Len(r) = Len(s) + 1
      /\ \A i \in 1..Len(s) : r[i] = s[i]
      /\ r[Len(s) + 1] = f
  BY AppendFacts DEF StackInv
<1>2. \A k \in {"item", "render"} : Places(r, k) = Places(s, k)
  BY <1>1 DEF Places
<1>3. \A k \in {"item", "render"} : \A i \in Places(s, k) : r[i] = s[i]
  BY <1>1 DEF Places
<1> QED
  BY <1>1, <1>2, <1>3 DEF StackInv, Currents, Renders

(* One is popped.                                                          *)
LEMMA PopPlain ==
  ASSUME NEW s, StackInv(s), s # <<>>, Last(s).kind \in {"js", "task"},
         NEW r, r = Front(s)
  PROVE  StackInv(r) /\ Currents(r) = Currents(s) /\ Renders(r) = Renders(s)
<1>0. s \in Seq(Frames)
  BY DEF StackInv
<1>1. /\ r \in Seq(Frames) /\ Len(r) = Len(s) - 1 /\ Len(s) \in 1..Len(s)
      /\ \A i \in 1..Len(r) : r[i] = s[i]
  BY <1>0, PopFacts
<1>2. \A k \in {"item", "render"} : Places(r, k) = Places(s, k)
  BY <1>1 DEF Places, Last
<1>3. \A k \in {"item", "render"} : \A i \in Places(s, k) : r[i] = s[i]
  BY <1>1, <1>2 DEF Places
<1> QED
  BY <1>1, <1>2, <1>3 DEF StackInv, Currents, Renders

(* An item of work starts.                                                 *)
LEMMA PushItem ==
  ASSUME NEW s, StackInv(s), Currents(s) = {}, Renders(s) = {}, NEW f \in Frames,
         f.kind = "item", f.item.id # 0, NEW r, r = Append(s, f)
  PROVE  StackInv(r) /\ Currents(r) = {f.item.id} /\ Renders(r) = {}
<1>1. /\ r \in Seq(Frames) /\ Len(s) \in Nat /\ Len(r) = Len(s) + 1
      /\ \A i \in 1..Len(s) : r[i] = s[i]
      /\ r[Len(s) + 1] = f
  BY AppendFacts DEF StackInv
<1>2. Places(s, "item") = {} /\ Places(s, "render") = {}
  BY DEF Currents, Renders
<1>3. Places(r, "item") = {Len(s) + 1} /\ Places(r, "render") = {}
  BY <1>1, <1>2 DEF Places
<1> QED
  BY <1>1, <1>3 DEF StackInv, Currents, Renders

(* It ends.                                                                *)
LEMMA PopItem ==
  ASSUME NEW s, StackInv(s), s # <<>>, Last(s).kind = "item", NEW r, r = Front(s)
  PROVE  /\ StackInv(r) /\ Currents(r) = {} /\ Renders(r) = {}
         /\ Currents(s) = {Last(s).item.id} /\ Renders(s) = {}
<1>0. s \in Seq(Frames)
  BY DEF StackInv
<1>1. /\ r \in Seq(Frames) /\ Len(r) = Len(s) - 1 /\ Len(s) \in 1..Len(s)
      /\ \A i \in 1..Len(r) : r[i] = s[i]
  BY <1>0, PopFacts
<1>2. Places(s, "item") = {Len(s)} /\ Places(s, "render") = {}
  BY <1>1 DEF Places, Last, StackInv
<1>3. Places(r, "item") = {} /\ Places(r, "render") = {}
  BY <1>1, <1>2 DEF Places
<1> QED
  BY <1>1, <1>2, <1>3 DEF StackInv, Currents, Renders, Last

(* A batch starts to be applied.                                           *)
LEMMA PushRender ==
  ASSUME NEW s, StackInv(s), Renders(s) = {},
         NEW f \in Frames, f.kind = "render", NEW r, r = Append(s, f)
  PROVE  StackInv(r) /\ Currents(r) = Currents(s) /\ Renders(r) = {f}
<1>1. /\ r \in Seq(Frames) /\ Len(s) \in Nat /\ Len(r) = Len(s) + 1
      /\ \A i \in 1..Len(s) : r[i] = s[i]
      /\ r[Len(s) + 1] = f
  BY AppendFacts DEF StackInv
<1>2. Places(s, "render") = {}
  BY DEF Renders
<1>3. Places(r, "item") = Places(s, "item") /\ Places(r, "render") = {Len(s) + 1}
  BY <1>1, <1>2 DEF Places
<1>4. \A i \in Places(s, "item") : r[i] = s[i] /\ i < Len(s) + 1
  BY <1>1 DEF Places
<1>5. StackInv(r)
  BY <1>1, <1>2, <1>3, <1>4 DEF StackInv
<1>6. Currents(r) = Currents(s)
  BY <1>3, <1>4 DEF Currents
<1>7. Renders(r) = {f}
  BY <1>1, <1>3 DEF Renders
<1> QED
  BY <1>5, <1>6, <1>7

(* It has been applied.                                                    *)
LEMMA PopRender ==
  ASSUME NEW s, StackInv(s), s # <<>>, Last(s).kind = "render", NEW r, r = Front(s)
  PROVE  /\ StackInv(r) /\ Currents(r) = Currents(s) /\ Renders(r) = {}
         /\ Renders(s) = {Last(s)} /\ Last(s) \in Frames
<1>0. s \in Seq(Frames)
  BY DEF StackInv
<1>1. /\ r \in Seq(Frames) /\ Len(r) = Len(s) - 1 /\ Len(s) \in 1..Len(s)
      /\ \A i \in 1..Len(r) : r[i] = s[i]
      /\ s[Len(s)] \in Frames
  BY <1>0, PopFacts DEF Last
<1>2. Places(s, "render") = {Len(s)}
  BY <1>1 DEF Places, Last, StackInv
<1>3. Places(r, "item") = Places(s, "item") /\ Places(r, "render") = {}
  BY <1>1, <1>2 DEF Places, Last
<1>4. \A i \in Places(s, "item") : r[i] = s[i]
  BY <1>1, <1>3 DEF Places
<1> QED
  BY <1>1, <1>2, <1>3, <1>4 DEF StackInv, Currents, Renders, Last

(* One of its edits is applied.                                            *)
LEMMA EditRender ==
  ASSUME NEW s, StackInv(s), s # <<>>, Last(s).kind = "render",
         NEW f \in Frames, f.kind = "render", NEW r, r = [s EXCEPT ![Len(s)] = f]
  PROVE  /\ StackInv(r) /\ Currents(r) = Currents(s) /\ Renders(r) = {f}
         /\ Renders(s) = {Last(s)} /\ Last(s) \in Frames
<1>1. Len(s) \in 1..Len(s) /\ s[Len(s)] \in Frames
  BY FrontFacts DEF StackInv
<1>2. /\ r \in Seq(Frames) /\ Len(r) = Len(s) /\ r[Len(s)] = f
      /\ \A i \in 1..Len(s) : i # Len(s) => r[i] = s[i]
  BY <1>1 DEF StackInv
<1>3. Places(s, "render") = {Len(s)}
  BY <1>1 DEF Places, Last, StackInv
<1>4. Places(r, "item") = Places(s, "item") /\ Places(r, "render") = {Len(s)}
  BY <1>1, <1>2, <1>3 DEF Places, Last
<1>5. \A i \in Places(s, "item") : r[i] = s[i]
  BY <1>1, <1>2 DEF Places, Last
<1>6. StackInv(r)
  BY <1>2, <1>3, <1>4, <1>5 DEF StackInv
<1>7. Currents(r) = Currents(s)
  BY <1>4, <1>5 DEF Currents
<1>8. Renders(r) = {f} /\ Renders(s) = {Last(s)}
  BY <1>2, <1>3, <1>4 DEF Renders, Last
<1> QED
  BY <1>1, <1>6, <1>7, <1>8 DEF Last

-----------------------------------------------------------------------------
(* The inductive invariant.                                                *)

CallTypes ==
  /\ inProgress \in BOOLEAN /\ threw \in BOOLEAN
  /\ made \in Nat /\ arrays \in Nat /\ spent \in 0..Budget
  /\ attached \subseteq Handlers /\ registered \subseteq Handlers
  /\ pending \subseteq 1..made /\ begun \subseteq 1..made /\ lost \subseteq 1..made
  /\ threw \/ begun \subseteq pending
  /\ asked \subseteq 1..spent
  /\ \A r \in results : r.data \in Nat

Waits(i, kind) == i \in 1..Len(queue) /\ queue[i].kind = kind

(* Work waits only while something runs or after something threw, which    *)
(* leaves no item; before, a rendering is part of an item, a call that     *)
(* waits is open and has not begun, and results do not wait.               *)
QueueInv ==
  /\ queue \in Seq(Items)
  /\ inProgress <=> Currents(stack) # {} \/ threw
  /\ threw => Currents(stack) = {}
  /\ Renders(stack) # {} => Currents(stack) # {} \/ threw
  /\ queue # <<>> => inProgress
  /\ \A i \in 1..Len(queue) :
       /\ queue[i].kind \in {"call", "ack", "result"} /\ queue[i].id \in 1..made
       /\ queue[i].kind = "result" => queue[i].handlers = {}
  /\ \A i, j \in 1..Len(queue) : queue[i].id = queue[j].id => i = j
  /\ threw \/ \A i : Waits(i, "call") => queue[i].id \in pending /\ queue[i].id \notin begun

(* Who may still be using a handler.                                       *)
BatchInv ==
  \A r \in Renders(stack) :
    /\ r.add \subseteq registered /\ r.gone \subseteq registered
    /\ r.add \cap r.gone = {} /\ r.gone \cap present = {}
    /\ r.gone \cap attached \subseteq r.remove
    /\ \A i : Waits(i, "ack") =>
         queue[i].handlers \cap r.gone = {} /\ queue[i].handlers \cap r.add = {}

AckInv ==
  /\ \A i : Waits(i, "ack") =>
       /\ queue[i].handlers \subseteq registered
       /\ queue[i].handlers \cap present = {} /\ queue[i].handlers \cap attached = {}
  /\ \A i, j : Waits(i, "ack") /\ Waits(j, "ack") /\ i # j =>
       queue[i].handlers \cap queue[j].handlers = {}
  /\ \A i : Waits(i, "call") => queue[i].handlers \subseteq registered
  /\ \A i, j : Waits(i, "call") /\ Waits(j, "ack") /\ j < i =>
       queue[i].handlers \cap queue[j].handlers = {}

GivenUp ==
  \A h \in registered \ present :
    \/ \E r \in Renders(stack) : h \in r.gone
    \/ \E i : Waits(i, "ack") /\ h \in queue[i].handlers

HandlerInv == present \subseteq registered /\ attached \subseteq registered /\ BatchInv /\ AckInv /\ GivenUp

CallInv == StackInv(stack) /\ CallTypes /\ QueueInv /\ HandlerInv

(* What a step does to the order of work: nothing; an item comes and is    *)
(* started, or waits; the item running ends, and the next one is started;  *)
(* the item running throws.                                                *)
OrderStep ==
  \/ /\ threw' = threw
     /\ \/ made' = made /\ queue' = queue /\ Currents(stack') = Currents(stack)
        \/ /\ made' = made + 1 /\ queue' = queue /\ ~threw
           /\ Currents(stack) = {} /\ Currents(stack') = {made + 1}
        \/ /\ made' = made + 1 /\ \E item \in Items : item.id = made + 1 /\ queue' = Append(queue, item)
           /\ (Currents(stack) # {} \/ threw) /\ Currents(stack') = Currents(stack)
        \/ /\ made' = made /\ queue = <<>> /\ queue' = queue
           /\ Currents(stack) # {} /\ Currents(stack') = {}
        \/ /\ made' = made /\ queue # <<>> /\ queue' = Tail(queue)
           /\ Currents(stack) # {} /\ Currents(stack') = {Head(queue).id}
  \/ /\ threw' = TRUE /\ made' = made /\ queue' = queue
     /\ Currents(stack) # {} /\ Currents(stack') = {}

(* At the start nothing runs and nothing waits.                            *)
LEMMA CallInvInit == Init => CallInv
<1> SUFFICES ASSUME Init PROVE CallInv
  OBVIOUS
<1>1. /\ stack \in Seq(Frames) /\ queue \in Seq(Items) /\ Len(stack) = 0 /\ Len(queue) = 0
  BY EmptySeq DEF Init
<1>2. \A k \in {"item", "render"} : Places(stack, k) = {}
  BY <1>1 DEF Places
<1>3. StackInv(stack) /\ Currents(stack) = {} /\ Renders(stack) = {}
  BY <1>1, <1>2 DEF StackInv, Currents, Renders
<1>4. CallTypes
  <2>1. inProgress \in BOOLEAN /\ threw \in BOOLEAN
    BY DEF Init
  <2> QED
    BY <2>1, QueueAssumption DEF QueueAssumption, CallTypes, Init
<1>5. QueueInv
  BY <1>1, <1>3 DEF QueueInv, Waits, Init
<1>6. HandlerInv
  BY <1>1, <1>3 DEF HandlerInv, BatchInv, AckInv, GivenUp, Waits, Init
<1> QED
  BY <1>3, <1>4, <1>5, <1>6 DEF CallInv

(* The frames and items that actions make.                                 *)
LEMMA PlainMade ==
  /\ JsFrame \in Frames /\ JsFrame.kind \in {"js", "task"}
  /\ TaskFrame \in Frames /\ TaskFrame.kind \in {"js", "task"}
  BY DEF JsFrame, TaskFrame, Frame, NoItem, Item, Frames, Items

(* The frame of a batch.                                                   *)
LEMMA RenderFrameMade ==
  /\ \A add, remove \in SUBSET Handlers :
       /\ RenderFrame(add, remove) \in Frames /\ RenderFrame(add, remove).kind = "render"
       /\ RenderFrame(add, remove).add = add /\ RenderFrame(add, remove).gone = remove
       /\ RenderFrame(add, remove).remove = remove
  BY DEF RenderFrame, Frame, NoItem, Item, Frames, Items

(* An item of work.                                                        *)
LEMMA ItemMade ==
  ASSUME NEW kind \in {"call", "ack", "result", "render"}, NEW id \in Nat,
         NEW handlers \in SUBSET Handlers, NEW data \in Nat
  PROVE  /\ Item(kind, id, handlers, data) \in Items
         /\ Item(kind, id, handlers, data).kind = kind /\ Item(kind, id, handlers, data).id = id
         /\ Item(kind, id, handlers, data).handlers = handlers
         /\ Item(kind, id, handlers, data).data = data
  BY DEF Item, Items

(* The frame of one.                                                       *)
LEMMA ItemFrameMade ==
  ASSUME NEW item \in Items, NEW found \in Nat, NEW caller \in Nat
  PROVE  /\ ItemFrame(item, found, caller) \in Frames
         /\ ItemFrame(item, found, caller).kind = "item"
         /\ ItemFrame(item, found, caller).item = item
  BY DEF ItemFrame, Frame, Frames

-----------------------------------------------------------------------------
(* Steps that leave queue, handlers and the running item alone.            *)
LEMMA PlainKeeps ==
  ASSUME CallInv, StackInv(stack'), Currents(stack') = Currents(stack),
         Renders(stack') = Renders(stack), UNCHANGED queueVars, UNCHANGED handlerVars,
         pending' = pending, begun' = begun, CallTypes'
  PROVE  CallInv' /\ OrderStep
<1>1. CallInv'
  BY DEF CallInv, QueueInv, HandlerInv, BatchInv, AckInv, GivenUp, Waits, queueVars, handlerVars
<1> QED
  BY <1>1 DEF OrderStep, queueVars

(* The event loop starts a turn.                                           *)
LEMMA TurnKeeps ==
  ASSUME CallInv, NEW f \in {JsFrame, TaskFrame}, Turn(f)
  PROVE  CallInv' /\ OrderStep
<1>1. stack' = Append(stack, f)
  BY DEF Turn
<1>2. StackInv(stack') /\ Currents(stack') = Currents(stack) /\ Renders(stack') = Renders(stack)
  <2>1. f \in Frames /\ f.kind \in {"js", "task"}
    BY PlainMade
  <2>2. StackInv(stack)
    BY DEF CallInv
  <2> QED
    BY <1>1, <2>1, <2>2, PushPlain
<1>3. CallTypes'
  BY QueueAssumption DEF QueueAssumption, Turn, Spend, CallInv, CallTypes, queueVars, handlerVars, callVars
<1> QED
  BY <1>2, <1>3, PlainKeeps DEF Turn, callVars

(* A frame returns.                                                        *)
LEMMA ReturnKeeps ==
  ASSUME CallInv, Return
  PROVE  CallInv' /\ OrderStep
<1>1. StackInv(stack') /\ Currents(stack') = Currents(stack) /\ Renders(stack') = Renders(stack)
  BY PopPlain DEF Return, TopIs, CallInv
<1>2. CallTypes'
  BY DEF Return, CallInv, CallTypes, queueVars, handlerVars, callVars
<1> QED
  BY <1>1, <1>2, PlainKeeps DEF Return, callVars

(* JavaScript calls .NET and waits for the result.                         *)
LEMMA InvokeDotNetKeeps ==
  ASSUME CallInv, InvokeDotNet
  PROVE  CallInv' /\ OrderStep
<1>1. StackInv(stack') /\ Currents(stack') = Currents(stack) /\ Renders(stack') = Renders(stack)
  <2>1. TaskFrame \in Frames /\ TaskFrame.kind \in {"js", "task"}
    BY PlainMade
  <2>2. StackInv(stack) /\ stack' = Append(stack, TaskFrame)
    BY DEF CallInv, InvokeDotNet
  <2> QED
    BY <2>1, <2>2, PushPlain
<1>2. CallTypes'
  BY QueueAssumption DEF QueueAssumption, InvokeDotNet, Spend, CallInv, CallTypes, queueVars, handlerVars, callVars
<1> QED
  BY <1>1, <1>2, PlainKeeps DEF InvokeDotNet, callVars

(* .NET calls JavaScript.                                                  *)
LEMMA BeginInvokeJSKeeps ==
  ASSUME CallInv, BeginInvokeJS
  PROVE  CallInv' /\ OrderStep
<1>1. StackInv(stack') /\ Currents(stack') = Currents(stack) /\ Renders(stack') = Renders(stack)
  <2>1. JsFrame \in Frames /\ JsFrame.kind \in {"js", "task"}
    BY PlainMade
  <2>2. StackInv(stack) /\ stack' = Append(stack, JsFrame)
    BY DEF CallInv, BeginInvokeJS
  <2> QED
    BY <2>1, <2>2, PushPlain
<1>2. CallTypes'
  BY QueueAssumption DEF QueueAssumption, BeginInvokeJS, Spend, CallInv, CallTypes, queueVars, handlerVars
<1> QED
  BY <1>1, <1>2, PlainKeeps DEF BeginInvokeJS

(* The result of a call is serialised.                                     *)
LEMMA SerializeResultKeeps ==
  ASSUME CallInv, NEW a \in asked, NEW sends \in BOOLEAN, SerializeResult(a, sends)
  PROVE  CallInv' /\ OrderStep
<1>1. CallTypes'
  BY QueueAssumption DEF QueueAssumption, SerializeResult, CallInv, CallTypes, queueVars, handlerVars
<1> QED
  BY <1>1, PlainKeeps DEF SerializeResult, CallInv

(* A call that is completed was begun, so it does not wait. One that throws *)
(* leaves the work queue, or only itself open.                             *)
LEMMA EndInvokeDotNetKeeps ==
  ASSUME CallInv, NEW c \in begun, EndInvokeDotNet(c)
  PROVE  CallInv' /\ OrderStep
<1>1. /\ begun' = begun \ {c} /\ inProgress' = inProgress /\ queue' = queue /\ made' = made
      /\ registered' = registered /\ present' = present /\ attached' = attached
      /\ asked' = asked /\ results' = results /\ arrays' = arrays /\ spent' = spent
  BY DEF EndInvokeDotNet, handlerVars
<1>2. CASE /\ stack' = stack /\ threw' = threw /\ lost' \subseteq lost \cup {c}
           /\ pending' \in {pending, pending \ {c}}
  <2>1. CallTypes'
    BY <1>1, <1>2 DEF CallInv, CallTypes
  <2>2. QueueInv'
    BY <1>1, <1>2 DEF CallInv, QueueInv, Waits
  <2>3. HandlerInv'
    BY <1>1, <1>2 DEF CallInv, HandlerInv, BatchInv, AckInv, GivenUp, Waits
  <2> QED
    BY <1>1, <1>2, <2>1, <2>2, <2>3 DEF CallInv, OrderStep
<1>3. CASE /\ stack # <<>> /\ Last(stack).kind = "item" /\ stack' = Front(stack) /\ threw' = TRUE
           /\ pending' \subseteq pending /\ lost' \subseteq lost \cup {c}
  <2>1. /\ StackInv(stack') /\ Currents(stack') = {} /\ Renders(stack') = {}
        /\ Currents(stack) # {} /\ Renders(stack) = {}
    <3>1. /\ StackInv(stack') /\ Currents(stack') = {} /\ Renders(stack') = {}
          /\ Currents(stack) = {Last(stack).item.id} /\ Renders(stack) = {}
      BY <1>3, PopItem DEF CallInv
    <3> QED
      BY <3>1
  <2>2. CallTypes'
    <3>1. threw' \in BOOLEAN
      BY <1>3
    <3> QED
      BY <1>1, <1>3, <3>1 DEF CallInv, CallTypes
  <2>3. QueueInv'
    <3>1. inProgress
      BY <2>1 DEF CallInv, QueueInv
    <3>2. /\ queue' \in Seq(Items)
          /\ \A i \in 1..Len(queue') :
               /\ queue'[i].kind \in {"call", "ack", "result"} /\ queue'[i].id \in 1..made'
               /\ queue'[i].kind = "result" => queue'[i].handlers = {}
          /\ \A i, j \in 1..Len(queue') : queue'[i].id = queue'[j].id => i = j
      BY <1>1 DEF CallInv, QueueInv
    <3> QED
      BY <1>1, <1>3, <2>1, <3>1, <3>2 DEF QueueInv
  <2>4. HandlerInv'
    BY <1>1, <2>1 DEF CallInv, HandlerInv, BatchInv, AckInv, GivenUp, Waits
  <2>5. OrderStep
    BY <1>1, <1>3, <2>1 DEF OrderStep
  <2> QED
    BY <2>1, <2>2, <2>3, <2>4, <2>5 DEF CallInv
<1>4. \/ stack' = stack /\ threw' = threw /\ pending' = pending \ {c} /\ lost' = lost
      \/ RevivalThrows(c)
  BY DEF EndInvokeDotNet
<1>5. CASE RevivalThrows(c)
  <2>1. CASE /\ TopIs({"item"}) /\ threw' = TRUE /\ stack' = Front(stack)
             /\ pending' = pending \ {Last(stack).caller}
             /\ lost' = lost \cup ({c} \ {Last(stack).caller})
    <3>1. stack # <<>> /\ Last(stack).kind = "item"
      BY <2>1 DEF TopIs
    <3>2. pending' \subseteq pending /\ lost' \subseteq lost \cup {c}
      BY <2>1
    <3> QED
      BY <1>3, <2>1, <3>1, <3>2
  <2>2. CASE lost' = lost \cup {c} /\ UNCHANGED <<stack, threw, pending>>
    <3>1. lost' \subseteq lost \cup {c} /\ pending' \in {pending, pending \ {c}}
      BY <2>2
    <3> QED
      BY <1>2, <2>2, <3>1
  <2> QED
    BY <1>5, <2>1, <2>2 DEF RevivalThrows
<1>6. CASE stack' = stack /\ threw' = threw /\ pending' = pending \ {c} /\ lost' = lost
  <2>1. lost' \subseteq lost \cup {c} /\ pending' \in {pending, pending \ {c}}
    BY <1>6
  <2> QED
    BY <1>2, <1>6, <2>1
<1> QED
  BY <1>4, <1>5, <1>6

-----------------------------------------------------------------------------
(* Work items: an item starts on a stack without one, or waits.            *)
LEMMA StartItem ==
  ASSUME NEW base, StackInv(base), Currents(base) = {}, Renders(base) = {},
         NEW item \in Items, item.id # 0,
         NEW found \in Nat, NEW caller \in Nat, Start(item, base, found, caller)
  PROVE  StackInv(stack') /\ Currents(stack') = {item.id} /\ Renders(stack') = {}
<1>1. PICK f \in Frames : f.kind = "item" /\ f.item = item /\ stack' = Append(base, f)
  BY ItemFrameMade DEF Start
<1>2. f.item.id # 0
  BY <1>1
<1> QED
  BY <1>1, <1>2, PushItem

(* Without an item there is no rendering, nothing waits, and no handler is *)
(* to be given up.                                                         *)
LEMMA IdleFacts ==
  ASSUME CallInv, ~inProgress
  PROVE  /\ Currents(stack) = {} /\ Renders(stack) = {} /\ Len(queue) = 0
         /\ registered = present /\ threw = FALSE
<1>1. Currents(stack) = {} /\ queue = <<>> /\ threw = FALSE
  BY DEF CallInv, CallTypes, QueueInv
<1>2. Renders(stack) = {}
  BY <1>1 DEF CallInv, QueueInv
<1>3. Len(queue) = 0
  BY <1>1
<1>4. registered = present
  <2>1. present \subseteq registered /\ GivenUp
    BY DEF CallInv, HandlerInv
  <2>2. \A h \in registered : h \in present
    BY <1>2, <1>3, <2>1 DEF GivenUp, Waits
  <2> QED
    BY <2>1, <2>2
<1> QED
  BY <1>1, <1>2, <1>3, <1>4

(* An item that starts on an idle queue.                                   *)
LEMMA IdleQueue ==
  ASSUME QueueInv, Len(queue) = 0, queue' = queue, inProgress' = TRUE, threw' = FALSE,
         Currents(stack') # {}, Renders(stack') = {}
  PROVE  QueueInv'
<1>1. queue' \in Seq(Items) /\ 1..Len(queue') = {} /\ queue' = <<>>
  BY EmptySeq DEF QueueInv
<1> QED
  BY <1>1 DEF QueueInv, Waits

(* JavaScript begins a call, which is run or queued.                       *)
LEMMA BeginInvokeDotNetKeeps ==
  ASSUME CallInv, NEW handlers \in SUBSET Handlers, NEW sends \in BOOLEAN,
         BeginInvokeDotNet(handlers, sends)
  PROVE  CallInv' /\ OrderStep
<1> DEFINE item == Item("call", NewId, handlers, IF sends THEN spent' ELSE 0)
<1>1. /\ made \in Nat /\ spent \in Nat /\ spent' = spent + 1 /\ spent' \in 0..Budget
      /\ NewId = made + 1 /\ arrays' \in Nat
  BY QueueAssumption
     DEF QueueAssumption, CallInv, CallTypes, BeginInvokeDotNet, Spend, NewId
<1>2. /\ item \in Items /\ item.kind = "call" /\ item.id = made + 1
      /\ item.handlers = handlers
  BY <1>1, ItemMade
<1>3. /\ pending' = pending \cup {made + 1} /\ made' = made + 1
      /\ attached' = attached /\ present' = present /\ asked' = asked /\ results' = results
      /\ handlers \subseteq attached /\ threw' = threw /\ lost' = lost
  BY <1>1, <1>2 DEF BeginInvokeDotNet, Schedule
<1>4. CASE inProgress
  <2>1. /\ queue' = Append(queue, item) /\ stack' = stack /\ inProgress' = inProgress
        /\ registered' = registered /\ begun' = begun
    BY <1>4 DEF BeginInvokeDotNet, Schedule
  <2>2. /\ queue' \in Seq(Items) /\ Len(queue) \in Nat /\ Len(queue') = Len(queue) + 1
        /\ \A i \in 1..Len(queue) : queue'[i] = queue[i]
        /\ queue'[Len(queue) + 1] = item
    BY <1>2, <2>1, AppendFacts DEF CallInv, QueueInv
  <2>3. CallTypes'
    BY <1>1, <1>3, <2>1 DEF CallInv, CallTypes
  <2>4. QueueInv'
    BY <1>1, <1>2, <1>3, <1>4, <2>1, <2>2 DEF CallInv, CallTypes, QueueInv, Waits
  <2>5. HandlerInv'
    <3>1. BatchInv' /\ GivenUp'
      BY <1>2, <1>3, <2>1, <2>2 DEF CallInv, HandlerInv, BatchInv, GivenUp, Waits
    <3>2. AckInv'
      BY <1>2, <1>3, <2>1, <2>2 DEF CallInv, HandlerInv, AckInv, Waits
    <3> QED
      BY <1>3, <2>1, <3>1, <3>2 DEF CallInv, HandlerInv
  <2>6. OrderStep
    BY <1>2, <1>3, <1>4, <2>1 DEF CallInv, QueueInv, OrderStep
  <2> QED
    BY <2>1, <2>3, <2>4, <2>5, <2>6 DEF CallInv
<1>5. CASE ~inProgress
  <2>1. /\ queue' = queue /\ inProgress' = TRUE /\ Start(item, stack, arrays', made + 1)
    BY <1>2, <1>5 DEF BeginInvokeDotNet, Schedule
  <2>2. registered' = registered /\ begun' = begun \cup {made + 1}
    BY <1>2, <2>1 DEF Start
  <2>3. /\ Currents(stack) = {} /\ Renders(stack) = {} /\ Len(queue) = 0
        /\ registered = present /\ threw = FALSE
    BY <1>5, IdleFacts
  <2>4. StackInv(stack') /\ Currents(stack') = {made + 1} /\ Renders(stack') = {}
    BY <1>1, <1>2, <2>1, <2>3, StartItem DEF CallInv
  <2>5. CallTypes'
    BY <1>1, <1>3, <2>1, <2>2 DEF CallInv, CallTypes
  <2>6. QueueInv'
    BY <1>3, <2>1, <2>3, <2>4, IdleQueue DEF CallInv
  <2>7. HandlerInv'
    BY <1>3, <2>1, <2>2, <2>3, <2>4 DEF CallInv, HandlerInv, BatchInv, AckInv, GivenUp, Waits
  <2>8. OrderStep
    BY <1>3, <2>1, <2>3, <2>4 DEF OrderStep
  <2> QED
    BY <2>4, <2>5, <2>6, <2>7, <2>8 DEF CallInv
<1> QED
  BY <1>4, <1>5

(* The stack is empty, so that a result waits only if something threw.     *)
LEMMA EndInvokeJSKeeps ==
  ASSUME CallInv, NEW r \in results, EndInvokeJS(r)
  PROVE  CallInv' /\ OrderStep
<1> DEFINE item == Item("result", NewId, {}, r.data)
<1>1. made \in Nat /\ NewId = made + 1 /\ r.data \in Nat /\ arrays \in Nat
  BY DEF CallInv, CallTypes, NewId
<1>2. item \in Items /\ item.kind = "result" /\ item.id = made + 1 /\ item.handlers = {}
  <2>1. {} \in SUBSET Handlers
    OBVIOUS
  <2> QED
    BY <1>1, <2>1, ItemMade
<1>3. /\ made' = made + 1 /\ pending' = pending /\ asked' = asked /\ arrays' = arrays
      /\ spent' = spent /\ attached' = attached /\ present' = present /\ results' \subseteq results
      /\ threw' = threw /\ lost' = lost
  BY <1>1, <1>2 DEF EndInvokeJS, Schedule
<1>4. Currents(stack) = {} /\ Renders(stack) = {} /\ stack = <<>>
  <2>1. stack = <<>> /\ Len(stack) = 0
    BY DEF EndInvokeJS
  <2>2. Places(stack, "item") = {} /\ Places(stack, "render") = {}
    BY <2>1 DEF Places
  <2> QED
    BY <2>1, <2>2 DEF Currents, Renders
<1>5. StackInv(<<JsFrame>>) /\ Currents(<<JsFrame>>) = {} /\ Renders(<<JsFrame>>) = {}
  <2>1. <<JsFrame>> = Append(stack, JsFrame)
    BY <1>4
  <2>2. StackInv(stack) /\ JsFrame \in Frames /\ JsFrame.kind \in {"js", "task"}
    BY PlainMade DEF CallInv
  <2> QED
    BY <1>4, <2>1, <2>2, PushPlain
<1>6. CASE ~inProgress
  <2>1. /\ queue' = queue /\ inProgress' = TRUE /\ Start(item, <<JsFrame>>, arrays, 0)
    BY <1>2, <1>6 DEF EndInvokeJS, Schedule
  <2>2. registered' = registered /\ begun' = begun
    BY <1>2, <2>1 DEF Start
  <2>3. Len(queue) = 0 /\ registered = present /\ threw = FALSE
    BY <1>6, IdleFacts
  <2>4. StackInv(stack') /\ Currents(stack') = {made + 1} /\ Renders(stack') = {}
    BY <1>1, <1>2, <1>5, <2>1, StartItem
  <2>5. CallTypes'
    BY <1>1, <1>3, <2>1, <2>2 DEF CallInv, CallTypes
  <2>6. QueueInv'
    BY <1>3, <2>1, <2>3, <2>4, IdleQueue DEF CallInv
  <2>7. HandlerInv'
    BY <1>3, <2>1, <2>2, <2>3, <2>4 DEF CallInv, HandlerInv, BatchInv, AckInv, GivenUp, Waits
  <2>8. OrderStep
    BY <1>3, <1>4, <2>1, <2>3, <2>4 DEF OrderStep
  <2> QED
    BY <2>4, <2>5, <2>6, <2>7, <2>8 DEF CallInv
<1>7. CASE inProgress
  <2>1. /\ queue' = Append(queue, item) /\ stack' = <<JsFrame>> /\ inProgress' = inProgress
        /\ registered' = registered /\ begun' = begun
    BY <1>7 DEF EndInvokeJS, Schedule
  <2>2. threw
    BY <1>4, <1>7 DEF CallInv, QueueInv
  <2>3. /\ queue' \in Seq(Items) /\ Len(queue) \in Nat /\ Len(queue') = Len(queue) + 1
        /\ \A i \in 1..Len(queue) : queue'[i] = queue[i]
        /\ queue'[Len(queue) + 1] = item
    BY <1>2, <2>1, AppendFacts DEF CallInv, QueueInv
  <2>4. CallTypes'
    BY <1>1, <1>3, <2>1 DEF CallInv, CallTypes
  <2>5. QueueInv'
    <3>1. \A i \in 1..Len(queue') :
            /\ queue'[i].kind \in {"call", "ack", "result"} /\ queue'[i].id \in 1..made'
            /\ queue'[i].kind = "result" => queue'[i].handlers = {}
      BY <1>1, <1>2, <1>3, <2>3 DEF CallInv, QueueInv
    <3>2. \A i, j \in 1..Len(queue') : queue'[i].id = queue'[j].id => i = j
      BY <1>1, <1>2, <2>3 DEF CallInv, QueueInv
    <3>3. Currents(stack') = {} /\ Renders(stack') = {}
      BY <1>5, <2>1
    <3> QED
      BY <1>3, <1>7, <2>1, <2>2, <2>3, <3>1, <3>2, <3>3 DEF QueueInv
  <2>6. HandlerInv'
    <3>1. BatchInv' /\ GivenUp'
      BY <1>2, <1>3, <1>4, <1>5, <2>1, <2>3 DEF CallInv, HandlerInv, BatchInv, GivenUp, Waits
    <3>2. AckInv'
      BY <1>2, <1>3, <2>1, <2>3 DEF CallInv, HandlerInv, AckInv, Waits
    <3> QED
      BY <1>3, <2>1, <3>1, <3>2 DEF CallInv, HandlerInv
  <2>7. OrderStep
    BY <1>2, <1>3, <1>4, <1>5, <2>1, <2>2 DEF OrderStep
  <2> QED
    BY <1>5, <2>1, <2>4, <2>5, <2>6, <2>7 DEF CallInv
<1> QED
  BY <1>6, <1>7

(* The item that ends is the only one, and no rendering is under way.      *)
LEMMA DrainKeeps ==
  ASSUME CallInv, Drain
  PROVE  CallInv' /\ OrderStep
<1>1. /\ StackInv(Front(stack)) /\ Currents(Front(stack)) = {} /\ Renders(Front(stack)) = {}
      /\ Renders(stack) = {} /\ Currents(stack) # {} /\ ~threw /\ Last(stack).caller \in Nat
  <2>1. StackInv(stack) /\ stack # <<>> /\ Last(stack).kind = "item"
    BY DEF CallInv, Drain, TopIs
  <2>2. PICK r : r = Front(stack)
    OBVIOUS
  <2>3. /\ StackInv(r) /\ Currents(r) = {} /\ Renders(r) = {}
        /\ Currents(stack) = {Last(stack).item.id} /\ Renders(stack) = {}
    BY <2>1, <2>2, PopItem
  <2>4. Currents(stack) # {} /\ ~threw
    BY <2>3 DEF CallInv, QueueInv
  <2>5. Last(stack) \in Frames
    BY <2>1, <2>2, PopFacts DEF StackInv
  <2>6. Last(stack).caller \in Nat
    BY <2>5 DEF Frames
  <2> QED
    BY <2>2, <2>3, <2>4, <2>6
<1>2. /\ made' = made /\ threw' = threw /\ lost' = lost /\ attached' = attached /\ present' = present /\ pending' = pending
      /\ asked' = asked /\ results' = results /\ arrays' = arrays /\ spent' = spent
  BY DEF Drain
<1>3. CASE queue = <<>>
  <2>1. /\ inProgress' = FALSE /\ stack' = Front(stack) /\ queue' = queue
        /\ registered' = registered /\ begun' = begun /\ Len(queue) = 0
    BY <1>3 DEF Drain
  <2>2. CallTypes'
    <3>1. inProgress' \in BOOLEAN
      BY <2>1
    <3> QED
      BY <1>2, <2>1, <3>1 DEF CallInv, CallTypes
  <2>3. QueueInv'
    <3>1. 1..Len(queue') = {} /\ queue' \in Seq(Items)
      BY <2>1 DEF CallInv, QueueInv
    <3>2. threw' = threw /\ threw \in BOOLEAN /\ ~threw
      BY <1>1, <1>2 DEF CallInv, CallTypes
    <3> QED
      BY <1>1, <1>3, <2>1, <3>1, <3>2 DEF QueueInv, Waits
  <2>4. HandlerInv'
    BY <1>1, <1>2, <2>1 DEF CallInv, HandlerInv, BatchInv, AckInv, GivenUp, Waits
  <2>5. OrderStep
    BY <1>1, <1>2, <1>3, <2>1 DEF OrderStep
  <2> QED
    BY <1>1, <2>1, <2>2, <2>3, <2>4, <2>5 DEF CallInv
<1>4. CASE queue # <<>>
  <2> DEFINE item == Head(queue)
  <2>1. /\ queue' = Tail(queue) /\ inProgress' = inProgress /\ Start(item, Front(stack), arrays, Last(stack).caller)
    BY <1>4 DEF Drain
  <2>2. queue \in Seq(Items)
    BY DEF CallInv, QueueInv
  <2>3. /\ queue' \in Seq(Items) /\ Len(queue') = Len(queue) - 1 /\ Len(queue) \in Nat \ {0}
        /\ \A i \in 1..Len(queue') : queue'[i] = queue[i + 1]
        /\ item = queue[1] /\ item \in Items
    BY <1>4, <2>1, <2>2, TailFacts
  <2>4. /\ item.kind \in {"call", "ack", "result"} /\ item.id \in 1..made
        /\ made \in Nat /\ arrays \in Nat
    BY <2>3 DEF CallInv, CallTypes, QueueInv
  <2>5. StackInv(stack') /\ Currents(stack') = {item.id} /\ Renders(stack') = {}
    BY <1>1, <2>1, <2>3, <2>4, StartItem
  <2>6. /\ registered' = IF item.kind = "ack" THEN registered \ item.handlers ELSE registered
        /\ begun' = IF item.kind = "call" THEN begun \cup {item.id} ELSE begun
    BY <2>1 DEF Start
  <2>a. \A i \in 1..Len(queue') :
          i + 1 \in 1..Len(queue) /\ i + 1 # 1 /\ queue'[i] = queue[i + 1]
    BY <2>3
  <2>7. CallTypes'
    <3>1. item.kind = "call" => item.id \in pending
      BY <1>1, <2>3 DEF CallInv, QueueInv, Waits
    <3>2. registered' \subseteq registered /\ begun' \subseteq pending
      BY <1>1, <2>6, <3>1 DEF CallInv, CallTypes
    <3>3. inProgress' \in BOOLEAN
      BY <2>1 DEF CallInv, CallTypes
    <3> QED
      BY <1>2, <3>2, <3>3 DEF CallInv, CallTypes
  <2>8. QueueInv'
    <3>1. inProgress' <=> Currents(stack') # {}
      BY <1>1, <2>1, <2>5 DEF CallInv, QueueInv
    <3>2. inProgress'
      BY <1>1, <2>1 DEF CallInv, QueueInv
    <3>3. /\ \A i \in 1..Len(queue') :
               /\ queue'[i].kind \in {"call", "ack", "result"} /\ queue'[i].id \in 1..made
               /\ queue'[i].kind = "result" => queue'[i].handlers = {}
          /\ \A i, j \in 1..Len(queue') : queue'[i].id = queue'[j].id => i = j
          /\ \A i \in 1..Len(queue') : queue'[i].id # item.id
      <4>1. \A i \in 1..Len(queue') :
              /\ queue'[i].kind \in {"call", "ack", "result"} /\ queue'[i].id \in 1..made
              /\ queue'[i].kind = "result" => queue'[i].handlers = {}
        BY <2>a DEF CallInv, QueueInv
      <4>2. ASSUME NEW i \in 1..Len(queue'), NEW j \in 1..Len(queue'), queue'[i].id = queue'[j].id
            PROVE  i = j
        <5>1. \A k, l \in 1..Len(queue) : queue[k].id = queue[l].id => k = l
          BY DEF CallInv, QueueInv
        <5>2. i + 1 = j + 1
          BY <2>a, <4>2, <5>1
        <5> QED
          BY <2>3, <5>2
      <4>3. ASSUME NEW i \in 1..Len(queue')
            PROVE  queue'[i].id # item.id
        <5>1. 1 \in 1..Len(queue)
          BY <2>3
        <5> QED
          BY <2>3, <2>a, <5>1 DEF CallInv, QueueInv
      <4> QED
        BY <4>1, <4>2, <4>3
    <3>4. \A i \in 1..Len(queue') : queue'[i].kind = "call" =>
            queue'[i].id \in pending' /\ queue'[i].id \notin begun'
      BY <1>1, <1>2, <2>a, <2>6, <3>3 DEF CallInv, QueueInv, Waits
    <3> QED
      BY <1>1, <1>2, <2>3, <2>5, <3>1, <3>2, <3>3, <3>4 DEF QueueInv, Waits
  <2>9. HandlerInv'
    <3>1. /\ present \subseteq registered' /\ attached \subseteq registered'
      BY <2>3, <2>6 DEF CallInv, HandlerInv, AckInv, Waits
    <3>2. BatchInv'
      BY <2>5 DEF BatchInv
    <3>3. AckInv'
      <4>1. \A i \in 1..Len(queue') :
              /\ queue'[i].handlers \subseteq registered
              /\ item.kind = "ack" => item.handlers \cap queue'[i].handlers = {}
        <5>1. 1 \in 1..Len(queue) /\ \A i \in 1..Len(queue') : 1 < i + 1
          BY <2>3
        <5>2. \A i \in 1..Len(queue) :
                /\ queue[i].kind \in {"call", "ack", "result"}
                /\ queue[i].kind = "result" => queue[i].handlers = {}
          BY DEF CallInv, QueueInv
        <5>3. \A i \in 1..Len(queue) : queue[i].handlers \subseteq registered
          BY <5>2 DEF CallInv, HandlerInv, AckInv, Waits
        <5>4. item.kind = "ack" => \A i \in 1..Len(queue) : 1 < i => item.handlers \cap queue[i].handlers = {}
          <6>1. ASSUME item.kind = "ack", NEW i \in 1..Len(queue), 1 < i
                PROVE  item.handlers \cap queue[i].handlers = {}
            <7>1. CASE queue[i].kind = "ack"
              BY <2>3, <5>1, <6>1, <7>1 DEF CallInv, HandlerInv, AckInv, Waits
            <7>2. CASE queue[i].kind = "call"
              BY <2>3, <5>1, <6>1, <7>2 DEF CallInv, HandlerInv, AckInv, Waits
            <7> QED
              BY <5>2, <7>1, <7>2
          <6> QED
            BY <6>1
        <5> QED
          BY <2>a, <5>1, <5>3, <5>4
      <4>2. \A i \in 1..Len(queue') : queue'[i].handlers \subseteq registered'
        BY <2>6, <4>1
      <4>3. \A i \in 1..Len(queue') : queue'[i].kind = "ack" =>
              queue'[i].handlers \cap present = {} /\ queue'[i].handlers \cap attached = {}
        BY <2>a DEF CallInv, HandlerInv, AckInv, Waits
      <4>4. \A i, j \in 1..Len(queue') : queue'[i].kind = "ack" /\ queue'[j].kind = "ack" /\ i # j =>
              queue'[i].handlers \cap queue'[j].handlers = {}
        <5>1. \A i, j \in 1..Len(queue') : i # j => i + 1 # j + 1
          BY <2>3
        <5> QED
          BY <2>a, <5>1 DEF CallInv, HandlerInv, AckInv, Waits
      <4>5. \A i, j \in 1..Len(queue') : queue'[i].kind = "call" /\ queue'[j].kind = "ack" /\ j < i =>
              queue'[i].handlers \cap queue'[j].handlers = {}
        <5>1. \A i, j \in 1..Len(queue') : j < i => j + 1 < i + 1
          BY <2>3
        <5> QED
          BY <2>a, <5>1 DEF CallInv, HandlerInv, AckInv, Waits
      <4> QED
        BY <1>2, <4>2, <4>3, <4>4, <4>5 DEF AckInv, Waits
    <3>4. GivenUp'
      <4> SUFFICES ASSUME NEW h \in registered' \ present
                   PROVE  \E i \in 1..Len(queue') : queue'[i].kind = "ack" /\ h \in queue'[i].handlers
        BY <1>2 DEF GivenUp, Waits
      <4>1. h \in registered \ present /\ (item.kind = "ack" => h \notin item.handlers)
        BY <2>6
      <4>2. PICK i \in 1..Len(queue) : queue[i].kind = "ack" /\ h \in queue[i].handlers
        BY <1>1, <4>1 DEF CallInv, HandlerInv, GivenUp, Waits
      <4>3. i - 1 \in 1..Len(queue') /\ queue'[i - 1] = queue[i]
        BY <2>3, <4>1, <4>2
      <4> QED
        BY <4>2, <4>3
    <3> QED
      BY <1>2, <3>1, <3>2, <3>3, <3>4 DEF HandlerInv
  <2>10. OrderStep
    BY <1>1, <1>2, <1>4, <2>1, <2>5 DEF OrderStep
  <2> QED
    BY <2>5, <2>7, <2>8, <2>9, <2>10 DEF CallInv
<1> QED
  BY <1>3, <1>4

-----------------------------------------------------------------------------
(* Renderings.                                                             *)
LEMMA RenderKeeps ==
  ASSUME CallInv, NEW add \in SUBSET Handlers, NEW remove \in SUBSET Handlers, Render(add, remove)
  PROVE  CallInv' /\ OrderStep
<1>1. PICK f \in Frames :
        /\ f = RenderFrame(add, remove) /\ f.kind = "render"
        /\ f.add = add /\ f.gone = remove /\ f.remove = remove
  BY RenderFrameMade
<1>2. /\ registered' = registered \cup add /\ present' = (present \cup add) \ remove
      /\ queue' = queue /\ attached' = attached /\ arrays' = arrays /\ spent' \in 0..Budget
      /\ spent' = spent + 1
      /\ pending' = pending /\ begun' = begun /\ asked' = asked /\ results' = results
      /\ threw' = threw /\ lost' = lost
      /\ add \cap (registered \cup attached) = {} /\ remove \subseteq present
  BY QueueAssumption DEF QueueAssumption, Render, Spend, callVars, CallInv, CallTypes
<1>3. Renders(stack) = {}
  <2>1. \A i \in DOMAIN stack : stack[i].kind # "render"
    BY DEF Render, Rendering
  <2>2. DOMAIN stack = 1..Len(stack)
    BY DEF CallInv, StackInv
  <2> QED
    BY <2>1, <2>2 DEF Renders, Places
<1>4. /\ StackInv(stack') /\ Renders(stack') = {f} /\ inProgress' = TRUE /\ (Currents(stack') # {} \/ threw)
      /\ (threw => Currents(stack') = {})
      /\ made' \in Nat /\ (made' = made \/ made' = made + 1)
      /\ \/ made' = made /\ Currents(stack') = Currents(stack)
         \/ made' = made + 1 /\ ~threw /\ Currents(stack) = {} /\ Currents(stack') = {made + 1}
  <2>1. CASE inProgress
    <3>1. /\ stack' = Append(stack, f) /\ inProgress' = TRUE /\ made' = made
      BY <1>1, <2>1 DEF Render, ProcessPendingRender
    <3>2. StackInv(stack) /\ (Currents(stack) # {} \/ threw) /\ (threw => Currents(stack) = {})
      BY <2>1 DEF CallInv, QueueInv
    <3>3. StackInv(stack') /\ Currents(stack') = Currents(stack) /\ Renders(stack') = {f}
      BY <1>1, <1>3, <3>1, <3>2, PushRender
    <3>4. made' \in Nat /\ made' = made
      BY <3>1 DEF CallInv, CallTypes
    <3> QED
      BY <3>1, <3>2, <3>3, <3>4
  <2>2. CASE ~inProgress
    <3>1. made \in Nat /\ NewId = made + 1
      BY DEF CallInv, CallTypes, NewId
    <3>2. /\ Item("render", NewId, {}, 0) \in Items /\ Item("render", NewId, {}, 0).id = made + 1
      BY <3>1, ItemMade
    <3>3. PICK g \in Frames : /\ g = ItemFrame(Item("render", NewId, {}, 0), 0, 0)
                              /\ g.kind = "item" /\ g.item.id = made + 1 /\ g.item.id # 0
      BY <3>1, <3>2, ItemFrameMade
    <3>4. inProgress' = TRUE /\ made' = made + 1 /\ stack' = stack \o <<g, f>>
      BY <1>1, <2>2, <3>1, <3>3 DEF Render, ProcessPendingRender
    <3>5. PICK base : base = Append(stack, g)
      OBVIOUS
    <3>6. stack' = Append(base, f)
      BY <3>4, <3>5 DEF CallInv, StackInv
    <3>7. StackInv(stack) /\ Currents(stack) = {} /\ ~threw
      BY <2>2 DEF CallInv, QueueInv
    <3>8. StackInv(base) /\ Currents(base) = {g.item.id} /\ Renders(base) = {}
      BY <1>3, <3>3, <3>5, <3>7, PushItem
    <3>9. StackInv(stack') /\ Currents(stack') = Currents(base) /\ Renders(stack') = {f}
      BY <1>1, <3>6, <3>8, PushRender
    <3>10. Currents(stack') # {}
      BY <3>8, <3>9
    <3>11. made' \in Nat
      BY <3>1, <3>4
    <3> QED
      BY <3>3, <3>4, <3>7, <3>8, <3>9, <3>10, <3>11
  <2> QED
    BY <2>1, <2>2 DEF CallInv, CallTypes
<1>5. CallTypes'
  <2>1. inProgress' \in BOOLEAN
    BY <1>4
  <2>2. pending \subseteq 1..made'
    BY <1>4 DEF CallInv, CallTypes
  <2> QED
    BY <1>2, <1>4, <2>1, <2>2 DEF CallInv, CallTypes
<1>6. QueueInv'
  <2>1. \A i \in 1..Len(queue) : queue[i].id \in 1..made'
    BY <1>4 DEF CallInv, CallTypes, QueueInv
  <2> QED
    BY <1>2, <1>4, <2>1 DEF CallInv, QueueInv, Waits
<1>7. BatchInv'
  <2>1. present \subseteq registered
    BY DEF CallInv, HandlerInv
  <2>2. \A i : Waits(i, "ack") => queue[i].handlers \subseteq registered /\ queue[i].handlers \cap present = {}
    BY DEF CallInv, HandlerInv, AckInv
  <2> QED
    BY <1>1, <1>2, <1>4, <2>1, <2>2 DEF BatchInv, Waits
<1>8. AckInv'
  BY <1>2 DEF CallInv, HandlerInv, AckInv, Waits
<1>9. GivenUp'
  <2> SUFFICES ASSUME NEW h \in registered' \ present'
               PROVE  h \in remove \/ \E i : Waits(i, "ack") /\ h \in queue[i].handlers
    BY <1>1, <1>2, <1>4 DEF GivenUp, Waits
  <2> QED
    BY <1>2, <1>3 DEF CallInv, HandlerInv, GivenUp
<1>10. OrderStep
  BY <1>2, <1>4 DEF OrderStep
<1> QED
  BY <1>2, <1>4, <1>5, <1>6, <1>7, <1>8, <1>9, <1>10 DEF CallInv, HandlerInv

(* The browser renderer applies an edit.                                   *)
LEMMA ApplyEditKeeps ==
  ASSUME CallInv, NEW h \in Handlers, ApplyEdit(h)
  PROVE  CallInv' /\ OrderStep
<1>1. StackInv(stack) /\ stack # <<>> /\ Last(stack).kind = "render"
  BY DEF CallInv, ApplyEdit, TopIs
<1>2. Renders(stack) = {Last(stack)} /\ Last(stack) \in Frames /\ Last(stack) = stack[Len(stack)]
  BY <1>1, PopRender DEF Last
<1>3. /\ queue' = queue /\ inProgress' = inProgress /\ made' = made
      /\ registered' = registered /\ present' = present
      /\ pending' = pending /\ begun' = begun /\ asked' = asked /\ results' = results
      /\ arrays' = arrays /\ spent' = spent /\ threw' = threw /\ lost' = lost
  BY DEF ApplyEdit, queueVars, callVars
<1>4. PICK f \in Frames :
        /\ f.kind = "render" /\ f.gone = Last(stack).gone /\ stack' = [stack EXCEPT ![Len(stack)] = f]
        /\ \/ /\ h \in Last(stack).add /\ attached' = attached \cup {h}
              /\ f.add \subseteq Last(stack).add /\ f.remove = Last(stack).remove
           \/ /\ h \in Last(stack).remove /\ attached' = attached \ {h}
              /\ f.add = Last(stack).add /\ f.remove = Last(stack).remove \ {h}
  <2> DEFINE g == Last(stack)
  <2>1. CASE h \in g.add /\ attached' = attached \cup {h}
             /\ stack' = [stack EXCEPT ![Len(stack)].add = @ \ {h}]
    <3>1. [g EXCEPT !.add = @ \ {h}] \in Frames /\ stack' = [stack EXCEPT ![Len(stack)] = [g EXCEPT !.add = @ \ {h}]]
      BY <1>2, <2>1 DEF Frames
    <3> QED
      BY <1>1, <1>2, <2>1, <3>1 DEF Frames
  <2>2. CASE h \in g.remove /\ attached' = attached \ {h}
             /\ stack' = [stack EXCEPT ![Len(stack)].remove = @ \ {h}]
    <3>1. [g EXCEPT !.remove = @ \ {h}] \in Frames /\ stack' = [stack EXCEPT ![Len(stack)] = [g EXCEPT !.remove = @ \ {h}]]
      BY <1>2, <2>2 DEF Frames
    <3> QED
      BY <1>1, <1>2, <2>2, <3>1 DEF Frames
  <2> QED
    BY <2>1, <2>2 DEF ApplyEdit
<1>5. StackInv(stack') /\ Currents(stack') = Currents(stack) /\ Renders(stack') = {f}
  BY <1>1, <1>4, EditRender
<1>6. CallTypes'
  BY <1>3, <1>4 DEF CallInv, CallTypes
<1>7. QueueInv'
  BY <1>2, <1>3, <1>5 DEF CallInv, QueueInv, Waits
<1>8. /\ Last(stack).add \subseteq registered /\ Last(stack).gone \subseteq registered
      /\ Last(stack).add \cap Last(stack).gone = {} /\ Last(stack).gone \cap present = {}
      /\ Last(stack).gone \cap attached \subseteq Last(stack).remove
      /\ \A i : Waits(i, "ack") => queue[i].handlers \cap Last(stack).gone = {}
                                   /\ queue[i].handlers \cap Last(stack).add = {}
  BY <1>2 DEF CallInv, HandlerInv, BatchInv
<1>9. attached' \subseteq registered /\ BatchInv'
  BY <1>3, <1>4, <1>5, <1>8 DEF CallInv, HandlerInv, BatchInv, Waits
<1>10. AckInv'
  BY <1>3, <1>4, <1>8 DEF CallInv, HandlerInv, AckInv, Waits
<1>11. GivenUp'
  BY <1>2, <1>3, <1>4, <1>5 DEF CallInv, HandlerInv, GivenUp, Waits
<1>12. OrderStep
  BY <1>3, <1>5 DEF OrderStep
<1> QED
  BY <1>3, <1>5, <1>6, <1>7, <1>9, <1>10, <1>11, <1>12 DEF CallInv, HandlerInv

(* What the batch gave up is given up now or by the acknowledgement.       *)
LEMMA UpdateDisplayKeeps ==
  ASSUME CallInv, UpdateDisplay
  PROVE  CallInv' /\ OrderStep
<1> DEFINE gone == Last(stack).gone
<1>1. StackInv(stack) /\ stack # <<>> /\ Last(stack).kind = "render" /\ stack' = Front(stack)
  BY DEF CallInv, UpdateDisplay, TopIs, Acknowledge
<1>2. /\ StackInv(stack') /\ Currents(stack') = Currents(stack) /\ Renders(stack') = {}
      /\ Renders(stack) = {Last(stack)} /\ Last(stack) \in Frames
  BY <1>1, PopRender
<1>3. /\ inProgress' = inProgress /\ attached' = attached /\ present' = present
      /\ pending' = pending /\ begun' = begun /\ asked' = asked /\ results' = results
      /\ arrays' = arrays /\ spent' = spent /\ threw' = threw /\ lost' = lost
  BY DEF UpdateDisplay, callVars
<1>4. /\ gone \subseteq registered /\ gone \cap present = {} /\ gone \cap attached = {}
      /\ \A i : Waits(i, "ack") => queue[i].handlers \cap gone = {}
      /\ gone \in SUBSET Handlers
  BY <1>2 DEF UpdateDisplay, CallInv, HandlerInv, BatchInv, Frames
<1>5. made \in Nat /\ NewId = made + 1
  BY DEF CallInv, CallTypes, NewId
<1>6. CASE queue = <<>>
  <2>1. registered' = registered \ gone /\ queue' = queue /\ made' = made /\ Len(queue) = 0
    BY <1>6 DEF UpdateDisplay, Acknowledge, HasUnstartedWork
  <2>2. CallTypes'
    BY <1>3, <2>1 DEF CallInv, CallTypes
  <2>3. QueueInv'
    BY <1>2, <1>3, <2>1 DEF CallInv, QueueInv, Waits
  <2>4. HandlerInv'
    BY <1>2, <1>3, <1>4, <2>1 DEF CallInv, HandlerInv, BatchInv, AckInv, GivenUp, Waits
  <2>5. OrderStep
    BY <1>2, <1>3, <2>1 DEF OrderStep
  <2> QED
    BY <1>2, <2>2, <2>3, <2>4, <2>5 DEF CallInv
<1>7. CASE queue # <<>>
  <2> DEFINE item == Item("ack", NewId, gone, 0)
  <2>1. /\ queue' = Append(queue, item) /\ made' = made + 1 /\ registered' = registered
    BY <1>5, <1>7 DEF UpdateDisplay, Acknowledge, HasUnstartedWork
  <2>2. item \in Items /\ item.kind = "ack" /\ item.id = made + 1 /\ item.handlers = gone
    BY <1>4, <1>5, ItemMade
  <2>3. /\ queue' \in Seq(Items) /\ Len(queue) \in Nat /\ Len(queue') = Len(queue) + 1
        /\ \A i \in 1..Len(queue) : queue'[i] = queue[i]
        /\ queue'[Len(queue) + 1] = item
    BY <2>1, <2>2, AppendFacts DEF CallInv, QueueInv
  <2>4. CallTypes'
    BY <1>3, <1>5, <2>1 DEF CallInv, CallTypes
  <2>5. QueueInv'
    <3>1. /\ inProgress' <=> Currents(stack') # {} \/ threw'
          /\ threw' => Currents(stack') = {}
          /\ Renders(stack') # {} => Currents(stack') # {} \/ threw'
          /\ queue' # <<>> => inProgress'
      BY <1>2, <1>3, <1>7 DEF CallInv, QueueInv
    <3>2. \A i \in 1..Len(queue') :
            /\ queue'[i].kind \in {"call", "ack", "result"} /\ queue'[i].id \in 1..made'
            /\ queue'[i].kind = "result" => queue'[i].handlers = {}
      BY <1>5, <2>1, <2>2, <2>3 DEF CallInv, QueueInv
    <3>3. \A i, j \in 1..Len(queue') : queue'[i].id = queue'[j].id => i = j
      BY <1>5, <2>2, <2>3 DEF CallInv, QueueInv
    <3>4. threw \/ \A i \in 1..Len(queue') : queue'[i].kind = "call" =>
                     queue'[i].id \in pending /\ queue'[i].id \notin begun
      BY <2>2, <2>3 DEF CallInv, QueueInv, Waits
    <3> QED
      BY <1>3, <2>3, <3>1, <3>2, <3>3, <3>4 DEF QueueInv, Waits
  <2>6. AckInv'
    BY <1>3, <1>4, <2>1, <2>2, <2>3 DEF CallInv, HandlerInv, AckInv, Waits
  <2>7. GivenUp'
    <3> SUFFICES ASSUME NEW h \in registered \ present
                 PROVE  \E i \in 1..Len(queue') : queue'[i].kind = "ack" /\ h \in queue'[i].handlers
      BY <1>3, <2>1 DEF GivenUp, Waits
    <3>1. CASE h \in gone
      BY <2>2, <2>3, <3>1
    <3>2. CASE h \notin gone
      <4>1. PICK i \in 1..Len(queue) : queue[i].kind = "ack" /\ h \in queue[i].handlers
        BY <1>2, <3>2 DEF CallInv, HandlerInv, GivenUp, Waits
      <4> QED
        BY <2>3, <4>1
    <3> QED
      BY <3>1, <3>2
  <2>8. HandlerInv'
    BY <1>2, <1>3, <2>1, <2>6, <2>7 DEF CallInv, HandlerInv, BatchInv
  <2>9. OrderStep
    <3>1. Currents(stack) # {} \/ threw
      BY <1>7 DEF CallInv, QueueInv
    <3> QED
      BY <1>2, <1>3, <2>1, <2>2, <3>1 DEF OrderStep
  <2> QED
    BY <1>2, <2>4, <2>5, <2>8, <2>9 DEF CallInv
<1> QED
  BY <1>6, <1>7

-----------------------------------------------------------------------------
(* Every step keeps CallInv and does one of six things to the order of     *)
(* work.                                                                   *)
LEMMA CallInvNext == CallInv /\ [Next]_vars => CallInv' /\ OrderStep
<1> SUFFICES ASSUME CallInv, [Next]_vars PROVE CallInv' /\ OrderStep
  OBVIOUS
<1>1. CASE UNCHANGED vars
  <2>1. UNCHANGED queueVars /\ UNCHANGED handlerVars /\ stack' = stack
        /\ pending' = pending /\ begun' = begun
    BY <1>1 DEF vars, callVars
  <2>2. CallTypes'
    BY <1>1 DEF CallInv, CallTypes, vars, queueVars, handlerVars, callVars
  <2> QED
    BY <2>1, <2>2, PlainKeeps DEF CallInv
<1>2. CASE Progress
  <2>1. CASE Drain
    BY <2>1, DrainKeeps
  <2>2. CASE Return
    BY <2>2, ReturnKeeps
  <2>3. CASE UpdateDisplay
    BY <2>3, UpdateDisplayKeeps
  <2>4. CASE \E h \in Handlers : ApplyEdit(h)
    BY <2>4, ApplyEditKeeps
  <2>5. CASE \E r \in results : EndInvokeJS(r)
    BY <2>5, EndInvokeJSKeeps
  <2>6. CASE \E c \in begun : EndInvokeDotNet(c)
    BY <2>6, EndInvokeDotNetKeeps
  <2> QED
    BY <1>2, <2>1, <2>2, <2>3, <2>4, <2>5, <2>6 DEF Progress
<1>3. CASE Turn(JsFrame) \/ Turn(TaskFrame)
  BY <1>3, TurnKeeps
<1>4. ASSUME NEW sends \in BOOLEAN, BeginInvokeDotNet({}, sends)
      PROVE  CallInv' /\ OrderStep
  <2>1. {} \in SUBSET Handlers
    OBVIOUS
  <2> QED
    BY <1>4, <2>1, BeginInvokeDotNetKeeps
<1>5. ASSUME NEW sends \in BOOLEAN, NEW h \in Handlers, BeginInvokeDotNet({h}, sends)
      PROVE  CallInv' /\ OrderStep
  <2>1. {h} \in SUBSET Handlers
    OBVIOUS
  <2> QED
    BY <1>5, <2>1, BeginInvokeDotNetKeeps
<1>6. ASSUME NEW sends \in BOOLEAN, NEW a \in asked, SerializeResult(a, sends)
      PROVE  CallInv' /\ OrderStep
  BY <1>6, SerializeResultKeeps
<1>7. CASE InvokeDotNet
  BY <1>7, InvokeDotNetKeeps
<1>8. CASE BeginInvokeJS
  BY <1>8, BeginInvokeJSKeeps
<1>9. ASSUME NEW add \in SUBSET Handlers, NEW remove \in SUBSET Handlers, Render(add, remove)
      PROVE  CallInv' /\ OrderStep
  BY <1>9, RenderKeeps
<1> QED
  BY <1>1, <1>2, <1>3, <1>4, <1>5, <1>6, <1>7, <1>8, <1>9 DEF Next

(* CallInv holds in every behaviour.                                       *)
LEMMA CallInvariant == Spec => []CallInv
  BY CallInvInit, CallInvNext, PTL DEF Spec

(* However calls nest: queued work runs one item at a time, renderings are *)
(* part of an item and nothing is left waiting when the outermost item has *)
(* returned; once an exception has left the queue, the flag stays set and  *)
(* nothing is an item any more. (Schedule, ProcessPendingRender.)          *)
THEOREM WorkIsNeverNested == Spec => []QueueMatchesStack
<1>1. CallInv => QueueMatchesStack
  <2> SUFFICES ASSUME CallInv PROVE QueueMatchesStack
    OBVIOUS
  <2>1. DOMAIN stack = 1..Len(stack) /\ DOMAIN queue = 1..Len(queue)
    BY DEF CallInv, StackInv, QueueInv
  <2>2. ItemFrames = Places(stack, "item") /\ RenderFrames = Places(stack, "render")
    BY <2>1 DEF ItemFrames, RenderFrames, Places
  <2>3. TypeOK
    <3>1. \A i \in 1..Len(stack) : stack[i] \in Frames
      BY ElementOfSeq DEF CallInv, StackInv
    <3>2. \A i \in 1..Len(stack) : stack[i].kind \in {"js", "task", "item", "render"}
      BY <3>1 DEF Frames
    <3> QED
      BY <2>1, <3>2 DEF CallInv, CallTypes, QueueInv, HandlerInv, TypeOK
  <2>4. /\ inProgress <=> ItemFrames # {} \/ threw
        /\ threw => ItemFrames = {}
        /\ RenderFrames # {} => ItemFrames # {} \/ threw
    <3>1. ItemFrames # {} <=> Currents(stack) # {}
      BY <2>2 DEF Currents
    <3>2. RenderFrames # {} <=> Renders(stack) # {}
      BY <2>2 DEF Renders
    <3> QED
      BY <3>1, <3>2 DEF CallInv, QueueInv
  <2> QED
    BY <2>2, <2>3, <2>4 DEF CallInv, StackInv, QueueInv, QueueMatchesStack
<1> QED
  BY <1>1, CallInvariant, PTL

(* An event that waits finds its handler, whichever batch removes it in    *)
(* the meantime, and a handler that was removed is given up by the batch   *)
(* being applied or by an acknowledgement to come. (UpdateDisplayAsync.)   *)
THEOREM HandlersAreKept == Spec => []EventsFindHandlers
<1>1. CallInv => EventsFindHandlers
  <2> SUFFICES ASSUME CallInv PROVE EventsFindHandlers
    OBVIOUS
  <2>1. DOMAIN stack = 1..Len(stack) /\ DOMAIN queue = 1..Len(queue) /\ Len(queue) \in Nat
    BY DEF CallInv, StackInv, QueueInv
  <2>2. RenderFrames = Places(stack, "render")
    BY <2>1 DEF RenderFrames, Places
  <2>3. ASSUME NEW i \in DOMAIN queue, queue[i].kind = "call"
        PROVE  /\ queue[i].handlers \subseteq registered
               /\ \A j \in 1..(i - 1) : queue[j].kind = "ack" =>
                    queue[j].handlers \cap queue[i].handlers = {}
    <3>1. Waits(i, "call") /\ \A j \in 1..(i - 1) : j < i /\ j \in 1..Len(queue)
      BY <2>1, <2>3 DEF Waits
    <3>2. queue[i].handlers \subseteq registered
      BY <3>1 DEF CallInv, HandlerInv, AckInv
    <3>3. ASSUME NEW j \in 1..(i - 1), queue[j].kind = "ack"
          PROVE  queue[j].handlers \cap queue[i].handlers = {}
      <4>1. Waits(j, "ack") /\ j < i
        BY <3>1, <3>3 DEF Waits
      <4> QED
        BY <3>1, <4>1 DEF CallInv, HandlerInv, AckInv
    <3> QED
      BY <3>2, <3>3
  <2>4. ASSUME NEW h \in registered \ present
        PROVE  \/ \E i \in RenderFrames : h \in stack[i].gone
               \/ \E i \in DOMAIN queue : queue[i].kind = "ack" /\ h \in queue[i].handlers
    BY <2>1, <2>2 DEF CallInv, HandlerInv, GivenUp, Waits, Renders
  <2> QED
    BY <2>3, <2>4 DEF EventsFindHandlers
<1> QED
  BY <1>1, CallInvariant, PTL

-----------------------------------------------------------------------------
(* CallOrder's view of the state.                                          *)
Waiting == [i \in DOMAIN queue |-> queue[i].id]
Current ==
  IF ItemFrames = {} THEN 0
  ELSE stack[CHOOSE i \in ItemFrames : \A j \in ItemFrames : j <= i].item.id

CurrentMatches ==
  /\ Currents(stack) = {} => Current = 0
  /\ \A x : Currents(stack) = {x} => Current = x
  /\ Currents(stack) # {} => Current # 0

(* The running item is the one on the stack.                               *)
LEMMA CurrentIs == CallInv => CurrentMatches
<1> SUFFICES ASSUME CallInv PROVE CurrentMatches
  OBVIOUS
<1>1. ItemFrames = Places(stack, "item") /\ ItemFrames \subseteq Int
  BY DEF CallInv, StackInv, ItemFrames, Places
<1>2. CASE ItemFrames = {}
  <2>1. Currents(stack) = {}
    BY <1>1, <1>2 DEF Currents
  <2> QED
    BY <1>2, <2>1 DEF Current, CurrentMatches
<1>3. CASE ItemFrames # {}
  <2>1. PICK i \in ItemFrames : \A j \in ItemFrames : j = i
    BY <1>1, <1>3 DEF CallInv, StackInv
  <2>2. (CHOOSE k \in ItemFrames : \A j \in ItemFrames : j <= k) = i
    BY <1>1, <2>1
  <2>3. Current = stack[i].item.id
    BY <1>3, <2>2 DEF Current
  <2>4. Currents(stack) = {stack[i].item.id} /\ stack[i].item.id # 0
    BY <1>1, <2>1 DEF Currents, CallInv, StackInv
  <2> QED
    BY <2>3, <2>4 DEF CurrentMatches
<1> QED
  BY <1>2, <1>3

(* At most one item runs.                                                  *)
LEMMA OneCurrent ==
  ASSUME CallInv
  PROVE  Currents(stack) = {} \/ \E x : Currents(stack) = {x}
BY DEF CallInv, StackInv, Currents

(* So it is after a step.                                                  *)
LEMMA CurrentIsNext == CallInv' => CurrentMatches'
BY CurrentIs, PTL

(* What waits in the abstract queue is what waits in the code's.           *)
LEMMA WaitingIs ==
  ASSUME CallInv
  PROVE  /\ Waiting = <<>> <=> queue = <<>>
         /\ \A item \in Items : queue' = Append(queue, item) => Waiting' = Append(Waiting, item.id)
         /\ queue # <<>> /\ queue' = Tail(queue) =>
              Waiting' = Tail(Waiting) /\ Head(Waiting) = Head(queue).id
<1>1. queue \in Seq(Items) /\ DOMAIN queue = 1..Len(queue) /\ Len(queue) \in Nat
  BY DEF CallInv, QueueInv
<1>2. \A i \in 1..Len(queue) : queue[i] \in Items /\ queue[i].id \in Nat
  <2>1. \A i \in 1..Len(queue) : queue[i] \in Items
    BY <1>1, ElementOfSeq
  <2> QED
    BY <2>1 DEF Items
<1>3. Waiting \in Seq(Nat) /\ Len(Waiting) = Len(queue)
  BY <1>1, <1>2 DEF Waiting
<1>4. Waiting = <<>> <=> queue = <<>>
  BY <1>1, <1>3, EmptySeq
<1>5. ASSUME NEW item \in Items, queue' = Append(queue, item)
      PROVE  Waiting' = Append(Waiting, item.id)
  <2>1. /\ queue' \in Seq(Items) /\ Len(queue') = Len(queue) + 1
        /\ \A i \in 1..Len(queue) : queue'[i] = queue[i]
        /\ queue'[Len(queue) + 1] = item
    BY <1>1, <1>5, AppendFacts
  <2>2. DOMAIN queue' = 1..(Len(queue) + 1)
    BY <2>1
  <2> QED
    BY <1>1, <1>3, <2>1, <2>2 DEF Waiting
<1>6. ASSUME queue # <<>>, queue' = Tail(queue)
      PROVE  Waiting' = Tail(Waiting) /\ Head(Waiting) = Head(queue).id
  <2>1. /\ queue' \in Seq(Items) /\ Len(queue') = Len(queue) - 1 /\ Len(queue) \in Nat \ {0}
        /\ \A i \in 1..Len(queue') : queue'[i] = queue[i + 1]
        /\ Head(queue) = queue[1]
    BY <1>1, <1>6, TailFacts
  <2>2. DOMAIN queue' = 1..(Len(queue) - 1)
    BY <2>1
  <2>3. Head(Waiting) = Waiting[1] /\ 1 \in DOMAIN queue
    BY <1>1, <1>3, <2>1
  <2>4. Tail(Waiting) = [i \in 1..(Len(queue) - 1) |-> Waiting[i + 1]]
    <3>1. PICK r : r = Tail(Waiting)
      OBVIOUS
    <3>2. Waiting # <<>>
      BY <1>4, <1>6
    <3>3. r \in Seq(Nat) /\ Len(r) = Len(Waiting) - 1 /\ \A i \in 1..Len(r) : r[i] = Waiting[i + 1]
      BY <1>3, <3>1, <3>2, TailFacts
    <3>4. r = [i \in 1..Len(r) |-> r[i]]
      BY <3>3
    <3> QED
      BY <1>3, <3>1, <3>3, <3>4
  <2>5. Waiting' = [i \in 1..(Len(queue) - 1) |-> queue'[i].id]
    BY <2>2 DEF Waiting
  <2>6. \A i \in 1..(Len(queue) - 1) : Waiting[i + 1] = queue'[i].id
    BY <1>1, <2>1 DEF Waiting
  <2> QED
    BY <2>1, <2>3, <2>4, <2>5, <2>6 DEF Waiting
<1> QED
  BY <1>4, <1>5, <1>6

(* Whatever calls and renderings are nested in each other, work items are  *)
(* handled one at a time, each once, in the order in which they came, until*)
(* one of them throws: all of InOrder but its fairness.                    *)
(* (ElectronCallQueue.cs:10, :40.)                                         *)
THEOREM CallsKeepOrder == Spec => Order!Init /\ [][Order!Next]_(Order!vars)
<1>1. Init => Order!Init
  <2> SUFFICES ASSUME Init PROVE Order!Init
    OBVIOUS
  <2>1. CallInv /\ Len(stack) = 0
    BY CallInvInit DEF Init
  <2>2. Currents(stack) = {}
    BY <2>1 DEF Currents, Places
  <2>3. Current = 0 /\ Waiting = <<>>
    BY <2>1, <2>2, CurrentIs, WaitingIs DEF Init, CurrentMatches
  <2> QED
    BY <2>3 DEF Order!Init, Current, Waiting, Init
<1>2. ASSUME CallInv, CallInv', OrderStep
      PROVE  [Order!Next]_(Order!vars)
  <2>1. /\ Currents(stack) = {} => Current = 0
        /\ Currents(stack) # {} => Current # 0
        /\ \A x : Currents(stack) = {x} => Current = x
    BY <1>2, CurrentIs DEF CurrentMatches
  <2>2. /\ Currents(stack') = {} => Current' = 0
        /\ \A x : Currents(stack') = {x} => Current' = x
    BY <1>2, CurrentIsNext DEF CurrentMatches, Currents, Places
  <2>3. Current = Current' \/ Currents(stack') # Currents(stack)
    <3>1. Currents(stack) = {} \/ \E x : Currents(stack) = {x}
      BY <1>2, OneCurrent
    <3> QED
      BY <2>1, <2>2, <3>1
  <2>4. queue' = queue => Waiting' = Waiting
    BY DEF Waiting
  <2>5. CASE threw' = threw /\ made' = made /\ queue' = queue /\ Currents(stack') = Currents(stack)
    BY <2>3, <2>4, <2>5 DEF Order!vars, Waiting, Current
  <2>6. CASE /\ threw' = threw /\ made' = made + 1 /\ queue' = queue /\ ~threw
             /\ Currents(stack) = {} /\ Currents(stack') = {made + 1}
    <3>1. Current = 0 /\ Current' = made' /\ Waiting' = Waiting
      BY <2>1, <2>2, <2>4, <2>6
    <3>2. Order!Arrive
      BY <2>6, <3>1 DEF Order!Arrive, Current, Waiting
    <3> QED
      BY <3>2 DEF Order!Next
  <2>7. CASE /\ threw' = threw /\ made' = made + 1
             /\ \E item \in Items : item.id = made + 1 /\ queue' = Append(queue, item)
             /\ (Currents(stack) # {} \/ threw) /\ Currents(stack') = Currents(stack)
    <3>1. (Current # 0 \/ threw) /\ Current' = Current /\ Waiting' = Append(Waiting, made')
      BY <1>2, <2>1, <2>3, <2>7, WaitingIs
    <3>2. Order!Arrive
      BY <2>7, <3>1 DEF Order!Arrive, Current, Waiting
    <3> QED
      BY <3>2 DEF Order!Next
  <2>8. CASE /\ threw' = threw /\ made' = made /\ queue = <<>> /\ queue' = queue
             /\ Currents(stack) # {} /\ Currents(stack') = {}
    <3>1. Current # 0 /\ Current' = 0 /\ Waiting' = Waiting /\ Waiting = <<>>
      BY <1>2, <2>1, <2>2, <2>4, <2>8, WaitingIs
    <3>2. Order!Finish
      BY <2>8, <3>1 DEF Order!Finish, Current, Waiting
    <3> QED
      BY <3>2 DEF Order!Next
  <2>9. CASE /\ threw' = threw /\ made' = made /\ queue # <<>> /\ queue' = Tail(queue)
             /\ Currents(stack) # {} /\ Currents(stack') = {Head(queue).id}
    <3>1. /\ Current # 0 /\ Waiting # <<>>
          /\ Current' = Head(Waiting) /\ Waiting' = Tail(Waiting)
      BY <1>2, <2>1, <2>2, <2>9, WaitingIs
    <3>2. Order!Finish
      BY <2>9, <3>1 DEF Order!Finish, Current, Waiting
    <3> QED
      BY <3>2 DEF Order!Next
  <2>10. CASE /\ threw' = TRUE /\ made' = made /\ queue' = queue
              /\ Currents(stack) # {} /\ Currents(stack') = {}
    <3>1. Current # 0 /\ Current' = 0 /\ Waiting' = Waiting
      BY <2>1, <2>2, <2>4, <2>10
    <3>2. Order!Fail
      BY <2>10, <3>1 DEF Order!Fail, Current, Waiting
    <3> QED
      BY <3>2 DEF Order!Next
  <2> QED
    BY <1>2, <2>5, <2>6, <2>7, <2>8, <2>9, <2>10 DEF OrderStep
<1> QED
  BY <1>1, <1>2, CallInvNext, CallInvInit, PTL DEF Spec
=============================================================================
