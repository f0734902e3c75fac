--------------------------- MODULE RootComponents ---------------------------
(***************************************************************************)
(* Root components that JavaScript adds, sets and disposes while .NET      *)
(* owns them (Rendering/JSRootComponents.ts, the attachment in Renderer.ts *)
(* and BrowserRenderer.ts).                                                *)
(*                                                                         *)
(* JavaScript's calls reach .NET in order, as JsCallQueue shows, and their *)
(* answers come back in order; between a call and its answer, and between  *)
(* an answer and the code that awaits it, JavaScript goes on.  A component *)
(* has one parameter that is an event callback.  JavaScript numbers its    *)
(* components, containers and object references in the order of add; a     *)
(* number stands for all three.                                            *)
(*                                                                         *)
(* Left out: add before enableJSRootComponents, which throws and leaves a  *)
(* container behind.                                                       *)
(***************************************************************************)
EXTENDS Naturals, Sequences, FiniteSets

CONSTANTS
  Elements,   (* elements of the page                                       *)
  NoElement,  (* for what is not attached                                   *)
  MaxAdds,    (* bound: components added                                    *)
  MaxCalls    (* bound: calls of setParameters and dispose by the page      *)

ASSUME RootAssumption == MaxAdds \in Nat /\ MaxCalls \in Nat /\ NoElement \notin Elements

Components == 1 .. MaxAdds

VARIABLES
  added,      (* components JavaScript has asked for                        *)
  calls,      (* calls of the page so far, for the bound                    *)
  pendingRootComponentContainers,  (* the element of each container         *)
  componentId,  (* of a DynamicRootComponent: "none", "set" or "null"       *)
  wrapped,    (* those whose wrapper has made its object reference          *)
  cached,     (* those whose object reference JavaScript can find           *)
  toDotNet,   (* calls on the way to .NET                                   *)
  toJs,       (* answers on the way to JavaScript                           *)
  root,       (* .NET: the element of each root component, or NoElement     *)
  callback,   (* .NET: those whose callback parameter is set                *)
  refused     (* those whose add failed                                     *)

jsComponentVars ==
  <<added, pendingRootComponentContainers, componentId, wrapped, cached>>
rootVars == <<jsComponentVars, calls, toDotNet, toJs, root, callback, refused>>

Message(op, c, good) == [op |-> op, component |-> c, good |-> good]
Send(op, c, good) == toDotNet' = Append(toDotNet, Message(op, c, good))

RootInit ==
  /\ added = 0 /\ calls = 0
  /\ pendingRootComponentContainers = [c \in Components |-> NoElement]
  /\ componentId = [c \in Components |-> "none"]
  /\ wrapped = {} /\ cached = {}
  /\ toDotNet = <<>> /\ toJs = <<>>
  /\ root = [c \in Components |-> NoElement]
  /\ callback = {} /\ refused = {}

-----------------------------------------------------------------------------
(* RootComponentsFunctions.add, up to the await; known: the identifier is  *)
(* that of a component.                                                    *)
AddRootComponent(e, known) ==
  /\ added < MaxAdds
  /\ added' = added + 1
  /\ pendingRootComponentContainers' = [pendingRootComponentContainers EXCEPT ![added + 1] = e]
  /\ Send("add", added + 1, known)
  /\ UNCHANGED <<calls, componentId, wrapped, cached, toJs, root, callback, refused>>

(* setParameters sends the reference of the wrapper, made once, if there is*)
(* a callback among the parameters, and the component's id as it is now.   *)
SetParameters(c, withCallback) ==
  /\ wrapped' = IF withCallback THEN wrapped \cup {c} ELSE wrapped
  /\ cached' = IF withCallback /\ c \notin wrapped THEN cached \cup {c} ELSE cached
  /\ Send(IF componentId'[c] = "null" THEN "setNull"
          ELSE IF withCallback THEN "setCallback" ELSE "set", c, TRUE)

PageSetsParameters(c, withCallback) ==
  /\ calls < MaxCalls /\ componentId[c] # "none"
  /\ calls' = calls + 1
  /\ UNCHANGED componentId
  /\ SetParameters(c, withCallback)
  /\ UNCHANGED <<added, pendingRootComponentContainers, toJs, root, callback, refused>>

(* Mutant: the wrappers are disposed before .NET has answered.             *)
PageDisposesEagerly(c) ==
  /\ calls < MaxCalls /\ componentId[c] = "set"
  /\ calls' = calls + 1
  /\ Send("remove", c, TRUE)
  /\ cached' = cached \ {c}
  /\ UNCHANGED <<added, pendingRootComponentContainers, componentId, wrapped,
                 toJs, root, callback, refused>>

(* dispose, up to the await.                                               *)
PageDisposes(c) ==
  /\ calls < MaxCalls /\ componentId[c] = "set"
  /\ calls' = calls + 1
  /\ Send("remove", c, TRUE)
  /\ UNCHANGED <<jsComponentVars, toJs, root, callback, refused>>

(* An answer: add makes the component and sets its first parameters,       *)
(* dispose forgets the id and the references.  setParameters awaits none.  *)
Resume(withCallback) ==
  /\ toJs # <<>>
  /\ toJs' = Tail(toJs)
  /\ LET m == Head(toJs)
         c == m.component
     IN  \/ /\ m.op = "add" /\ m.good
            /\ componentId' = [componentId EXCEPT ![c] = "set"]
            /\ SetParameters(c, withCallback)
            /\ UNCHANGED refused
         \/ /\ m.op = "remove" /\ m.good /\ ~withCallback
            /\ componentId' = [componentId EXCEPT ![c] = "null"]
            /\ cached' = cached \ {c}
            /\ UNCHANGED <<wrapped, toDotNet, refused>>
         \/ /\ ~m.good /\ ~withCallback
            /\ refused' = IF m.op = "add" THEN refused \cup {c} ELSE refused
            /\ UNCHANGED <<componentId, wrapped, cached, toDotNet>>
  /\ UNCHANGED <<added, calls, pendingRootComponentContainers, root, callback>>

-----------------------------------------------------------------------------
(* .NET handles a call; what it does with it is external.                  *)
Answer(m, good) == toJs' = Append(toJs, [m EXCEPT !.good = good])

isInteractiveRootComponentElement(e) == \E c \in Components : root[c] = e

(* AddRootComponent attaches the component at once, which takes its        *)
(* container and fails if the element has a component.  An unknown         *)
(* identifier is refused before, and its container is kept.                *)
DotNetAdds(m) ==
  LET c == m.component
      e == pendingRootComponentContainers[c]
      free == ~isInteractiveRootComponentElement(e)
  IN  /\ m.op = "add"
      /\ pendingRootComponentContainers' =
           IF m.good THEN [pendingRootComponentContainers EXCEPT ![c] = NoElement]
           ELSE pendingRootComponentContainers
      /\ root' = IF m.good /\ free THEN [root EXCEPT ![c] = e] ELSE root
      /\ Answer(m, m.good /\ free)
      /\ UNCHANGED callback

(* SetRootComponentParameters, for a component that exists.  A parameter   *)
(* that cannot be converted is like one that is not given.                 *)
DotNetSets(m) ==
  /\ m.op \in {"set", "setCallback", "setNull"}
  /\ callback' = IF m.op = "setCallback" /\ root[m.component] # NoElement
                 THEN callback \cup {m.component} ELSE callback
  /\ UNCHANGED <<pendingRootComponentContainers, root, toJs>>

(* RemoveRootComponent renders a batch that disposes the component.        *)
DotNetRemoves(m) ==
  /\ m.op = "remove"
  /\ root' = [root EXCEPT ![m.component] = NoElement]
  /\ callback' = callback \ {m.component}
  /\ Answer(m, root[m.component] # NoElement)
  /\ UNCHANGED pendingRootComponentContainers

DotNetHandles ==
  /\ toDotNet # <<>>
  /\ toDotNet' = Tail(toDotNet)
  /\ LET m == Head(toDotNet) IN DotNetAdds(m) \/ DotNetSets(m) \/ DotNetRemoves(m)
  /\ UNCHANGED <<added, calls, componentId, wrapped, cached, refused>>

RootNext ==
  \/ \E e \in Elements, known \in BOOLEAN : AddRootComponent(e, known)
  \/ \E c \in Components, b \in BOOLEAN : PageSetsParameters(c, b)
  \/ \E c \in Components : PageDisposes(c)
  \/ \E b \in BOOLEAN : Resume(b)
  \/ DotNetHandles

RootSpec == RootInit /\ [][RootNext]_rootVars

-----------------------------------------------------------------------------
OnTheWay(queue, op, c) == \E i \in DOMAIN queue : queue[i].op = op /\ queue[i].component = c

(* A component that .NET may still render has an element of its own, and   *)
(* can call its callback: JavaScript keeps the object reference until .NET *)
(* has confirmed the removal, however often the page sets parameters or    *)
(* disposes meanwhile.  It can be disposed: the page holds it or is about  *)
(* to.  A container waits only for a call that will take it, or stays of   *)
(* one that was refused.  (DynamicRootComponent, attachRootComponent.)     *)
RootsAgree ==
  /\ callback \subseteq cached
  /\ \A c \in Components :
       root[c] # NoElement =>
         /\ \A d \in Components : root[d] = root[c] => d = c
         /\ componentId[c] = "set" \/ OnTheWay(toJs, "add", c)
         /\ c \notin refused
  /\ \A c \in Components :
       pendingRootComponentContainers[c] # NoElement =>
         OnTheWay(toDotNet, "add", c) \/ OnTheWay(toJs, "add", c) \/ c \in refused
=============================================================================
