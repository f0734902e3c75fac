------------------------------ MODULE JsHandles ------------------------------
(***************************************************************************)
(* References to JavaScript values held by .NET: who owns a JsHandle, when *)
(* it is released and when it is read (InProcess/JsValue.cs,               *)
(* JsDynamicObject.cs, InvokeHelper.cs, NativeHost/NativeNodeHost.cs;      *)
(* jshandle.h and the calls of context.cc).                                *)
(*                                                                         *)
(* A handle is what JsHandle::FromValue allocates: a reference to an       *)
(* object or function, or a copy of a string or an error. Values without   *)
(* an allocation are left out. The node thread's stack is explicit: a call *)
(* of JavaScript may call .NET back, which may dispose what is in use. A   *)
(* frame is                                                                *)
(*   js      JavaScript,                                                   *)
(*   args    an invoker that converts the arguments of a callback,         *)
(*   dotnet  .NET code in the context,                                     *)
(*   native  Context reading the handles of a call,                        *)
(*   result  .NET code converting what a call has returned.                *)
(* Calls that a conversion itself makes are left out: they use a new       *)
(* object that nobody else knows yet.                                      *)
(***************************************************************************)
EXTENDS Naturals, Sequences, FiniteSets, SequencesExt

CONSTANTS
  Handles,   (* bound: handles in a behaviour                               *)
  MaxDepth,  (* bound: frames on the stack                                  *)
  MaxArgs,   (* bound: handles among the arguments of a callback            *)
  None       (* the global object, which has no reference                   *)

ASSUME HandleAssumption == None \notin Handles /\ MaxDepth \in Nat /\ MaxArgs \in Nat

VARIABLES
  ref,       (* the native allocation of each handle                        *)
  frees,     (* how often it was deleted                                    *)
  strings,   (* handles that are strings or errors                          *)
  wrapped,   (* handles of JsDynamicObjects                                 *)
  disposed,  (* those whose _disposed is 1                                  *)
  reachable, (* those the application can still use                         *)
  queued,    (* releases that wait in the scheduler                         *)
  lost,      (* handles whose release was dropped or that nobody took       *)
  stack,
  accepting  (* the scheduler takes tasks                                   *)

nativeVars == <<ref, frees>>
objectVars == <<wrapped, disposed, reachable>>
vars == <<nativeVars, strings, objectVars, queued, lost, stack, accepting>>

(* self and args: the handles of a call; checked: CheckDisposed came just  *)
(* before. pending: handles the frame must still convert or release.       *)
Frame(kind, self, args, checked, pending) ==
  [kind |-> kind, self |-> self, args |-> args, checked |-> checked, pending |-> pending]
Plain(kind) == Frame(kind, None, {}, FALSE, <<>>)
Holding(kind, pending) == Frame(kind, None, {}, FALSE, pending)

Top == Last(stack)
TopIs(kinds) == stack # <<>> /\ Top.kind \in kinds
Push(frame) == Len(stack) < MaxDepth /\ stack' = Append(stack, frame)
Become(frame) == stack' = [stack EXCEPT ![Len(stack)] = frame]
Pop == stack' = Front(stack)

Init ==
  /\ ref = [h \in Handles |-> "none"]
  /\ frees = [h \in Handles |-> 0]
  /\ strings = {} /\ wrapped = {} /\ disposed = {} /\ reachable = {}
  /\ queued = {} /\ lost = {}
  /\ stack = <<>>
  /\ accepting = TRUE

-----------------------------------------------------------------------------
(* JsHandle::FromValue allocates the handles of a sequence.                *)
FromValues(hs, asStrings) ==
  /\ \A i, j \in DOMAIN hs : hs[i] = hs[j] => i = j
  /\ \A i \in DOMAIN hs : ref[hs[i]] = "none"
  /\ asStrings \subseteq ToSet(hs)
  /\ ref' = [h \in Handles |-> IF h \in ToSet(hs) THEN "live" ELSE ref[h]]
  /\ strings' = strings \cup asStrings
  /\ UNCHANGED frees

(* JsHandle::Release, on the spot.                                         *)
Free(hs) ==
  /\ ref' = [h \in Handles |-> IF h \in hs THEN "freed" ELSE ref[h]]
  /\ frees' = [h \in Handles |-> IF h \in hs THEN frees[h] + 1 ELSE frees[h]]

(* Mutant: Release does not care about the thread.                         *)
FreeAnywhere(h) == Free({h}) /\ UNCHANGED <<queued, lost>>

(* Mutant: outside the context nothing is released.                        *)
ReleaseNever(h) == lost' = lost \cup {h} /\ UNCHANGED <<nativeVars, queued>>

(* NativeNodeHost.Release of an object outside the context: a task, which  *)
(* the scheduler drops once it is closed.                                  *)
ReleaseLater(h) ==
  /\ IF accepting THEN queued' = queued \cup {h} /\ UNCHANGED lost
             ELSE lost' = lost \cup {h} /\ UNCHANGED queued
  /\ UNCHANGED nativeVars

-----------------------------------------------------------------------------
(* The event loop runs JavaScript or a .NET task.                          *)
Turn(kind) ==
  /\ stack = <<>>
  /\ Push(Plain(kind))
  /\ UNCHANGED <<nativeVars, strings, objectVars, queued, lost, accepting>>

RunReleaseTask(h) ==
  /\ stack = <<>>
  /\ h \in queued
  /\ queued' = queued \ {h}
  /\ Free({h})
  /\ UNCHANGED <<strings, objectVars, lost, stack, accepting>>

(* JavaScript calls a function made from a delegate; its arguments become  *)
(* handles.                                                                *)
Callback(args, asStrings) ==
  /\ TopIs({"js"})
  /\ FromValues(args, asStrings)
  /\ Push(Holding("args", args))
  /\ UNCHANGED <<objectVars, queued, lost, accepting>>

(* Mutant: the first of the remaining arguments is forgotten.              *)
ReleaseAfterNext ==
  /\ TopIs({"args"})
  /\ Free(IF Top.pending = <<>> THEN {} ELSE ToSet(Tail(Top.pending)))
  /\ Become(Plain("dotnet"))
  /\ UNCHANGED <<strings, objectVars, queued, lost, accepting>>

(* Arguments the delegate does not take are released, all of them if there *)
(* are too few. Then the delegate runs.                                    *)
ReleaseRemainingArgs ==
  /\ TopIs({"args"})
  /\ Free(ToSet(Top.pending))
  /\ Become(Plain("dotnet"))
  /\ UNCHANGED <<strings, objectVars, queued, lost, accepting>>

-----------------------------------------------------------------------------
(* TryGetObject of the next pending handle: an argument, a result or an    *)
(* element of an array. An object is wrapped and given to the application, *)
Converting == TopIs({"args", "result"}) /\ Top.pending # <<>>
Next1 == Head(Top.pending)

KeepObject ==
  /\ Converting
  /\ Next1 \notin strings
  /\ wrapped' = wrapped \cup {Next1}
  /\ reachable' = reachable \cup {Next1}
  /\ Become([Top EXCEPT !.pending = Tail(@)])
  /\ UNCHANGED <<nativeVars, strings, disposed, queued, lost, accepting>>

(* or converted by value, and disposed. A string is read and released.     *)
ReadValue ==
  /\ Converting
  /\ Free({Next1})
  /\ IF Next1 \in strings THEN UNCHANGED <<wrapped, disposed>>
     ELSE wrapped' = wrapped \cup {Next1} /\ disposed' = disposed \cup {Next1}
  /\ Become([Top EXCEPT !.pending = Tail(@)])
  /\ UNCHANGED <<strings, reachable, queued, lost, accepting>>

(* The conversion throws, or the cast of an argument does: the wrapper is  *)
(* left to the finalizer, and nobody releases the handles behind it.       *)
ConversionThrows ==
  /\ Converting
  /\ IF Next1 \in strings THEN Free({Next1}) /\ UNCHANGED wrapped
     ELSE wrapped' = wrapped \cup {Next1} /\ UNCHANGED nativeVars
  /\ lost' = lost \cup ToSet(Tail(Top.pending))
  /\ Pop
  /\ UNCHANGED <<strings, disposed, reachable, queued, accepting>>

(* An element without a handle cannot be converted: TryConvertToArray      *)
(* throws.                                                                 *)
ElementThrows ==
  /\ Converting /\ Top.kind = "result"
  /\ lost' = lost \cup ToSet(Top.pending)
  /\ Pop
  /\ UNCHANGED <<nativeVars, strings, objectVars, queued, accepting>>

(* All is converted: the application goes on.                              *)
ResultDone ==
  /\ TopIs({"result"})
  /\ Top.pending = <<>>
  /\ Pop
  /\ UNCHANGED <<nativeVars, strings, objectVars, queued, lost, accepting>>

-----------------------------------------------------------------------------
Usable == reachable \cup {None}

(* A member is read or set, an object invoked or converted: CheckDisposed, *)
(* then a native call. The arguments are not checked.                      *)
Call(o, args) ==
  /\ TopIs({"dotnet"})
  /\ o \notin disposed
  /\ Push(Frame("native", o, args, TRUE, <<>>))
  /\ UNCHANGED <<nativeVars, strings, objectVars, queued, lost, accepting>>

CreateNewInstance(o, args) ==
  /\ TopIs({"dotnet"})
  /\ Push(Frame("native", o, args, FALSE, <<>>))
  /\ UNCHANGED <<nativeVars, strings, objectVars, queued, lost, accepting>>

(* The handles have been read: JavaScript runs.                            *)
EnterJs ==
  /\ TopIs({"native"})
  /\ Become([Top EXCEPT !.kind = "js"])
  /\ UNCHANGED <<nativeVars, strings, objectVars, queued, lost, accepting>>

(* JavaScript returns to .NET a value, or an error as a string.            *)
CallReturns(hs, asStrings) ==
  /\ TopIs({"js"}) /\ Len(stack) > 1
  /\ Top.pending = <<>>
  /\ Len(hs) <= 1
  /\ FromValues(hs, asStrings)
  /\ Become(Holding("result", hs))
  /\ UNCHANGED <<objectVars, queued, lost, accepting>>

(* GetArrayValues keeps the value and reads the next element of the same   *)
(* object,                                                                 *)
NextElement(hs, asStrings) ==
  /\ TopIs({"js"}) /\ Len(stack) > 1
  /\ Top.self # None /\ Top.args = {}
  /\ Len(Top.pending) + Len(hs) <= MaxArgs
  /\ Len(hs) = 1
  /\ FromValues(hs, asStrings)
  /\ Become(Frame("native", Top.self, {}, FALSE, Top.pending \o hs))
  /\ UNCHANGED <<objectVars, queued, lost, accepting>>

(* and hands over all of them at the end.                                  *)
ArrayReturns ==
  /\ TopIs({"js"}) /\ Len(stack) > 1
  /\ Top.pending # <<>>
  /\ Become(Holding("result", Top.pending))
  /\ UNCHANGED <<nativeVars, strings, objectVars, queued, lost, accepting>>

Return ==
  /\ TopIs({"dotnet"}) \/ (TopIs({"js"}) /\ Len(stack) = 1)
  /\ Pop
  /\ UNCHANGED <<nativeVars, strings, objectVars, queued, lost, accepting>>

-----------------------------------------------------------------------------
(* Dispose in the context: the first call releases at once.                *)
Dispose(o) ==
  /\ TopIs({"dotnet"})
  /\ o \in reachable \ disposed
  /\ disposed' = disposed \cup {o}
  /\ Free({o})
  /\ UNCHANGED <<strings, wrapped, reachable, queued, lost, stack, accepting>>

(* Dispose on another thread.                                              *)
DisposeElsewhere(o) ==
  /\ o \in reachable \ disposed
  /\ disposed' = disposed \cup {o}
  /\ ReleaseLater(o)
  /\ UNCHANGED <<strings, wrapped, reachable, stack, accepting>>

(* The application drops its last reference, perhaps while a call that was *)
(* given a copy of the handle is running.                                  *)
Forget(o) ==
  /\ o \in reachable
  /\ reachable' = reachable \ {o}
  /\ UNCHANGED <<nativeVars, strings, wrapped, disposed, queued, lost, stack, accepting>>

(* The finalizer, which Dispose has suppressed or beaten.                  *)
FinalizeObject(o) ==
  /\ o \in wrapped \ (reachable \cup disposed)
  /\ disposed' = disposed \cup {o}
  /\ ReleaseLater(o)
  /\ UNCHANGED <<strings, wrapped, reachable, stack, accepting>>

(* Context::Close, on JavaScript only: waiting tasks are dropped.          *)
Close ==
  /\ accepting
  /\ TopIs({"js"}) /\ Len(stack) = 1
  /\ accepting' = FALSE
  /\ lost' = lost \cup queued
  /\ queued' = {}
  /\ UNCHANGED <<nativeVars, strings, objectVars, stack>>

-----------------------------------------------------------------------------
Values(n) == UNION {[1..k -> Handles] : k \in 0..n}

ObjectStep(o) ==
  \/ DisposeElsewhere(o) \/ Forget(o) \/ FinalizeObject(o)
  \/ Dispose(o) \/ RunReleaseTask(o)

FrameEnds ==
  \/ Return \/ ResultDone \/ ConversionThrows \/ ElementThrows

FrameStep ==
  \/ FrameEnds \/ ReleaseRemainingArgs \/ KeepObject \/ ReadValue
  \/ EnterJs \/ ArrayReturns

Next ==
  \/ FrameStep \/ Close
  \/ Turn("js") \/ Turn("dotnet")
  \/ \E hs \in Values(MaxArgs) : \E asStrings \in SUBSET ToSet(hs) :
       Callback(hs, asStrings) \/ CallReturns(hs, asStrings) \/ NextElement(hs, asStrings)
  \/ \E o \in Usable : \E args \in {{}} \cup {{a} : a \in reachable} :
       Call(o, args) \/ (o # None /\ CreateNewInstance(o, args))
  \/ \E o \in Handles : ObjectStep(o)

(* Code that runs returns: a frame at each depth goes on if it can again   *)
(* and again; the event loop gets to a release task (NodeScheduler's       *)
(* EveryTaskRuns). The finalizer is not obliged to run.                    *)
Progress ==
  \/ Return \/ ResultDone \/ ReleaseRemainingArgs \/ KeepObject \/ ReadValue
  \/ EnterJs \/ ArrayReturns \/ CallReturns(<<>>, {})

Fairness ==
  /\ \A d \in 1..MaxDepth : SF_vars(Len(stack) = d /\ Progress)
  /\ \A h \in Handles : SF_vars(RunReleaseTask(h))

Spec == Init /\ [][Next]_vars
FairSpec == Spec /\ Fairness

-----------------------------------------------------------------------------
Frames == [kind : {"js", "args", "dotnet", "native", "result"},
           self : Handles \cup {None}, args : SUBSET Handles,
           checked : BOOLEAN, pending : Seq(Handles)]

(* The types; strings are never wrapped.                                   *)
TypeOK ==
  /\ ref \in [Handles -> {"none", "live", "freed"}]
  /\ frees \in [Handles -> Nat]
  /\ strings \subseteq Handles /\ wrapped \subseteq Handles \ strings
  /\ disposed \subseteq wrapped /\ reachable \subseteq wrapped
  /\ queued \subseteq disposed /\ lost \subseteq Handles
  /\ stack \in Seq(Frames)
  /\ accepting \in BOOLEAN

Slots(h) == {s \in (DOMAIN stack) \X (1..MaxArgs) :
               s[2] \in DOMAIN stack[s[1]].pending /\ stack[s[1]].pending[s[2]] = h}
Count(condition) == IF condition THEN 1 ELSE 0

(* Every allocation has exactly one owner at any time: one frame that will *)
(* convert or release it, an object not yet disposed, a waiting release    *)
(* task; or it is one of those the code is known to lose. What is freed    *)
(* has none, and was deleted once, by Dispose, the finalizer, a conversion *)
(* or a task. (TryGetObject, ReleaseRemainingArgs, Dispose's               *)
(* Interlocked.Exchange and SuppressFinalize, Release.)                    *)
OneOwner ==
  /\ TypeOK
  /\ \A h \in Handles :
       /\ Cardinality(Slots(h)) + Count(h \in wrapped \ disposed) + Count(h \in queued)
            + Count(h \in lost) = Count(ref[h] = "live")
       /\ frees[h] = Count(ref[h] = "freed")

(* A call that has passed CheckDisposed reads a live handle, even if       *)
(* another thread disposes the object, or the collector finalizes it,      *)
(* meanwhile. (CheckDisposed, Release.)                                    *)
CheckedReadsAreLive ==
  TopIs({"native"}) /\ Top.checked /\ Top.self # None => ref[Top.self] = "live"

(* Only closing and exceptions of conversions lose handles; an object that *)
(* is disposed is released, unless the runtime closes. (Release.)          *)
DisposedIsReleased ==
  \A h \in Handles : h \in disposed ~> (ref[h] = "freed" \/ ~accepting)

=============================================================================
