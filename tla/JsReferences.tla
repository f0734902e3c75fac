---------------------------- MODULE JsReferences ----------------------------
(***************************************************************************)
(* References between the two sides (Microsoft.JSInterop.ts,               *)
(* ElectronJSRuntime.cs). cachedJSObjectsById keeps the JavaScript objects *)
(* that .NET knows by id. A reference is made when JavaScript answers a    *)
(* call with one or wants to hand one to .NET, and given up by either side *)
(* while calls that name it are under way. .NET may give up a call, too:   *)
(* its answer then finds nobody.                                           *)
(*                                                                         *)
(* External: JSRuntime and JSObjectReference of .NET, which drop the       *)
(* answer of a cancelled call, write the id of a disposed reference like   *)
(* any other, and dispose a reference once.  Left out: byte arrays         *)
(* (JsCallQueue has them), the handlers kept for each object (JsMembers),  *)
(* void and plain results, a second hand-over of an id to .NET, and who is *)
(* told of what a failing answer throws (JsCallQueue has it).              *)
(***************************************************************************)
EXTENDS Naturals

CONSTANTS
  Objects,    \* JavaScript objects
  MaxReferences,  \* bound: references made
  Requests,   \* bound: asynchronous calls .NET makes
  Calls,      \* bound: calls JavaScript makes
  Gone        \* no object

ASSUME ReferenceAssumption == MaxReferences \in Nat /\ Gone \notin Objects

ReferenceIds == 1 .. MaxReferences

VARIABLES
  cachedJSObjectsById,
  nextJsObjectId,
  meant,      \* the object each id was made for
  jsOwns,     \* ids JavaScript made and has neither disposed nor handed on
  handed,     \* those it handed to .NET, and may still dispose
  recalled,   \* those it then disposed
  netOwns,    \* ids of .NET's references that are not disposed
  netKnew,    \* ids .NET has been given
  ask,        \* .NET's calls: "none", "open", "answering", "answered", "failed"
  answer,     \* the reference that answers each, 0 for none
  cancelled,  \* those .NET no longer waits for
  orphans,    \* ids of answers that found nobody
  call,       \* JavaScript's calls: "none", "open", "begun", "answered", "failed"
  threw,      \* completing a call threw
  frozen      \* ... inside the call queue, which stops

tableVars == <<cachedJSObjectsById, nextJsObjectId, meant>>
jsVars == <<jsOwns, handed, recalled>>
ownerVars == <<jsVars, netOwns, netKnew, orphans>>
askVars == <<ask, answer, cancelled>>
callState == <<call, threw, frozen>>
referenceVars == <<tableVars, ownerVars, askVars, callState>>

ReferenceInit ==
  /\ cachedJSObjectsById = [i \in ReferenceIds |-> Gone] /\ nextJsObjectId = 1
  /\ meant = [i \in ReferenceIds |-> Gone]
  /\ jsOwns = {} /\ handed = {} /\ recalled = {} /\ netOwns = {} /\ netKnew = {} /\ orphans = {}
  /\ ask = [a \in Requests |-> "none"] /\ answer = [a \in Requests |-> 0] /\ cancelled = {}
  /\ call = [c \in Calls |-> "none"] /\ threw = {} /\ frozen = FALSE

(* Ids are not reused. createJSStreamReference makes one in the same way.  *)
createJSObjectReference(o) ==
  /\ nextJsObjectId <= MaxReferences
  /\ cachedJSObjectsById' = [cachedJSObjectsById EXCEPT ![nextJsObjectId] = o]
  /\ meant' = [meant EXCEPT ![nextJsObjectId] = o]
  /\ nextJsObjectId' = nextJsObjectId + 1

(* Mutant: the last id is given again.                                     *)
ReuseId(i) ==
  /\ cachedJSObjectsById' = [cachedJSObjectsById EXCEPT ![i] = Gone]
  /\ nextJsObjectId' = i /\ UNCHANGED meant

disposeJSObjectReferenceById(i) ==
  /\ cachedJSObjectsById' = [cachedJSObjectsById EXCEPT ![i] = Gone]
  /\ UNCHANGED <<nextJsObjectId, meant>>

(* reviveReference, of a whole argument or result: each id has an object.  *)
Revives(ids) == \A i \in ids : cachedJSObjectsById[i] # Gone

InTransit == {answer[a] : a \in {b \in Requests : ask[b] = "answering"}}

-----------------------------------------------------------------------------
(* JavaScript's own use of references.                                     *)
Create(o) ==
  /\ createJSObjectReference(o)
  /\ jsOwns' = jsOwns \cup {nextJsObjectId}
  /\ UNCHANGED <<handed, recalled, netOwns, netKnew, orphans, askVars, callState>>

disposeJSObjectReference(i) ==
  /\ i \in jsOwns \cup handed
  /\ disposeJSObjectReferenceById(i)
  /\ jsOwns' = jsOwns \ {i} /\ handed' = handed \ {i}
  /\ recalled' = IF i \in handed THEN recalled \cup {i} ELSE recalled
  /\ UNCHANGED <<netOwns, netKnew, orphans, askVars, callState>>

(* An argument of a call of JavaScript's: .NET makes a reference of it.    *)
Hand(i) ==
  /\ i \in jsOwns
  /\ jsOwns' = jsOwns \ {i} /\ handed' = handed \cup {i}
  /\ netOwns' = netOwns \cup {i} /\ netKnew' = netKnew \cup {i}
  /\ UNCHANGED <<tableVars, recalled, orphans, askVars, callState>>

-----------------------------------------------------------------------------
(* .NET calls JavaScript: invokeJSFromDotNet answers at once; the function *)
(* and the arguments are found by ids, which .NET may have disposed.       *)
InvokeJS(ids, o) ==
  /\ Revives(ids)
  /\ createJSObjectReference(o)
  /\ netOwns' = netOwns \cup {nextJsObjectId} /\ netKnew' = netKnew \cup {nextJsObjectId}
  /\ UNCHANGED <<jsVars, orphans, askVars, callState>>

(* beginInvokeJSFromDotNet: what the revival throws fails the promise.     *)
BeginInvokeJS(a, ids) ==
  /\ ask[a] = "none"
  /\ ask' = [ask EXCEPT ![a] = IF Revives(ids) THEN "open" ELSE "failed"]
  /\ UNCHANGED <<tableVars, ownerVars, answer, cancelled, callState>>

(* The promise is fulfilled: createJSCallResult, and the answer sets out;  *)
(* or it is rejected.                                                      *)
Fulfil(a, o) ==
  /\ ask[a] = "open"
  /\ createJSObjectReference(o)
  /\ ask' = [ask EXCEPT ![a] = "answering"] /\ answer' = [answer EXCEPT ![a] = nextJsObjectId]
  /\ UNCHANGED <<ownerVars, cancelled, callState>>

Reject(a) ==
  /\ ask[a] = "open"
  /\ ask' = [ask EXCEPT ![a] = "failed"]
  /\ UNCHANGED <<tableVars, ownerVars, answer, cancelled, callState>>

(* The application's token or the time-out of the call.                    *)
Cancel(a) ==
  /\ ask[a] \in {"open", "answering"} /\ a \notin cancelled
  /\ cancelled' = cancelled \cup {a}
  /\ UNCHANGED <<tableVars, ownerVars, ask, answer, callState>>

(* The answer becomes a reference of .NET's.                               *)
TakeAnswer(a) ==
  IF a \in cancelled
  THEN orphans' = orphans \cup {answer[a]} /\ UNCHANGED <<netOwns, netKnew>>
  ELSE netOwns' = netOwns \cup {answer[a]} /\ netKnew' = netKnew \cup {answer[a]} /\ UNCHANGED orphans

EndInvokeJS(a) ==
  /\ ask[a] = "answering" /\ ~frozen
  /\ TakeAnswer(a)
  /\ ask' = [ask EXCEPT ![a] = "answered"]
  /\ UNCHANGED <<tableVars, jsVars, answer, cancelled, callState>>

(* A reference of .NET's calls JavaScript to forget the object.            *)
DisposeAsync(i) ==
  /\ i \in netOwns
  /\ disposeJSObjectReferenceById(i)
  /\ netOwns' = netOwns \ {i}
  /\ UNCHANGED <<jsVars, netKnew, orphans, askVars, callState>>

-----------------------------------------------------------------------------
(* JavaScript calls .NET, which begins when the queue lets it.             *)
Step(c, from, to) ==
  /\ call[c] = from
  /\ call' = [call EXCEPT ![c] = to]
  /\ UNCHANGED <<tableVars, ownerVars, askVars, threw, frozen>>

invokeDotNetMethodAsync(c) == Step(c, "none", "open")
BeginInvokeDotNet(c) == ~frozen /\ Step(c, "open", "begun")

(* The method failed: no result to revive.                                 *)
EndWithError(c) == c \notin threw /\ Step(c, "begun", "failed")

(* EndInvokeDotNet, endInvokeDotNetFromJS: the result is revived before    *)
(* the call is completed. queued: the method returned while the queue was  *)
(* running the call; otherwise a task ended later, and nobody sees what is *)
(* thrown.                                                                 *)
EndInvokeDotNet(c, ids, queued) ==
  /\ call[c] = "begun" /\ c \notin threw /\ (queued => ~frozen)
  /\ \/ /\ Revives(ids)
        /\ call' = [call EXCEPT ![c] = "answered"]
        /\ UNCHANGED <<threw, frozen>>
     \/ /\ ~Revives(ids)
        /\ threw' = threw \cup {c}
        /\ frozen' = (frozen \/ queued)
        /\ UNCHANGED call
  /\ UNCHANGED <<tableVars, ownerVars, askVars>>

AtMostOne(S) == {{}} \cup {{i} : i \in S}

ReferenceNext ==
  \/ \E o \in Objects : Create(o) \/ \E ids \in AtMostOne(netKnew) : InvokeJS(ids, o)
  \/ \E i \in ReferenceIds : disposeJSObjectReference(i) \/ Hand(i) \/ DisposeAsync(i)
  \/ \E a \in Requests :
       \/ \E ids \in AtMostOne(netKnew) : BeginInvokeJS(a, ids)
       \/ \E o \in Objects : Fulfil(a, o)
       \/ Reject(a) \/ Cancel(a) \/ EndInvokeJS(a)
  \/ \E c \in Calls :
       \/ invokeDotNetMethodAsync(c) \/ BeginInvokeDotNet(c) \/ EndWithError(c)
       \/ \E ids \in AtMostOne(netKnew), queued \in BOOLEAN :
            EndInvokeDotNet(c, ids, queued)

ReferenceSpec == ReferenceInit /\ [][ReferenceNext]_referenceVars

-----------------------------------------------------------------------------
(* Each object in the table is there for someone who can give it up: one   *)
(* of JavaScript's own references or one of .NET's, an answer on its way,  *)
(* or (the only leak) the answer to a call that .NET had given up. Each of *)
(* these finds in the table the object it was made for, unless JavaScript  *)
(* has taken it back, and no id belongs to two of them. (createJSObject-   *)
(* Reference to disposeJSObjectReferenceById, through EndInvokeJS.)        *)
ReferencesAccounted ==
  /\ {i \in ReferenceIds : cachedJSObjectsById[i] # Gone} =
       (jsOwns \cup netOwns \cup InTransit \cup orphans) \ recalled
  /\ \A i \in ReferenceIds : cachedJSObjectsById[i] \in {Gone, meant[i]}
  /\ orphans \cap (netKnew \cup InTransit) = {} /\ InTransit \cap netKnew = {}
  /\ jsOwns \cap (netOwns \cup InTransit \cup orphans) = {}
  /\ \A i \in orphans : \E a \in cancelled : ask[a] = "answered" /\ answer[a] = i

(* "This is not expected to throw, as it takes care of converting any      *)
(* unhandled user code exceptions into a failure on the JS Promise object" *)
(* (ElectronJSRuntime.cs:102, of BeginInvokeDotNet in the call queue).     *)
BeginInvokeDoesNotThrow == ~frozen
=============================================================================
