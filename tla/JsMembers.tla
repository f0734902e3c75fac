------------------------------ MODULE JsMembers ------------------------------
(***************************************************************************)
(* A member of a JavaScript object that .NET calls, constructs, reads and  *)
(* writes through IJSRuntime (class JSObject, wrapJSCallAsFunction and the *)
(* checks of Microsoft.JSInterop.ts). What to do is worked out at the      *)
(* first call of a kind and kept in _cachedHandlers; meanwhile the page    *)
(* may define, freeze or delete the member, on the object or on one of its *)
(* prototypes.                                                             *)
(*                                                                         *)
(* One object and one member. Of an identifier with dots, this is the last *)
(* object on its path; a handler keeps that object too, so that a path     *)
(* that leads elsewhere later is not followed again. JavaScript's own      *)
(* rules (OrdinaryGet, OrdinarySet in strict mode) are written as a        *)
(* reference, beside what the code asks before it relies on them.          *)
(***************************************************************************)
EXTENDS Naturals, FiniteSets

CONSTANTS
  ChainLength,  \* the object and its prototypes
  Functions,    \* values that are functions
  Data,         \* values that are not
  Missing       \* no descriptor, no value, no handler

VARIABLES
  own,             \* the descriptor at each place of the prototype chain, 1 first
  extensible,      \* of the object
  stored,          \* what the member's accessors read and write
  cachedHandlers,  \* _cachedHandlers: what is kept for each kind of call
  outcome          \* of the last call

memberVars == <<own, extensible, stored, cachedHandlers, outcome>>

Values == Functions \cup Data
Descriptors ==
  [kind : {"data"}, value : Values, writable : BOOLEAN]
    \cup [kind : {"accessor"}, get : BOOLEAN, set : BOOLEAN]
CallTypes == {"FunctionCall", "ConstructorCall", "GetValue", "SetValue"}

ASSUME MemberAssumption ==
  /\ ChainLength \in Nat \ {0} /\ Functions \cap Data = {}
  /\ Missing \notin Values \cup Descriptors \cup CallTypes

DataOf(v) == [kind |-> "data", value |-> v, writable |-> TRUE]
NoCall == [callType |-> Missing, fresh |-> FALSE, threw |-> FALSE, value |-> Missing]

-----------------------------------------------------------------------------
(* JavaScript: the first place of the chain that has the member decides.   *)
In(O) == {l \in 1 .. ChainLength : O[l] # Missing}
First(O) == CHOOSE l \in In(O) : \A k \in In(O) : l <= k

Get(O) ==
  IF In(O) = {} THEN Missing
  ELSE LET d == O[First(O)] IN
       IF d.kind = "data" THEN d.value ELSE IF d.get THEN stored ELSE Missing

(* Whether an assignment succeeds; one that finds the member on a          *)
(* prototype, or not at all, gives the object a member of its own.         *)
CanSet(O) ==
  IF In(O) = {} THEN extensible
  ELSE LET d == O[First(O)] IN
       IF d.kind = "data" THEN d.writable /\ (First(O) = 1 \/ extensible) ELSE d.set

Set(v) ==
  IF In(own) # {} /\ own[First(own)].kind = "accessor"
  THEN stored' = v /\ UNCHANGED own
  ELSE own' = [own EXCEPT ![1] = DataOf(v)] /\ UNCHANGED stored

-----------------------------------------------------------------------------
(* The code's checks walk up the chain themselves.                         *)
isReadableProperty ==
  IF In(own) = {} THEN FALSE
  ELSE LET d == own[First(own)] IN IF d.kind = "data" THEN TRUE ELSE d.get

(* Mutant: prototypes are not asked.                                       *)
isWritableOwn ==
  IF own[1] = Missing THEN extensible
  ELSE IF own[1].kind = "data" THEN own[1].writable ELSE own[1].set

isWritableProperty ==
  IF In(own) = {} THEN extensible
  ELSE LET d == own[First(own)] IN IF d.kind = "data" THEN d.writable ELSE d.set

(* What wrapJSCallAsFunction needs before it makes a handler.              *)
Allowed(callType) ==
  CASE callType = "GetValue" -> isReadableProperty
    [] callType = "SetValue" -> isWritableProperty
    [] OTHER -> Get(own) \in Functions

(* The handler: a function is bound, reading and writing look again.       *)
wrapJSCallAsFunction(callType) ==
  IF callType \in {"GetValue", "SetValue"} THEN callType ELSE Get(own)

Outcome(callType, threw, value) ==
  outcome' = [callType |-> callType, fresh |-> cachedHandlers[callType] = Missing,
              threw |-> threw, value |-> value]

(* Running a handler with the argument v.                                  *)
Run(callType, handler, v) ==
  IF callType # "SetValue"
  THEN /\ Outcome(callType, FALSE, IF handler = "GetValue" THEN Get(own) ELSE handler)
       /\ UNCHANGED <<own, stored>>
  ELSE IF CanSet(own) THEN Set(v) /\ Outcome(callType, FALSE, v)
  ELSE Outcome(callType, TRUE, Missing) /\ UNCHANGED <<own, stored>>

(* invokeJSFromDotNet, beginInvokeJSFromDotNet: resolveInvocationHandler,  *)
(* addHandlerToCache and the call.                                         *)
Call(callType, v) ==
  /\ UNCHANGED extensible
  /\ \/ /\ cachedHandlers[callType] # Missing
        /\ Run(callType, cachedHandlers[callType], v)
        /\ UNCHANGED cachedHandlers
     \/ /\ cachedHandlers[callType] = Missing /\ Allowed(callType)
        /\ cachedHandlers' = [cachedHandlers EXCEPT ![callType] = wrapJSCallAsFunction(callType)]
        /\ Run(callType, cachedHandlers'[callType], v)
     \/ /\ cachedHandlers[callType] = Missing /\ ~Allowed(callType)
        /\ Outcome(callType, TRUE, Missing)
        /\ UNCHANGED <<own, stored, cachedHandlers>>

-----------------------------------------------------------------------------
(* The page changes the member.                                            *)
Define(l, d) ==
  /\ d # own[l] /\ (l = 1 /\ own[1] = Missing => extensible)
  /\ own' = [own EXCEPT ![l] = d]
  /\ outcome' = NoCall
  /\ UNCHANGED <<extensible, stored, cachedHandlers>>

preventExtensions ==
  /\ extensible /\ extensible' = FALSE
  /\ outcome' = NoCall
  /\ UNCHANGED <<own, stored, cachedHandlers>>

MemberInit ==
  /\ own = [l \in 1 .. ChainLength |-> Missing] /\ extensible = TRUE
  /\ stored \in Data
  /\ cachedHandlers = [t \in CallTypes |-> Missing] /\ outcome = NoCall

MemberNext ==
  \/ \E t \in CallTypes, v \in Data : Call(t, v)
  \/ \E l \in 1 .. ChainLength, d \in Descriptors \cup {Missing} : Define(l, d)
  \/ preventExtensions

MemberSpec == MemberInit /\ [][MemberNext]_memberVars

-----------------------------------------------------------------------------
(* The first call of a kind is refused exactly when JavaScript itself has  *)
(* nothing to do for it, wherever on the chain the member is and whatever  *)
(* became of the object: no function to call, nothing to read, no way to   *)
(* write. What is read is what the member holds now, however long its      *)
(* handler has been kept, and what was written is there to be read unless  *)
(* only a setter knows. (isReadableProperty, isWritableProperty,           *)
(* wrapJSCallAsFunction, the handlers of GetValue and SetValue.)           *)
CallsFollowTheMember ==
  [][/\ outcome'.fresh =>
          (outcome'.threw <=>
             CASE outcome'.callType = "SetValue" -> ~CanSet(own)
               [] outcome'.callType = "GetValue" ->
                    In(own) = {} \/ (own[First(own)].kind = "accessor" /\ ~own[First(own)].get)
               [] OTHER -> Get(own) \notin Functions)
     /\ outcome'.callType = "GetValue" /\ ~outcome'.threw => outcome'.value = Get(own)
     /\ outcome'.callType = "SetValue" /\ ~outcome'.threw =>
          Get(own)' = outcome'.value \/ own'[First(own')].kind = "accessor"]_memberVars
=============================================================================
