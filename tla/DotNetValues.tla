---------------------------- MODULE DotNetValues ----------------------------
(***************************************************************************)
(* Values passed from .NET to JavaScript, and who releases them            *)
(* (InProcess/DotNetValue.cs, NativeHost/NativeNodeHost.cs,                *)
(* dotnethandle.h, context.cc).                                            *)
(*                                                                         *)
(* FromObject makes a DotNetValue, which native code converts and          *)
(* releases.  A string, an array of bytes, native memory or a JsHandle is  *)
(* a block that is copied and released on the spot.  A delegate is kept in *)
(* _registry under its function pointer until the JavaScript function made *)
(* of it is collected, or the Context is deleted.  A collection is its     *)
(* elements and the block that holds them; numbers need no release.        *)
(*                                                                         *)
(* Native calls convert their values without a break, so one is under way  *)
(* at a time; only finalizers and other threads come between.  Tasks are   *)
(* in TaskPromise.                                                         *)
(***************************************************************************)
EXTENDS Naturals, Sequences, FiniteSets, SequencesExt

CONSTANTS
  Pointers,   (* function pointers; bound: delegates alive at a time        *)
  Blocks,     (* bound: blocks alive at a time                              *)
  MaxValues   (* bound: values of one call                                  *)

ASSUME ValuesAssumption == Pointers \cap Blocks = {} /\ MaxValues \in Nat

VARIABLES
  registry,    (* _registry: the pointers whose CallbackHolder is kept      *)
  blocks,      (* blocks allocated, with the GCHandle each pins             *)
  op,          (* the native call that converts values, or "none"           *)
  passing,     (* the values it must still convert and release              *)
  thrown,      (* a JavaScript exception is pending                       *)
  functions,   (* the JavaScript function made of a pointer                 *)
  finalizers,  (* function_finalizers_: their data has a context            *)
  alive,       (* the Context is not deleted                                *)
  adding,      (* another thread is in MarshallCallback                     *)
  leaked,      (* what nobody will release                                  *)
  raced        (* pointers whose entry two threads worked on at once        *)

dotnetVars == <<registry, blocks>>
callVars == <<op, passing, thrown>>
jsVars == <<functions, finalizers, alive>>
raceVars == <<adding, raced>>
valuesVars == <<dotnetVars, callVars, jsVars, raceVars, leaked>>

Value(kind, ids) == [kind : {kind}, id : ids]
DotNetValue ==
  Value("function", Pointers) \cup Value("block", Blocks) \cup Value("exception", Blocks)

Ids(vs) == {vs[i].id : i \in DOMAIN vs}

ValuesInit ==
  /\ registry = {} /\ blocks = {}
  /\ op = "none" /\ passing = <<>> /\ thrown = FALSE
  /\ functions = [p \in Pointers |-> "none"]
  /\ finalizers = {}
  /\ alive = TRUE
  /\ adding = FALSE /\ raced = {}
  /\ leaked = {}

-----------------------------------------------------------------------------
(* _registry is a plain Dictionary: an access while another thread is      *)
(* inside one may get lost.  A pointer it happens to is not used again.    *)
MayBeLost(ps) == IF adding THEN SUBSET ps ELSE {{}}

Add(ps) ==
  \E l \in MayBeLost(ps) : registry' = registry \cup (ps \ l) /\ raced' = raced \cup l

ReleaseCallback(ps) ==
  \E l \in MayBeLost(ps) : registry' = registry \ (ps \ l) /\ raced' = raced \cup l

(* A pointer names a delegate made for one holder; it comes back when the  *)
(* holder is gone.                                                         *)
Fresh(vs) ==
  /\ \A i, j \in DOMAIN vs : vs[i].id = vs[j].id => i = j
  /\ Ids(vs) \cap (registry \cup raced \cup blocks) = {}

(* FromObject of one value after another.                                  *)
Marshal(vs) ==
  /\ Fresh(vs)
  /\ Add(Ids(vs) \cap Pointers)
  /\ blocks' = blocks \cup (Ids(vs) \cap Blocks)

(* ToValue, then Release.  CreateFunction keeps the release for the        *)
(* function's finalizer; if an exception is pending it makes the data of   *)
(* the finalizer but no function.  An exception is thrown, except where    *)
(* CompletePromise rejects with it.                                        *)
Convert(v) ==
  /\ CASE v.kind = "function" ->
            /\ finalizers' = finalizers \cup {v.id}
            /\ functions' = IF thrown THEN functions
                            ELSE [functions EXCEPT ![v.id] = "live"]
            /\ UNCHANGED <<blocks, thrown>>
       [] v.kind \in {"block", "exception"} ->
            /\ blocks' = blocks \ {v.id}
            /\ thrown' = (thrown \/ (v.kind = "exception" /\ op # "reject"))
            /\ UNCHANGED <<finalizers, functions>>
  /\ UNCHANGED <<registry, raced>>

-----------------------------------------------------------------------------
(* A native call gets its values.  A collection is the one argument: its   *)
(* block comes after the elements, as it is released last.                 *)
Begin(name, vs) ==
  /\ op = "none" /\ alive
  /\ Marshal(vs)
  /\ op' = name
  /\ passing' = vs
  /\ UNCHANGED <<thrown, jsVars, adding, leaked>>

Single(vs) == Len(vs) = 1
Collection(vs) == vs # <<>> /\ Last(vs).kind = "block"

SetMember(vs) == (Single(vs) \/ Collection(vs)) /\ Begin("set", vs)
CreateObject(vs) == Begin("create", vs)
Invoke(vs) == Begin("invoke", vs)

(* A callback returns: its result is converted for JavaScript.             *)
CallbackReturns(vs) == (Single(vs) \/ Collection(vs)) /\ Begin("result", vs)

CompletePromise(vs) ==
  \/ (Single(vs) \/ Collection(vs)) /\ Begin("resolve", vs)
  \/ Single(vs) /\ vs[1].kind = "exception" /\ Begin("reject", vs)

(* Values that nobody converts: a later one cannot be converted, which     *)
(* frees only the block of the collection; the managed side refuses the    *)
(* thread, or native code the object or the function; CreateObject has no  *)
(* constructor, or InvokeIntern finds an exception pending.                *)
Refused(vs) ==
  /\ op = "none" /\ alive
  /\ Marshal(vs)
  /\ leaked' = leaked \cup Ids(vs)
  /\ thrown' \in {thrown, FALSE}
  /\ UNCHANGED <<op, passing, jsVars, adding>>

ConvertNext ==
  /\ passing # <<>>
  /\ Convert(Head(passing))
  /\ passing' = Tail(passing)
  /\ UNCHANGED <<op, alive, adding, leaked>>

(* The call is made and its error taken from the environment, by           *)
(* InvokeIntern or by the JavaScript that called; SetMember, CreateObject  *)
(* and CompletePromise leave it there.                                     *)
End ==
  /\ op # "none" /\ passing = <<>>
  /\ op' = "none"
  /\ thrown' = (thrown /\ op \notin {"invoke", "result"})
  /\ UNCHANGED <<dotnetVars, passing, jsVars, raceVars, leaked>>

(* Another thread passes a delegate: MarshallCallback adds it before       *)
(* CheckInContext throws.  Nobody will call it, so it makes no difference  *)
(* whether its own entry survives.                                         *)
AddElsewhere ==
  /\ ~adding /\ alive
  /\ adding' = TRUE
  /\ UNCHANGED <<dotnetVars, callVars, jsVars, raced, leaked>>

RefusedElsewhere(p) ==
  /\ adding
  /\ Fresh(<<[kind |-> "function", id |-> p]>>)
  /\ adding' = FALSE
  /\ registry' = registry \cup {p}
  /\ leaked' = leaked \cup {p}
  /\ UNCHANGED <<blocks, callVars, jsVars, raced>>

-----------------------------------------------------------------------------
(* JavaScript drops its last reference; arguments are held by their call.  *)
Drop(p) ==
  /\ op = "none" /\ alive
  /\ functions[p] = "live"
  /\ functions' = [functions EXCEPT ![p] = "garbage"]
  /\ UNCHANGED <<dotnetVars, callVars, finalizers, alive, raceVars, leaked>>

(* Mutant: Cancel leaves the data its context.                             *)
CancelAndKeep == ReleaseCallback(finalizers) /\ UNCHANGED finalizers

Cancel == ReleaseCallback(finalizers) /\ finalizers' = {}

(* ~Context cancels all finalizers, which releases their delegates.        *)
DeleteContext ==
  /\ alive /\ op = "none"
  /\ alive' = FALSE
  /\ Cancel
  /\ UNCHANGED <<blocks, callVars, functions, adding, leaked>>

(* The finalizer of a function: Call releases, unless it was cancelled. An *)
(* environment that is torn down finalizes everything, some functions after*)
(* the Context.                                                            *)
Finalize(p) ==
  /\ functions[p] = "garbage" \/ (functions[p] = "live" /\ ~alive)
  /\ functions' = [functions EXCEPT ![p] = "none"]
  /\ ReleaseCallback({p} \cap finalizers)
  /\ finalizers' = finalizers \ {p}
  /\ UNCHANGED <<blocks, callVars, alive, adding, leaked>>

(* Nothing is left to do.                                                  *)
Ended ==
  /\ ~alive
  /\ \A p \in Pointers : functions[p] = "none"
  /\ UNCHANGED valuesVars

ValuesNext ==
  \/ \E n \in 0..MaxValues : \E vs \in [1..n -> DotNetValue] :
       \/ SetMember(vs) \/ CreateObject(vs) \/ Invoke(vs) \/ CallbackReturns(vs)
       \/ CompletePromise(vs) \/ Refused(vs)
  \/ \E p \in Pointers : RefusedElsewhere(p) \/ Drop(p) \/ Finalize(p)
  \/ ConvertNext \/ End \/ AddElsewhere \/ DeleteContext \/ Ended

ValuesSpec == ValuesInit /\ [][ValuesNext]_valuesVars

-----------------------------------------------------------------------------
ValuesTypeOK ==
  /\ registry \subseteq Pointers /\ blocks \subseteq Blocks
  /\ op \in {"none", "set", "create", "invoke", "result", "resolve", "reject"}
  /\ passing \in Seq(DotNetValue)
  /\ functions \in [Pointers -> {"none", "live", "garbage"}]
  /\ finalizers \subseteq Pointers /\ raced \subseteq Pointers
  /\ leaked \subseteq Pointers \cup Blocks
  /\ {thrown, alive, adding} \subseteq BOOLEAN

Times(condition) == IF condition THEN 1 ELSE 0

Owners(x) ==
  Cardinality({i \in DOMAIN passing : passing[i].id = x})
    + Times(x \in finalizers) + Times(x \in leaked)

(* Everything that was made for JavaScript has exactly one releaser: the   *)
(* native call that is still to convert it, or the finalizer of a function *)
(* in a Context that exists; otherwise it is one of those that a refused   *)
(* call leaks, and what was released has none.  A function JavaScript can  *)
(* call has its delegate kept by _registry, also when its pointer was used *)
(* before.  Exceptions are pointers on which two threads raced.            *)
(* (DotNetHandle::Release, CreateFunction, SynchronizedFinalizerCallback.) *)
OneReleaser ==
  /\ ValuesTypeOK
  /\ \A b \in Blocks : Owners(b) = Times(b \in blocks)
  /\ \A p \in Pointers \ raced :
       /\ Owners(p) = Times(p \in registry)
       /\ alive /\ functions[p] = "live" => p \in registry \cap finalizers
       /\ ~alive /\ p \in registry => p \in leaked
=============================================================================
