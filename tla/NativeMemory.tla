---------------------------- MODULE NativeMemory ----------------------------
(***************************************************************************)
(* NodeHostEnvironment/NativeMemory.cs: blocks of native memory shared     *)
(* with JavaScript, counted by handles that any thread may create and      *)
(* dispose; the garbage collector's finalizer thread is one of them.       *)
(*                                                                         *)
(* A NativeMemory object is a block here, a NativeMemory.Handle a handle.  *)
(* Length and callback are the same in all Create calls for an address, so *)
(* a comparison of callbacks fails only against one already taken.         *)
(***************************************************************************)
EXTENDS Integers, FiniteSets

CONSTANTS
  Threads,    (* the threads that use native memory, finalizer included     *)
  Addresses,  (* what the application's allocator may return                *)
  Blocks,     (* bound: NativeMemory objects in a behaviour                 *)
  Handles,    (* bound: Handle objects in a behaviour                       *)
  None        (* no thread, block or address                                *)

ASSUME MemoryAssumption ==
  /\ None \notin Threads \cup Blocks \cup Addresses
  /\ IsFiniteSet(Threads)
  /\ IsFiniteSet(Handles)

VARIABLES
  allocated,  (* addresses of memory the application has not freed          *)
  tracked,    (* TrackedMemory                                              *)
  pointer,    (* Pointer of each block, None before its construction        *)
  refCount,   (* _refCount                                                  *)
  callback,   (* _releaseCallback is set                                    *)
  target,     (* _memory of each handle, None before its construction       *)
  disposed,   (* handles whose _disposed is 1                               *)
  lock,       (* the thread inside lock (TrackedMemory)                     *)
  pc,         (* where each thread is                                       *)
  at          (* the block it is there with                                 *)

blockVars == <<tracked, pointer, callback>>
handleVars == <<target, disposed>>
vars == <<allocated, blockVars, refCount, handleVars, lock, pc, at>>

Live(h) == target[h] # None /\ h \notin disposed

(* The bound on handles: each thread about to construct one has its own.   *)
HandleLeft ==
  Cardinality({t \in Threads : pc[t] = "addRef"})
    < Cardinality({h \in Handles : target[h] = None})

Goto(t, label, b) == /\ pc' = [pc EXCEPT ![t] = label]
                     /\ at' = [at EXCEPT ![t] = b]
Done(t) == Goto(t, "idle", None)

Init ==
  /\ allocated = {}
  /\ tracked = [p \in Addresses |-> None]
  /\ pointer = [b \in Blocks |-> None]
  /\ refCount = [b \in Blocks |-> 0]
  /\ callback = [b \in Blocks |-> FALSE]
  /\ target = [h \in Handles |-> None]
  /\ disposed = {}
  /\ lock = None
  /\ pc = [t \in Threads |-> "idle"]
  /\ at = [t \in Threads |-> None]

-----------------------------------------------------------------------------
Allocate(p) ==
  /\ p \notin allocated
  /\ allocated' = allocated \cup {p}
  /\ UNCHANGED <<blockVars, refCount, handleVars, lock, pc, at>>

(* Mutant: every call makes a new block.                                   *)
WrapAgain(t, p) ==
  \E b \in Blocks :
    /\ pointer[b] = None
    /\ pointer' = [pointer EXCEPT ![b] = p]
    /\ callback' = [callback EXCEPT ![b] = TRUE]
    /\ tracked' = [tracked EXCEPT ![p] = b]
    /\ lock' = t
    /\ Goto(t, "addRef", b)

(* Inside the lock: an entry whose callback is still there is shared, one  *)
(* whose callback was taken makes Create throw, no entry means a new block.*)
LookUp(t, p) ==
  \/ /\ tracked[p] # None
     /\ callback[tracked[p]]
     /\ lock' = t
     /\ Goto(t, "addRef", tracked[p])
     /\ UNCHANGED blockVars
  \/ /\ tracked[p] # None
     /\ ~callback[tracked[p]]
     /\ UNCHANGED <<blockVars, lock, pc, at>>
  \/ /\ tracked[p] = None
     /\ \E b \in Blocks :
          /\ pointer[b] = None
          /\ pointer' = [pointer EXCEPT ![b] = p]
          /\ callback' = [callback EXCEPT ![b] = TRUE]
          /\ tracked' = [tracked EXCEPT ![p] = b]
          /\ lock' = t
          /\ Goto(t, "addRef", b)

(* A thread wraps memory that has not been given back to it.               *)
Create(t, p) ==
  /\ pc[t] = "idle"
  /\ p \in allocated
  /\ lock = None
  /\ HandleLeft
  /\ LookUp(t, p)
  /\ UNCHANGED <<allocated, refCount, handleVars>>

(* AddReference finds its own handle undisposed.                           *)
AddReference(t, h) ==
  /\ pc[t] = "idle"
  /\ Live(h)
  /\ HandleLeft
  /\ Goto(t, "addRef", target[h])
  /\ UNCHANGED <<allocated, blockVars, refCount, handleVars, lock>>

(* Mutant: the new handle is not counted.                                  *)
Uncounted(b) == UNCHANGED refCount

Increment(b) == refCount' = [refCount EXCEPT ![b] = @ + 1]

(* The constructor of Handle, at the end of Create (which then leaves the  *)
(* lock) and of AddReference.                                              *)
AddRef(t, h) ==
  /\ pc[t] = "addRef"
  /\ target[h] = None
  /\ target' = [target EXCEPT ![h] = at[t]]
  /\ Increment(at[t])
  /\ lock' = IF lock = t THEN None ELSE lock
  /\ Done(t)
  /\ UNCHANGED <<allocated, blockVars, disposed>>

(* Dispose, called by the application or by the finalizer: only the first  *)
(* call goes on.                                                           *)
Dispose(t, h) ==
  /\ pc[t] = "idle"
  /\ Live(h)
  /\ disposed' = disposed \cup {h}
  /\ Goto(t, "release", target[h])
  /\ UNCHANGED <<allocated, blockVars, refCount, target, lock>>

(* Mutant: the value before the decrement is compared.                     *)
ReleaseRefEarly(t) ==
  /\ pc[t] = "release"
  /\ refCount' = [refCount EXCEPT ![at[t]] = @ - 1]
  /\ IF refCount[at[t]] = 0 THEN Goto(t, "claim", at[t]) ELSE Done(t)
  /\ UNCHANGED <<allocated, blockVars, handleVars, lock>>

ReleaseRef(t) ==
  /\ pc[t] = "release"
  /\ refCount' = [refCount EXCEPT ![at[t]] = @ - 1]
  /\ IF refCount[at[t]] = 1 THEN Goto(t, "claim", at[t]) ELSE Done(t)
  /\ UNCHANGED <<allocated, blockVars, handleVars, lock>>

(* Mutant: _releaseCallback is read and not exchanged.                     *)
ReadCallback(t) ==
  /\ pc[t] = "claim"
  /\ IF callback[at[t]] THEN Goto(t, "call", at[t]) ELSE Done(t)
  /\ UNCHANGED <<allocated, blockVars, refCount, handleVars, lock>>

(* DisposeIntern: one thread gets the callback. (The finalizer of the      *)
(* block itself finds it taken: a block whose callback is set is reachable *)
(* from TrackedMemory.)                                                    *)
ClaimCallback(t) ==
  /\ pc[t] = "claim"
  /\ callback' = [callback EXCEPT ![at[t]] = FALSE]
  /\ IF callback[at[t]] THEN Goto(t, "call", at[t]) ELSE Done(t)
  /\ UNCHANGED <<allocated, tracked, pointer, refCount, handleVars, lock>>

(* The callback gives the memory back to the allocator.                    *)
InvokeCallback(t) ==
  /\ pc[t] = "call"
  /\ allocated' = allocated \ {pointer[at[t]]}
  /\ Goto(t, "remove", at[t])
  /\ UNCHANGED <<blockVars, refCount, handleVars, lock>>

(* The finally block, inside the lock: removal by address.                 *)
RemoveEntry(t) ==
  /\ pc[t] = "remove"
  /\ lock = None
  /\ tracked' = [tracked EXCEPT ![pointer[at[t]]] = None]
  /\ Done(t)
  /\ UNCHANGED <<allocated, pointer, callback, refCount, handleVars, lock>>

-----------------------------------------------------------------------------
ReleaseStep(t) ==
  ReleaseRef(t) \/ ClaimCallback(t) \/ InvokeCallback(t) \/ RemoveEntry(t)

ThreadStep(t) ==
  \/ ReleaseStep(t)
  \/ \E p \in Addresses : Create(t, p)
  \/ \E h \in Handles : AddReference(t, h) \/ AddRef(t, h) \/ Dispose(t, h)

Next == (\E p \in Addresses : Allocate(p)) \/ (\E t \in Threads : ThreadStep(t))

(* A thread inside Dispose or inside the lock goes on. Nobody has to       *)
(* dispose or to create.                                                   *)
Fairness ==
  \A t \in Threads :
    /\ WF_vars(ReleaseRef(t) \/ ClaimCallback(t) \/ InvokeCallback(t))
    /\ SF_vars(RemoveEntry(t))
    /\ WF_vars(\E h \in Handles : AddRef(t, h))

Spec == Init /\ [][Next]_vars
FairSpec == Spec /\ Fairness

-----------------------------------------------------------------------------
(* Every variable has its type; a thread that is somewhere is there with a *)
(* constructed block; a count is never negative. (NativeMemory's fields.)  *)
TypeOK ==
  /\ allocated \subseteq Addresses
  /\ tracked \in [Addresses -> Blocks \cup {None}]
  /\ pointer \in [Blocks -> Addresses \cup {None}]
  /\ refCount \in [Blocks -> Nat]
  /\ callback \in [Blocks -> BOOLEAN]
  /\ target \in [Handles -> Blocks \cup {None}]
  /\ disposed \subseteq Handles
  /\ lock \in Threads \cup {None}
  /\ pc \in [Threads -> {"idle", "addRef", "release", "claim", "call", "remove"}]
  /\ at \in [Threads -> Blocks \cup {None}]
  /\ \A t \in Threads : pc[t] = "idle" <=> at[t] = None
  /\ \A t \in Threads : at[t] # None => pointer[at[t]] # None
  /\ \A h \in Handles : target[h] # None => pointer[target[h]] # None

LiveHandles(b) == {h \in Handles : target[h] = b /\ h \notin disposed}
Releasing(b) == {t \in Threads : pc[t] = "release" /\ at[t] = b}

(* The count of a block is the number of its undisposed handles and of the *)
(* disposals that have not counted yet, whatever the threads do at once:   *)
(* no handle is counted twice or taken off twice. (AddRef, Dispose,        *)
(* ReleaseRef.)                                                            *)
RefCountExact ==
  \A b \in Blocks :
    refCount[b] = Cardinality(LiveHandles(b)) + Cardinality(Releasing(b))

Finishing(t, b) == pc[t] \in {"call", "remove"} /\ at[t] = b

(* A block that still has its callback, or whose callback is running, is   *)
(* the entry of its address, so all Create calls for that memory meet the  *)
(* same block, and an entry removed at the end is the block's own.         *)
(* (Create, DisposeIntern.)                                                *)
EntryIsCurrent ==
  \A b \in Blocks :
    callback[b] \/ (\E t \in Threads : Finishing(t, b)) =>
      pointer[b] # None /\ tracked[pointer[b]] = b

(* Memory is given back once: the callback runs on one thread at a time,   *)
(* with the block's memory still allocated, and never for a block that may *)
(* yet call it again. (DisposeIntern.)                                     *)
FreedOnce ==
  \A t \in Threads : pc[t] = "call" =>
    /\ pointer[at[t]] \in allocated
    /\ ~callback[at[t]]
    /\ \A u \in Threads : Finishing(u, at[t]) => u = t

(* A block that has no handle left, and that nobody is making one for,     *)
(* gives its memory back. (Dispose to DisposeIntern.)                      *)
UnusedIsReleased ==
  \A b \in Blocks :
    callback[b] ~> \/ ~callback[b]
                   \/ LiveHandles(b) # {}

(* "Callback that will be invoked when the memory is no longer in use"     *)
(* (NativeMemory.cs:30): no handle of the block is usable then. The code   *)
(* does not keep this: a thread that is past its test in Create or in      *)
(* AddReference makes a handle after the count has come to zero.           *)
CallbackWhenUnused ==
  \A t \in Threads : pc[t] = "call" => LiveHandles(at[t]) = {}
=============================================================================
