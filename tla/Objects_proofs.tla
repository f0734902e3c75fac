--------------------------- MODULE Objects_proofs ---------------------------
(***************************************************************************)
(* Proofs about the objects that native code shares with .NET.             *)
(* NativeMemory, for every set of threads, addresses, blocks and handles:  *)
(* the invariant is proved in two layers, types with the exact count       *)
(* first, then the one-to-one relation of entries and blocks. TaskPromise, *)
(* for any tasks and holders: a promise is settled once and says how its   *)
(* task ended, and the runtime closes after Main's promise is settled.     *)
(***************************************************************************)
EXTENDS TaskPromise, NativeMemory, SequenceFacts, FiniteSetTheorems, TLAPS

-----------------------------------------------------------------------------
(* Native memory.                                                          *)


(* Only a constructed handle can be disposed.                              *)
DisposedBuilt == \A h \in disposed : target[h] # None

(* An entry leads to a block of its address.                               *)
EntryBuilt == \A p \in Addresses : tracked[p] # None => pointer[tracked[p]] = p

CountInv == TypeOK /\ EntryBuilt /\ DisposedBuilt /\ RefCountExact

(* What both cardinalities of RefCountExact are good for.                  *)
LEMMA CountFacts ==
  ASSUME NEW b
  PROVE  /\ IsFiniteSet(LiveHandles(b)) /\ Cardinality(LiveHandles(b)) \in Nat
         /\ IsFiniteSet(Releasing(b)) /\ Cardinality(Releasing(b)) \in Nat
  <1>1. LiveHandles(b) \subseteq Handles /\ Releasing(b) \subseteq Threads
    BY DEF LiveHandles, Releasing
  <1>2. IsFiniteSet(LiveHandles(b)) /\ IsFiniteSet(Releasing(b))
    BY <1>1, FS_Subset, MemoryAssumption DEF MemoryAssumption
  <1> QED BY <1>2, FS_CardinalityType

(* At the start there is no handle.                                        *)
LEMMA CountInit == Init => CountInv
  <1> SUFFICES ASSUME Init PROVE CountInv
    OBVIOUS
  <1>1. TypeOK /\ DisposedBuilt /\ EntryBuilt
    BY MemoryAssumption DEF Init, TypeOK, DisposedBuilt, EntryBuilt, MemoryAssumption
  <1>2. ASSUME NEW b \in Blocks PROVE LiveHandles(b) = {} /\ Releasing(b) = {}
    BY MemoryAssumption DEF Init, LiveHandles, Releasing, MemoryAssumption
  <1>3. RefCountExact
    BY <1>2, FS_EmptySet DEF RefCountExact, Init
  <1> QED BY <1>1, <1>3 DEF CountInv

(* A step that moves no thread into or out of "release" and touches no     *)
(* handle keeps the count.                                                 *)
LEMMA CountSame ==
  ASSUME CountInv, UNCHANGED <<refCount, handleVars>>, NEW t \in Threads,
         pc[t] # "release", pc'[t] # "release",
         \A u \in Threads \ {t} : pc'[u] = pc[u] /\ at'[u] = at[u]
  PROVE  RefCountExact' /\ DisposedBuilt'
  <1>1. ASSUME NEW b \in Blocks
        PROVE  LiveHandles(b)' = LiveHandles(b) /\ Releasing(b)' = Releasing(b)
    BY DEF LiveHandles, Releasing, handleVars
  <1>2. RefCountExact'
    BY <1>1 DEF RefCountExact, CountInv
  <1>3. DisposedBuilt'
    BY DEF DisposedBuilt, handleVars, CountInv
  <1> QED BY <1>2, <1>3

-----------------------------------------------------------------------------
(* Steps that count.                                                       *)
LEMMA CountAddRef ==
  ASSUME CountInv, NEW t \in Threads, NEW h \in Handles, AddRef(t, h)
  PROVE  CountInv'
  <1> DEFINE b == at[t]
  <1>1. b \in Blocks /\ b # None
    BY MemoryAssumption DEF CountInv, TypeOK, AddRef, MemoryAssumption
  <1>2. target' = [target EXCEPT ![h] = b] /\ refCount' = [refCount EXCEPT ![b] = @ + 1]
    BY DEF AddRef, Increment
  <1>3. pc' = [pc EXCEPT ![t] = "idle"] /\ at' = [at EXCEPT ![t] = None]
    BY DEF AddRef, Done, Goto
  <1>4. h \notin disposed /\ disposed' = disposed
    BY DEF AddRef, CountInv, DisposedBuilt
  <1>5. TypeOK'
    BY <1>1, <1>2, <1>3, <1>4, MemoryAssumption
       DEF CountInv, TypeOK, AddRef, blockVars, MemoryAssumption
  <1>6. DisposedBuilt'
    BY <1>1, <1>2, <1>4 DEF DisposedBuilt, CountInv, TypeOK
  <1>7. ASSUME NEW c \in Blocks
        PROVE  refCount'[c] = Cardinality(LiveHandles(c)') + Cardinality(Releasing(c)')
    <2>1. Releasing(c)' = Releasing(c)
      BY <1>3 DEF Releasing, AddRef, CountInv, TypeOK
    <2>2. CASE c = b
      <3>1. LiveHandles(c)' = LiveHandles(c) \cup {h}
        BY <2>2, <1>2, <1>4 DEF LiveHandles, CountInv, TypeOK
      <3>2. h \notin LiveHandles(c)
        BY <1>1, <2>2 DEF LiveHandles, AddRef
      <3>3. Cardinality(LiveHandles(c)') = Cardinality(LiveHandles(c)) + 1
        BY <3>1, <3>2, FS_AddElement, CountFacts
      <3>4. refCount'[c] = refCount[c] + 1
        BY <1>2, <2>2 DEF CountInv, TypeOK
      <3>5. refCount[c] = Cardinality(LiveHandles(c)) + Cardinality(Releasing(c))
        BY DEF CountInv, RefCountExact
      <3> QED BY <2>1, <3>3, <3>4, <3>5, CountFacts
    <2>3. CASE c # b
      <3>1. LiveHandles(c)' = LiveHandles(c)
        BY <2>3, <1>1, <1>2, <1>4, MemoryAssumption
           DEF LiveHandles, CountInv, TypeOK, AddRef, MemoryAssumption
      <3>2. refCount'[c] = refCount[c]
        BY <1>2, <2>3 DEF CountInv, TypeOK
      <3> QED BY <2>1, <3>1, <3>2 DEF CountInv, RefCountExact
    <2> QED BY <2>2, <2>3
  <1>8. RefCountExact'
    BY <1>7 DEF RefCountExact
  <1>9. EntryBuilt'
    BY DEF AddRef, blockVars, EntryBuilt, CountInv
  <1> QED BY <1>5, <1>6, <1>8, <1>9 DEF CountInv

(* A handle is disposed.                                                   *)
LEMMA CountDispose ==
  ASSUME CountInv, NEW t \in Threads, NEW h \in Handles, Dispose(t, h)
  PROVE  CountInv'
  <1> DEFINE b == target[h]
  <1>1. b \in Blocks /\ b # None /\ h \notin disposed /\ pc[t] = "idle"
    BY DEF CountInv, TypeOK, Dispose, Live
  <1>2. disposed' = disposed \cup {h} /\ UNCHANGED <<target, refCount>>
    BY DEF Dispose
  <1>3. pc' = [pc EXCEPT ![t] = "release"] /\ at' = [at EXCEPT ![t] = b]
    BY DEF Dispose, Goto
  <1>4. TypeOK'
    BY <1>1, <1>2, <1>3, MemoryAssumption
       DEF CountInv, TypeOK, Dispose, blockVars, MemoryAssumption
  <1>5. DisposedBuilt'
    BY <1>1, <1>2 DEF DisposedBuilt, CountInv
  <1>6. ASSUME NEW c \in Blocks
        PROVE  refCount'[c] = Cardinality(LiveHandles(c)') + Cardinality(Releasing(c)')
    <2>1. refCount'[c] = Cardinality(LiveHandles(c)) + Cardinality(Releasing(c))
      BY <1>2 DEF CountInv, RefCountExact
    <2>2. CASE c = b
      <3>1. LiveHandles(c)' = LiveHandles(c) \ {h} /\ h \in LiveHandles(c)
        BY <2>2, <1>1, <1>2 DEF LiveHandles
      <3>2. Releasing(c)' = Releasing(c) \cup {t} /\ t \notin Releasing(c)
        BY <2>2, <1>1, <1>3 DEF Releasing, CountInv, TypeOK
      <3>3. Cardinality(LiveHandles(c)') = Cardinality(LiveHandles(c)) - 1
        BY <3>1, FS_RemoveElement, CountFacts
      <3>4. Cardinality(Releasing(c)') = Cardinality(Releasing(c)) + 1
        BY <3>2, FS_AddElement, CountFacts
      <3> QED BY <2>1, <3>3, <3>4, CountFacts
    <2>3. CASE c # b
      <3>1. LiveHandles(c)' = LiveHandles(c)
        BY <2>3, <1>2 DEF LiveHandles
      <3>2. Releasing(c)' = Releasing(c)
        BY <2>3, <1>1, <1>3 DEF Releasing, CountInv, TypeOK
      <3> QED BY <2>1, <3>1, <3>2
    <2> QED BY <2>2, <2>3
  <1>7. RefCountExact'
    BY <1>6 DEF RefCountExact
  <1>8. EntryBuilt'
    BY DEF Dispose, blockVars, EntryBuilt, CountInv
  <1> QED BY <1>4, <1>5, <1>7, <1>8 DEF CountInv

(* Its reference is given back.                                            *)
LEMMA CountReleaseRef ==
  ASSUME CountInv, NEW t \in Threads, ReleaseRef(t)
  PROVE  CountInv'
  <1> DEFINE b == at[t]
  <1>1. b \in Blocks /\ b # None /\ pc[t] = "release"
    BY MemoryAssumption DEF CountInv, TypeOK, ReleaseRef, MemoryAssumption
  <1>2. refCount' = [refCount EXCEPT ![b] = @ - 1] /\ UNCHANGED handleVars
    BY DEF ReleaseRef
  <1>3. \/ pc' = [pc EXCEPT ![t] = "claim"] /\ at' = [at EXCEPT ![t] = b]
        \/ pc' = [pc EXCEPT ![t] = "idle"] /\ at' = [at EXCEPT ![t] = None]
    BY DEF ReleaseRef, Goto, Done
  <1>4. t \in Releasing(b)
    BY <1>1 DEF Releasing
  <1>5. Cardinality(Releasing(b) \ {t}) = Cardinality(Releasing(b)) - 1
        /\ Cardinality(Releasing(b) \ {t}) \in Nat
    BY <1>4, FS_RemoveElement, FS_CardinalityType, CountFacts
  <1>6. refCount[b] \in Nat /\ refCount[b] >= 1
    <2>1. refCount[b] = Cardinality(LiveHandles(b)) + Cardinality(Releasing(b))
      BY <1>1 DEF CountInv, RefCountExact
    <2> QED BY <1>5, <2>1, CountFacts
  <1>7. TypeOK'
    BY <1>1, <1>2, <1>3, <1>6, MemoryAssumption
       DEF CountInv, TypeOK, ReleaseRef, blockVars, handleVars, MemoryAssumption
  <1>8. ASSUME NEW c \in Blocks
        PROVE  refCount'[c] = Cardinality(LiveHandles(c)') + Cardinality(Releasing(c)')
    <2>1. refCount[c] = Cardinality(LiveHandles(c)) + Cardinality(Releasing(c))
      BY DEF CountInv, RefCountExact
    <2>2. LiveHandles(c)' = LiveHandles(c)
      BY <1>2 DEF LiveHandles, handleVars
    <2>3. CASE c = b
      <3>1. Releasing(c)' = Releasing(b) \ {t}
        BY <2>3, <1>1, <1>3 DEF Releasing, CountInv, TypeOK
      <3>2. refCount'[c] = refCount[b] - 1
        BY <1>2, <2>3 DEF CountInv, TypeOK
      <3> QED BY <2>1, <2>2, <2>3, <3>1, <3>2, <1>5, CountFacts
    <2>4. CASE c # b
      <3>1. Releasing(c)' = Releasing(c)
        BY <2>4, <1>1, <1>3 DEF Releasing, CountInv, TypeOK
      <3>2. refCount'[c] = refCount[c]
        BY <1>2, <2>4 DEF CountInv, TypeOK
      <3> QED BY <2>1, <2>2, <3>1, <3>2
    <2> QED BY <2>3, <2>4
  <1>9. RefCountExact' /\ DisposedBuilt'
    BY <1>2, <1>8 DEF RefCountExact, DisposedBuilt, handleVars, CountInv
  <1>10. EntryBuilt'
    BY DEF ReleaseRef, blockVars, EntryBuilt, CountInv
  <1> QED BY <1>7, <1>9, <1>10 DEF CountInv

-----------------------------------------------------------------------------
(* Every step keeps CountInv.                                              *)
LEMMA CountStep == CountInv /\ [Next]_vars => CountInv'
  <1> SUFFICES ASSUME CountInv, [Next]_vars PROVE CountInv'
    OBVIOUS
  <1>1. CASE UNCHANGED vars
    <2>1. TypeOK' /\ DisposedBuilt' /\ EntryBuilt'
      BY <1>1 DEF vars, blockVars, handleVars, CountInv, TypeOK, DisposedBuilt, EntryBuilt
    <2>2. ASSUME NEW b \in Blocks
          PROVE  LiveHandles(b)' = LiveHandles(b) /\ Releasing(b)' = Releasing(b)
      BY <1>1 DEF vars, handleVars, LiveHandles, Releasing
    <2>3. RefCountExact'
      BY <1>1, <2>2 DEF RefCountExact, CountInv, vars
    <2> QED BY <2>1, <2>3 DEF CountInv
  <1>2. ASSUME NEW p \in Addresses, Allocate(p) PROVE CountInv'
    <2>1. TypeOK' /\ DisposedBuilt' /\ EntryBuilt'
      BY <1>2 DEF Allocate, blockVars, handleVars, CountInv, TypeOK, DisposedBuilt, EntryBuilt
    <2>2. ASSUME NEW b \in Blocks
          PROVE  LiveHandles(b)' = LiveHandles(b) /\ Releasing(b)' = Releasing(b)
      BY <1>2 DEF Allocate, handleVars, LiveHandles, Releasing
    <2>3. RefCountExact'
      BY <1>2, <2>2 DEF RefCountExact, CountInv, Allocate
    <2> QED BY <2>1, <2>3 DEF CountInv
  <1>3. ASSUME NEW t \in Threads, NEW p \in Addresses, Create(t, p) PROVE CountInv'
    <2>1. TypeOK'
      <3>1. CASE UNCHANGED <<blockVars, lock, pc, at>>
        BY <1>3, <3>1 DEF Create, blockVars, handleVars, CountInv, TypeOK
      <3>2. ASSUME tracked[p] # None, lock' = t, Goto(t, "addRef", tracked[p]), UNCHANGED blockVars,
                   callback[tracked[p]]
            PROVE  TypeOK'
        <4>1. tracked[p] \in Blocks /\ pointer[tracked[p]] # None
          BY <3>2, MemoryAssumption DEF CountInv, EntryBuilt, TypeOK, MemoryAssumption
        <4> QED
          BY <1>3, <3>2, <4>1, MemoryAssumption
             DEF Create, Goto, blockVars, handleVars, CountInv, TypeOK, MemoryAssumption
      <3>3. ASSUME NEW b \in Blocks, pointer' = [pointer EXCEPT ![b] = p],
                   callback' = [callback EXCEPT ![b] = TRUE],
                   tracked' = [tracked EXCEPT ![p] = b], lock' = t, Goto(t, "addRef", b)
            PROVE  TypeOK'
        <4>1. b # None /\ p # None
          BY MemoryAssumption DEF MemoryAssumption
        <4> QED
          BY <1>3, <3>3, <4>1 DEF Create, Goto, handleVars, CountInv, TypeOK
      <3> QED BY <1>3, <3>1, <3>2, <3>3 DEF Create, LookUp
    <2>2. RefCountExact' /\ DisposedBuilt'
      <3>1. pc[t] = "idle" /\ UNCHANGED <<refCount, handleVars>>
        BY <1>3 DEF Create
      <3>2. \A u \in Threads \ {t} : pc'[u] = pc[u] /\ at'[u] = at[u]
        BY <1>3 DEF Create, LookUp, Goto, CountInv, TypeOK
      <3>3. pc'[t] # "release"
        BY <1>3 DEF Create, LookUp, Goto, CountInv, TypeOK
      <3> QED BY <3>1, <3>2, <3>3, CountSame
    <2>3. EntryBuilt'
      <3>1. ASSUME NEW b \in Blocks, tracked[p] = None, pointer[b] = None,
                   pointer' = [pointer EXCEPT ![b] = p],
                   tracked' = [tracked EXCEPT ![p] = b]
            PROVE  EntryBuilt'
        BY <3>1, MemoryAssumption DEF EntryBuilt, CountInv, TypeOK, MemoryAssumption
      <3> QED BY <1>3, <3>1 DEF Create, LookUp, blockVars, EntryBuilt, CountInv
    <2> QED BY <2>1, <2>2, <2>3 DEF CountInv
  <1>4. ASSUME NEW t \in Threads, NEW h \in Handles, AddReference(t, h) PROVE CountInv'
    <2>1. TypeOK'
      BY <1>4, MemoryAssumption
         DEF AddReference, Live, Goto, blockVars, handleVars, CountInv, TypeOK, MemoryAssumption
    <2>2. RefCountExact' /\ DisposedBuilt'
      BY <1>4, CountSame DEF AddReference, Goto, CountInv, TypeOK
    <2>3. EntryBuilt'
      BY <1>4, MemoryAssumption DEF AddReference, blockVars, EntryBuilt, CountInv, TypeOK, MemoryAssumption
    <2> QED BY <2>1, <2>2, <2>3 DEF CountInv
  <1>5. ASSUME NEW t \in Threads, ClaimCallback(t) PROVE CountInv'
    <2>1. TypeOK'
      BY <1>5, MemoryAssumption
         DEF ClaimCallback, Done, Goto, handleVars, CountInv, TypeOK, MemoryAssumption
    <2>2. RefCountExact' /\ DisposedBuilt'
      BY <1>5, CountSame DEF ClaimCallback, Done, Goto, CountInv, TypeOK
    <2>3. EntryBuilt'
      BY <1>5, MemoryAssumption DEF ClaimCallback, blockVars, EntryBuilt, CountInv, TypeOK, MemoryAssumption
    <2> QED BY <2>1, <2>2, <2>3 DEF CountInv
  <1>6. ASSUME NEW t \in Threads, InvokeCallback(t) PROVE CountInv'
    <2>1. TypeOK'
      BY <1>6, MemoryAssumption
         DEF InvokeCallback, Goto, blockVars, handleVars, CountInv, TypeOK, MemoryAssumption
    <2>2. RefCountExact' /\ DisposedBuilt'
      BY <1>6, CountSame DEF InvokeCallback, Goto, CountInv, TypeOK
    <2>3. EntryBuilt'
      BY <1>6, MemoryAssumption DEF InvokeCallback, blockVars, EntryBuilt, CountInv, TypeOK, MemoryAssumption
    <2> QED BY <2>1, <2>2, <2>3 DEF CountInv
  <1>7. ASSUME NEW t \in Threads, RemoveEntry(t) PROVE CountInv'
    <2>1. TypeOK'
      BY <1>7, MemoryAssumption
         DEF RemoveEntry, Done, Goto, handleVars, CountInv, TypeOK, MemoryAssumption
    <2>2. RefCountExact' /\ DisposedBuilt'
      BY <1>7, CountSame DEF RemoveEntry, Done, Goto, CountInv, TypeOK
    <2>3. EntryBuilt'
      BY <1>7, MemoryAssumption DEF RemoveEntry, blockVars, EntryBuilt, CountInv, TypeOK, MemoryAssumption
    <2> QED BY <2>1, <2>2, <2>3 DEF CountInv
  <1> QED
    BY <1>1, <1>2, <1>3, <1>4, <1>5, <1>6, <1>7, CountAddRef, CountDispose, CountReleaseRef
       DEF Next, ThreadStep, ReleaseStep

(* CountInv holds in every behaviour.                                      *)
LEMMA CountAlways == Spec => []CountInv
  BY CountInit, CountStep, PTL DEF Spec

(* Every variable of NativeMemory.cs keeps its type; no count is negative. *)
THEOREM MemoryTypeOK == Spec => []TypeOK
  <1>1. CountInv => TypeOK
    BY DEF CountInv
  <1> QED BY <1>1, CountAlways, PTL

(* The reference count is exact under every interleaving of AddReference,  *)
(* Create, Dispose and the finalizer.                                      *)
THEOREM CountIsExact == Spec => []RefCountExact
  <1>1. CountInv => RefCountExact
    BY DEF CountInv
  <1> QED BY <1>1, CountAlways, PTL

-----------------------------------------------------------------------------
(* The second layer: a block with its callback has allocated memory, and a *)
(* thread that runs a block's callback or is about to remove its entry is  *)
(* the only one and has taken the callback.                                *)
CallbackAllocated == \A b \in Blocks : callback[b] => pointer[b] \in allocated

CallingAllocated == \A t \in Threads : pc[t] = "call" => pointer[at[t]] \in allocated

OneFinisher ==
  \A t \in Threads, b \in Blocks : Finishing(t, b) =>
    /\ ~callback[b]
    /\ \A u \in Threads : Finishing(u, b) => u = t

EntryInv ==
  TypeOK /\ CallbackAllocated /\ CallingAllocated /\ OneFinisher /\ EntryIsCurrent

(* At the start there is no entry.                                         *)
LEMMA EntryInit == Init => EntryInv
  BY CountInit
     DEF Init, CountInv, EntryInv, CallbackAllocated, CallingAllocated, OneFinisher,
         EntryIsCurrent, Finishing

(* A step that changes no block and no allocation, and lets no thread enter*)
(* the end of DisposeIntern, keeps the entries.                            *)
LEMMA EntrySame ==
  ASSUME EntryInv, TypeOK', UNCHANGED <<blockVars, allocated>>,
         \A t \in Threads : \/ pc'[t] = pc[t] /\ at'[t] = at[t]
                            \/ pc'[t] \notin {"call", "remove"}
  PROVE  EntryInv'
  <1>1. \A t \in Threads : \A b : Finishing(t, b)' => Finishing(t, b)
    BY DEF Finishing
  <1>2. CallbackAllocated' /\ EntryIsCurrent' /\ OneFinisher'
    BY <1>1 DEF EntryInv, blockVars, CallbackAllocated, EntryIsCurrent, OneFinisher
  <1>3. CallingAllocated'
    BY DEF EntryInv, blockVars, CallingAllocated
  <1> QED BY <1>2, <1>3 DEF EntryInv

(* A handle is made for an address, which may have an entry.               *)
LEMMA EntryCreate ==
  ASSUME EntryInv, TypeOK', NEW t \in Threads, NEW p \in Addresses, Create(t, p)
  PROVE  EntryInv'
  <1>1. \A u \in Threads : \/ pc'[u] = pc[u] /\ at'[u] = at[u]
                           \/ pc'[u] \notin {"call", "remove"}
    BY DEF Create, LookUp, Goto, EntryInv, TypeOK
  <1>2. CASE UNCHANGED blockVars
    BY <1>1, <1>2, EntrySame DEF Create
  <1>3. CASE ~UNCHANGED blockVars
    <2>1. PICK b \in Blocks :
            /\ tracked[p] = None /\ pointer[b] = None
            /\ pointer' = [pointer EXCEPT ![b] = p]
            /\ callback' = [callback EXCEPT ![b] = TRUE]
            /\ tracked' = [tracked EXCEPT ![p] = b]
      BY <1>3 DEF Create, LookUp
    <2>2. p \in allocated /\ allocated' = allocated
      BY DEF Create
    <2>3. \A u \in Threads : \A c : Finishing(u, c)' => Finishing(u, c)
      BY <1>1 DEF Finishing
    <2>4. b # None /\ p # None
      BY MemoryAssumption DEF MemoryAssumption
    <2>5. \A u \in Threads : ~Finishing(u, b)
      BY <2>1, <2>4 DEF EntryInv, EntryIsCurrent
    <2>6. \A c \in Blocks \ {b} : pointer'[c] = pointer[c] /\ callback'[c] = callback[c]
      BY <2>1 DEF EntryInv, TypeOK
    <2>7. pointer'[b] = p /\ tracked'[p] = b
      BY <2>1 DEF EntryInv, TypeOK
    <2>8. CallbackAllocated'
      BY <2>2, <2>6, <2>7 DEF EntryInv, CallbackAllocated
    <2>9. CallingAllocated'
      <3> SUFFICES ASSUME NEW u \in Threads, pc'[u] = "call"
                   PROVE  pointer'[at'[u]] \in allocated'
        BY DEF CallingAllocated
      <3>1. pc[u] = "call" /\ at'[u] = at[u]
        BY <1>1
      <3>2. at[u] \in Blocks /\ Finishing(u, at[u])
        BY <3>1, MemoryAssumption DEF EntryInv, TypeOK, Finishing, MemoryAssumption
      <3>3. at[u] # b
        BY <3>2, <2>5
      <3> QED BY <3>1, <3>2, <3>3, <2>2, <2>6 DEF EntryInv, CallingAllocated
    <2>10. OneFinisher'
      BY <2>3, <2>5, <2>6 DEF EntryInv, OneFinisher
    <2>11. EntryIsCurrent'
      <3> SUFFICES ASSUME NEW c \in Blocks,
                          callback'[c] \/ (\E u \in Threads : Finishing(u, c)')
                   PROVE  pointer'[c] # None /\ tracked'[pointer'[c]] = c
        BY DEF EntryIsCurrent
      <3>1. CASE c = b
        BY <3>1, <2>7, <2>4
      <3>2. CASE c # b
        <4>1. pointer[c] # None /\ tracked[pointer[c]] = c
          BY <3>2, <2>3, <2>6 DEF EntryInv, EntryIsCurrent
        <4>2. pointer[c] # p /\ pointer[c] \in Addresses
          BY <4>1, <2>1, MemoryAssumption DEF EntryInv, TypeOK, MemoryAssumption
        <4>3. tracked'[pointer[c]] = tracked[pointer[c]]
          BY <4>2, <2>1 DEF EntryInv, TypeOK
        <4> QED BY <4>1, <4>3, <3>2, <2>6
      <3> QED BY <3>1, <3>2
    <2> QED BY <2>8, <2>9, <2>10, <2>11 DEF EntryInv
  <1> QED BY <1>2, <1>3

(* A thread claims the callback.                                           *)
LEMMA EntryClaim ==
  ASSUME EntryInv, TypeOK', NEW t \in Threads, ClaimCallback(t)
  PROVE  EntryInv'
  <1> DEFINE b == at[t]
  <1>1. b \in Blocks /\ pc[t] = "claim"
    BY MemoryAssumption DEF EntryInv, TypeOK, ClaimCallback, MemoryAssumption
  <1>2. callback' = [callback EXCEPT ![b] = FALSE]
        /\ UNCHANGED <<allocated, tracked, pointer>>
    BY DEF ClaimCallback
  <1>3. CASE ~callback[b]
    <2>1. UNCHANGED blockVars
      BY <1>1, <1>2, <1>3 DEF blockVars, EntryInv, TypeOK
    <2>2. \A u \in Threads : \/ pc'[u] = pc[u] /\ at'[u] = at[u]
                             \/ pc'[u] \notin {"call", "remove"}
      BY <1>3 DEF ClaimCallback, Done, Goto, EntryInv, TypeOK
    <2> QED BY <2>1, <2>2, <1>2, EntrySame
  <1>4. CASE callback[b]
    <2>1. pc' = [pc EXCEPT ![t] = "call"] /\ at' = [at EXCEPT ![t] = b]
      BY <1>4 DEF ClaimCallback, Goto
    <2>2. \A u \in Threads, c \in Blocks :
            Finishing(u, c)' <=> Finishing(u, c) \/ (u = t /\ c = b)
      BY <1>1, <2>1 DEF Finishing, EntryInv, TypeOK
    <2>3. \A u \in Threads : ~Finishing(u, b)
      BY <1>1, <1>4 DEF EntryInv, OneFinisher
    <2>4. \A c \in Blocks : callback'[c] <=> callback[c] /\ c # b
      BY <1>2 DEF EntryInv, TypeOK
    <2>5. CallbackAllocated'
      BY <1>2, <2>4 DEF EntryInv, CallbackAllocated
    <2>6. CallingAllocated'
      BY <1>1, <1>2, <1>4, <2>1
         DEF EntryInv, TypeOK, CallingAllocated, CallbackAllocated
    <2>7. OneFinisher'
      BY <2>2, <2>3, <2>4 DEF EntryInv, OneFinisher
    <2>8. EntryIsCurrent'
      BY <1>1, <1>2, <1>4, <2>2, <2>4 DEF EntryInv, EntryIsCurrent
    <2> QED BY <2>5, <2>6, <2>7, <2>8 DEF EntryInv
  <1> QED BY <1>3, <1>4

(* Blocks with an entry of their own have different addresses, so freeing  *)
(* one block's memory or removing its entry touches no other.              *)
LEMMA EntriesApart ==
  ASSUME EntryInv, NEW t \in Threads, NEW b \in Blocks, Finishing(t, b),
         NEW c \in Blocks, c # b,
         callback[c] \/ \E u \in Threads : Finishing(u, c)
  PROVE  pointer[c] # pointer[b]
  BY DEF EntryInv, EntryIsCurrent

(* It runs it.                                                             *)
LEMMA EntryInvoke ==
  ASSUME EntryInv, TypeOK', NEW t \in Threads, InvokeCallback(t)
  PROVE  EntryInv'
  <1> DEFINE b == at[t]
  <1>1. b \in Blocks /\ pc[t] = "call" /\ Finishing(t, b)
    BY MemoryAssumption DEF EntryInv, TypeOK, InvokeCallback, Finishing, MemoryAssumption
  <1>2. pc' = [pc EXCEPT ![t] = "remove"] /\ at' = [at EXCEPT ![t] = b]
    BY DEF InvokeCallback, Goto
  <1>3. allocated' = allocated \ {pointer[b]} /\ UNCHANGED <<tracked, pointer, callback>>
    BY DEF InvokeCallback, blockVars
  <1>4. \A u \in Threads, c \in Blocks : Finishing(u, c)' <=> Finishing(u, c)
    BY <1>1, <1>2 DEF Finishing, EntryInv, TypeOK
  <1>5. CallbackAllocated'
    <2> SUFFICES ASSUME NEW c \in Blocks, callback'[c] PROVE pointer'[c] \in allocated'
      BY DEF CallbackAllocated
    <2>1. c # b
      BY <1>1, <1>3 DEF EntryInv, OneFinisher
    <2>2. pointer[c] # pointer[b]
      BY <1>1, <1>3, <2>1, EntriesApart
    <2> QED BY <1>3, <2>2 DEF EntryInv, CallbackAllocated
  <1>6. CallingAllocated'
    <2> SUFFICES ASSUME NEW u \in Threads, pc'[u] = "call" PROVE pointer'[at'[u]] \in allocated'
      BY DEF CallingAllocated
    <2>1. u # t /\ pc[u] = "call" /\ at'[u] = at[u]
      BY <1>2 DEF EntryInv, TypeOK
    <2>2. at[u] \in Blocks /\ Finishing(u, at[u])
      BY <2>1, MemoryAssumption DEF EntryInv, TypeOK, Finishing, MemoryAssumption
    <2>3. at[u] # b
      BY <1>1, <2>1, <2>2 DEF EntryInv, OneFinisher
    <2>4. pointer[at[u]] # pointer[b]
      BY <1>1, <2>2, <2>3, EntriesApart
    <2>5. pointer[at[u]] \in allocated
      BY <2>1 DEF EntryInv, CallingAllocated
    <2> QED BY <1>3, <2>1, <2>4, <2>5
  <1>7. OneFinisher' /\ EntryIsCurrent'
    BY <1>3, <1>4 DEF EntryInv, OneFinisher, EntryIsCurrent
  <1> QED BY <1>5, <1>6, <1>7 DEF EntryInv

(* It removes the entry of its address, which is still its own.            *)
LEMMA EntryRemove ==
  ASSUME EntryInv, TypeOK', NEW t \in Threads, RemoveEntry(t)
  PROVE  EntryInv'
  <1> DEFINE b == at[t]
  <1>1. b \in Blocks /\ pc[t] = "remove" /\ Finishing(t, b)
    BY MemoryAssumption DEF EntryInv, TypeOK, RemoveEntry, Finishing, MemoryAssumption
  <1>2. pc' = [pc EXCEPT ![t] = "idle"] /\ at' = [at EXCEPT ![t] = None]
    BY DEF RemoveEntry, Done, Goto
  <1>3. tracked' = [tracked EXCEPT ![pointer[b]] = None]
        /\ UNCHANGED <<allocated, pointer, callback>>
    BY DEF RemoveEntry
  <1>4. \A u \in Threads, c \in Blocks : Finishing(u, c)' <=> Finishing(u, c) /\ u # t
    BY <1>2 DEF Finishing, EntryInv, TypeOK
  <1>5. CallbackAllocated' /\ OneFinisher'
    BY <1>3, <1>4 DEF EntryInv, CallbackAllocated, OneFinisher
  <1>6. CallingAllocated'
    BY <1>2, <1>3 DEF EntryInv, TypeOK, CallingAllocated
  <1>7. EntryIsCurrent'
    <2> SUFFICES ASSUME NEW c \in Blocks,
                        callback'[c] \/ (\E u \in Threads : Finishing(u, c)')
                 PROVE  pointer'[c] # None /\ tracked'[pointer'[c]] = c
      BY DEF EntryIsCurrent
    <2>1. callback[c] \/ (\E u \in Threads \ {t} : Finishing(u, c))
      BY <1>3, <1>4
    <2>2. c # b
      BY <1>1, <2>1 DEF EntryInv, OneFinisher
    <2>3. pointer[c] # pointer[b]
      BY <1>1, <2>1, <2>2, EntriesApart
    <2>4. pointer[c] # None /\ tracked[pointer[c]] = c
      BY <2>1 DEF EntryInv, EntryIsCurrent
    <2>5. pointer[c] \in Addresses
      BY <2>4 DEF EntryInv, TypeOK
    <2>6. tracked'[pointer[c]] = tracked[pointer[c]]
      BY <1>3, <2>3, <2>5 DEF EntryInv, TypeOK
    <2> QED BY <1>3, <2>4, <2>6
  <1> QED BY <1>5, <1>6, <1>7 DEF EntryInv

(* Every step keeps EntryInv.                                              *)
LEMMA EntryStep == EntryInv /\ TypeOK' /\ [Next]_vars => EntryInv'
  <1> SUFFICES ASSUME EntryInv, TypeOK', [Next]_vars PROVE EntryInv'
    OBVIOUS
  <1>1. CASE UNCHANGED vars
    BY <1>1, EntrySame DEF vars
  <1>2. ASSUME NEW p \in Addresses, Allocate(p) PROVE EntryInv'
    BY <1>2
       DEF Allocate, blockVars, EntryInv, CallbackAllocated, CallingAllocated, OneFinisher,
           EntryIsCurrent, Finishing
  <1>3. ASSUME NEW t \in Threads, NEW h \in Handles,
               AddReference(t, h) \/ AddRef(t, h) \/ Dispose(t, h)
        PROVE  EntryInv'
    BY <1>3, EntrySame
       DEF AddReference, AddRef, Dispose, Done, Goto, EntryInv, TypeOK
  <1>4. ASSUME NEW t \in Threads, ReleaseRef(t) PROVE EntryInv'
    BY <1>4, EntrySame DEF ReleaseRef, Done, Goto, EntryInv, TypeOK
  <1> QED
    BY <1>1, <1>2, <1>3, <1>4, EntryCreate, EntryClaim, EntryInvoke, EntryRemove
       DEF Next, ThreadStep, ReleaseStep

(* EntryInv holds in every behaviour.                                      *)
LEMMA EntryAlways == Spec => []EntryInv
  BY EntryInit, EntryStep, MemoryTypeOK, PTL DEF Spec

(* TrackedMemory never loses or confuses a block that is still in use: it  *)
(* is found under its own address until its entry is removed.              *)
THEOREM EntriesAreCurrent == Spec => []EntryIsCurrent
  <1>1. EntryInv => EntryIsCurrent
    BY DEF EntryInv
  <1> QED BY <1>1, EntryAlways, PTL

(* The release callback runs on one thread, once, with the memory there.   *)
THEOREM MemoryFreedOnce == Spec => []FreedOnce
  <1>1. EntryInv => FreedOnce
    <2> SUFFICES ASSUME EntryInv, NEW t \in Threads, pc[t] = "call"
                 PROVE  /\ pointer[at[t]] \in allocated
                        /\ ~callback[at[t]]
                        /\ \A u \in Threads : Finishing(u, at[t]) => u = t
      BY DEF FreedOnce
    <2>1. at[t] \in Blocks /\ Finishing(t, at[t])
      BY MemoryAssumption DEF EntryInv, TypeOK, Finishing, MemoryAssumption
    <2> QED BY <2>1 DEF EntryInv, CallingAllocated, OneFinisher
  <1> QED BY <1>1, EntryAlways, PTL

-----------------------------------------------------------------------------
(* Promises of tasks.                                                      *)


(* Where a holder is on its way: the continuation is attached once, while  *)
(* the scheduler does not know the holder; it is queued for a task that    *)
(* has ended, and until it has run the promise is open.                    *)
OnTheWay(h) ==
  /\ calling = h \/ h \in attached => promise[h] = "pending" /\ state[h] = "new"
  /\ calling = h => h \notin attached
  /\ state[h] # "new" => promise[h] \in Settled \cup {"pending"} /\ IsCompleted(taskOf[h])
  /\ state[h] \in {"started", "running"} => promise[h] = "pending"

(* The reaction to Main's promise is queued by its settlement only.        *)
JobIsMains == \A i \in 1..Len(micro) : micro[i] = JsJob => promise[Main] \in Settled

(* What PromiseTellsOutcome says of one holder.                            *)
Tells(h) ==
  /\ uses[h] = IF promise[h] \in Settled THEN 1 ELSE 0
  /\ promise[h] \in Settled => IsCompleted(taskOf[h])
  /\ promise[h] = "fulfilled" =>
       \/ task[taskOf[h]] = "value"
       \/ taskOf[h] \notin Typed /\ task[taskOf[h]] # "faulted"
  /\ promise[h] = "rejected" =>
       \/ task[taskOf[h]] = "faulted"
       \/ taskOf[h] \in Typed /\ task[taskOf[h]] # "value"

(* The holders whose value native code has, or is converting.              *)
InRegistry == {h \in Holders : promise[h] \in {"value", "lost"} \/ calling = h}

(* The inductive invariant.                                                *)
PromiseInv ==
  /\ PromiseTypeOK
  /\ taskRegistry = InRegistry
  /\ \A h \in Holders : Tells(h)
  /\ \A h \in Holders : OnTheWay(h)
  /\ JobIsMains
  /\ ClosesAfterMain
  /\ \A t \in Tasks : task[t] = "unsupported" => t \in Typed

-----------------------------------------------------------------------------
(* Queues of the scheduler.                                                *)

(* A job in a queue was there before, or has just been appended.           *)
LEMMA JobStays ==
  ASSUME NEW S, NEW q \in Seq(S), NEW x \in S, NEW r, r = q \/ r = Append(q, x)
  PROVE  /\ r \in Seq(S)
         /\ \A i \in 1..Len(r) : r[i] = x \/ \E j \in 1..Len(q) : r[i] = q[j]
<1>1. CASE r = q
  BY <1>1
<1>2. CASE r = Append(q, x)
  <2>1. /\ r \in Seq(S) /\ Len(r) = Len(q) + 1 /\ Len(q) \in Nat
        /\ \A i \in 1..Len(q) : r[i] = q[i]
        /\ r[Len(q) + 1] = x
    BY <1>2, AppendFacts
  <2>2. \A i \in 1..Len(r) : i \in 1..Len(q) \/ i = Len(q) + 1
    BY <2>1
  <2> QED
    BY <2>1, <2>2
<1> QED
  BY <1>1, <1>2

-----------------------------------------------------------------------------
(* The invariant.                                                          *)

(* At the start no task was converted but Main's.                          *)
LEMMA PromiseInvInit == PromiseInit => PromiseInv
<1> SUFFICES ASSUME PromiseInit PROVE PromiseInv
  OBVIOUS
<1>1. /\ micro = <<>> /\ macro = <<>> /\ open = TRUE /\ transit = {}
      /\ state = [h \in Holders |-> "new"]
  BY DEF PromiseInit, Scheduler!Init
<1>2. micro \in Seq(Holders \cup {JsJob}) /\ macro \in Seq(Holders) /\ Len(micro) = 0
  BY <1>1
<1>3. PromiseTypeOK
  BY <1>1, <1>2, PromiseAssumption DEF PromiseInit, PromiseTypeOK
<1>4. taskRegistry = InRegistry /\ \A h \in Holders : Tells(h)
  BY <1>3, PromiseAssumption DEF Tells, InRegistry, PromiseInit, Settled
<1>5. \A h \in Holders : OnTheWay(h)
  BY <1>1, PromiseAssumption DEF OnTheWay, PromiseInit
<1>6. JobIsMains /\ ClosesAfterMain
  BY <1>1, <1>2 DEF JobIsMains, ClosesAfterMain
<1> QED
  BY <1>3, <1>4, <1>5, <1>6 DEF PromiseInv, PromiseInit

(* A holder that a step does not touch, while ended tasks stay ended.      *)
LEMMA HolderSame ==
  ASSUME PromiseTypeOK, NEW h \in Holders, Tells(h), OnTheWay(h),
         \A t \in Tasks : IsCompleted(t) => task'[t] = task[t],
         taskOf'[h] = taskOf[h], promise'[h] = promise[h], uses'[h] = uses[h],
         calling' = h <=> calling = h, h \in attached' <=> h \in attached,
         state'[h] = state[h]
  PROVE  Tells(h)' /\ OnTheWay(h)'
<1>1. promise[h] # "unused" => taskOf[h] \in Tasks
  BY DEF PromiseTypeOK
<1>2. promise[h] # "unused" /\ IsCompleted(taskOf[h]) =>
        task'[taskOf[h]] = task[taskOf[h]] /\ IsCompleted(taskOf[h])'
  BY <1>1 DEF IsCompleted
<1>3. Tells(h)'
  BY <1>2 DEF Tells, Settled
<1>4. OnTheWay(h)'
  BY <1>2 DEF OnTheWay, Settled
<1> QED
  BY <1>3, <1>4

(* A task ends, for good.                                                  *)
LEMMA CompleteKeeps ==
  ASSUME PromiseInv, NEW t \in Tasks, NEW outcome \in Outcomes, Complete(t, outcome)
  PROVE  PromiseInv'
<1> USE DEF PromiseInv
<1>1. /\ task[t] = "running" /\ task' = [task EXCEPT ![t] = outcome]
      /\ outcome = "unsupported" => t \in Typed
      /\ UNCHANGED <<taskOf, taskRegistry, promise, uses, calling, attached,
                     state, micro, transit, macro, open>>
  BY DEF Complete, holderVars, schedulerVars
<1>2. PromiseTypeOK'
  BY <1>1 DEF PromiseTypeOK, Outcomes
<1>3. \A u \in Tasks : IsCompleted(u) => task'[u] = task[u]
  BY <1>1 DEF PromiseTypeOK, IsCompleted, Outcomes
<1>4. \A h \in Holders : Tells(h)' /\ OnTheWay(h)'
  BY <1>1, <1>3, HolderSame
<1>5. \A u \in Tasks : task'[u] = "unsupported" => u \in Typed
  BY <1>1 DEF PromiseTypeOK
<1> QED
  BY <1>1, <1>2, <1>4, <1>5 DEF InRegistry, JobIsMains, ClosesAfterMain

(* A new holder.                                                           *)
LEMMA MarshallKeeps ==
  ASSUME PromiseInv, NEW h \in Holders, NEW t \in Tasks, MarshallTask(h, t)
  PROVE  PromiseInv'
<1> USE DEF PromiseInv
<1>1. /\ taskOf[h] = NoTask /\ (h = Main => open)
      /\ taskOf' = [taskOf EXCEPT ![h] = t]
      /\ taskRegistry' = taskRegistry \cup {h}
      /\ promise' = [promise EXCEPT ![h] = "value"]
      /\ UNCHANGED <<task, uses, calling, attached, state, micro, transit, macro, open>>
  BY DEF MarshallTask, schedulerVars
<1>2. promise[h] = "unused" /\ promise'[h] = "value" /\ taskOf'[h] = t /\ t # NoTask
  BY <1>1, PromiseAssumption DEF PromiseTypeOK
<1>3. \A g \in Holders \ {h} : promise'[g] = promise[g] /\ taskOf'[g] = taskOf[g]
  BY <1>1 DEF PromiseTypeOK
<1>4. PromiseTypeOK'
  <2>1. taskOf' \in [Holders -> Tasks \cup {NoTask}]
        /\ promise' \in [Holders -> Settled \cup {"unused", "value", "lost", "pending"}]
    BY <1>1 DEF PromiseTypeOK
  <2>2. taskRegistry' \subseteq Holders
    BY <1>1 DEF PromiseTypeOK
  <2>3. \A g \in Holders : taskOf'[g] = NoTask <=> promise'[g] = "unused"
    BY <1>2, <1>3 DEF PromiseTypeOK
  <2> QED
    BY <1>1, <2>1, <2>2, <2>3 DEF PromiseTypeOK
<1>5. Tells(h)' /\ OnTheWay(h)'
  BY <1>1, <1>2 DEF Tells, OnTheWay, Settled
<1>6. \A g \in Holders \ {h} : Tells(g)' /\ OnTheWay(g)'
  BY <1>1, <1>3, HolderSame
<1>7. taskRegistry' = InRegistry'
  BY <1>1, <1>2, <1>3 DEF InRegistry
<1>8. JobIsMains' /\ ClosesAfterMain'
  BY <1>1, <1>2, <1>3, PromiseAssumption DEF JobIsMains, ClosesAfterMain, Settled
<1> QED
  BY <1>1, <1>4, <1>5, <1>6, <1>7, <1>8

(* A value nobody converts stays in the registry.                          *)
LEMMA LoseKeeps ==
  ASSUME PromiseInv, NEW h \in Holders, LoseValue(h)
  PROVE  PromiseInv'
<1> USE DEF PromiseInv
<1>1. /\ h # Main /\ promise[h] = "value"
      /\ promise' = [promise EXCEPT ![h] = "lost"]
      /\ UNCHANGED <<task, taskOf, taskRegistry, uses, calling, attached,
                     state, micro, transit, macro, open>>
  BY DEF LoseValue, holderVars, schedulerVars
<1>2. promise'[h] = "lost" /\ \A g \in Holders \ {h} : promise'[g] = promise[g]
  BY <1>1 DEF PromiseTypeOK
<1>3. PromiseTypeOK'
  BY <1>1, <1>2 DEF PromiseTypeOK
<1>4. Tells(h)' /\ OnTheWay(h)'
  BY <1>1, <1>2 DEF Tells, OnTheWay, Settled
<1>5. \A g \in Holders \ {h} : Tells(g)' /\ OnTheWay(g)'
  BY <1>1, <1>2, HolderSame
<1>6. taskRegistry' = InRegistry'
  BY <1>1, <1>2 DEF InRegistry
<1>7. JobIsMains' /\ ClosesAfterMain'
  BY <1>1, <1>2, PromiseAssumption DEF JobIsMains, ClosesAfterMain, Settled
<1> QED
  BY <1>1, <1>3, <1>4, <1>5, <1>6, <1>7

-----------------------------------------------------------------------------
(* Settlements.                                                            *)

(* An answer tells how the task ended.                                     *)
LEMMA AnswerTells ==
  ASSUME PromiseInv, NEW t \in Tasks, IsCompleted(t)
  PROVE  /\ Answer(t) \in Settled \cup {"throws"}
         /\ Answer(t) = "fulfilled" => task[t] = "value" \/ (t \notin Typed /\ task[t] # "faulted")
         /\ Answer(t) \in {"rejected", "throws"} =>
              task[t] = "faulted" \/ (t \in Typed /\ task[t] # "value")
BY DEF PromiseInv, Answer, IsCompleted, Outcomes, Settled

(* The promise is settled with such an answer, once.                       *)
LEMMA SettleTells ==
  ASSUME PromiseInv, NEW h \in Holders, NEW how \in Settled, Settle(h, how),
         promise[h] \in {"value", "pending"}, IsCompleted(taskOf[h]),
         how = IF Answer(taskOf[h]) = "throws" THEN "rejected" ELSE Answer(taskOf[h]),
         UNCHANGED <<task, taskOf, open>>,
         calling' # h, h \notin attached', state'[h] \in {"new", "done"}
  PROVE  /\ promise'[h] = how
         /\ \A g \in Holders \ {h} : promise'[g] = promise[g] /\ uses'[g] = uses[g]
         /\ promise' \in [Holders -> Settled \cup {"unused", "value", "lost", "pending"}]
         /\ uses' \in [Holders -> Nat] /\ micro' \in Seq(Holders \cup {JsJob})
         /\ \A g \in Holders : taskOf'[g] = NoTask <=> promise'[g] = "unused"
         /\ Tells(h)' /\ OnTheWay(h)'
         /\ JobIsMains' /\ ClosesAfterMain'
<1> USE DEF PromiseInv
<1>1. /\ promise' = [promise EXCEPT ![h] = how]
      /\ uses' = [uses EXCEPT ![h] = @ + 1]
      /\ micro' = IF h = Main THEN Append(micro, JsJob) ELSE micro
  BY DEF Settle
<1>2. taskOf[h] \in Tasks
  BY DEF PromiseTypeOK
<1>3. uses[h] = 0
  BY DEF Tells, Settled
<1>4. /\ promise'[h] = how /\ uses'[h] = 1
      /\ \A g \in Holders \ {h} : promise'[g] = promise[g] /\ uses'[g] = uses[g]
      /\ promise' \in [Holders -> Settled \cup {"unused", "value", "lost", "pending"}]
      /\ uses' \in [Holders -> Nat]
  BY <1>1, <1>3 DEF PromiseTypeOK
<1>5. \A g \in Holders : taskOf'[g] = NoTask <=> promise'[g] = "unused"
  BY <1>4 DEF PromiseTypeOK, Settled
<1>6. IsCompleted(taskOf[h])' /\ task'[taskOf'[h]] = task[taskOf[h]]
  BY DEF IsCompleted
<1>7. Tells(h)'
  BY <1>2, <1>4, <1>6, AnswerTells DEF Tells, Settled
<1>8. OnTheWay(h)'
  BY <1>4, <1>6 DEF OnTheWay, Settled
<1>9. micro \in Seq(Holders \cup {JsJob})
  BY DEF PromiseTypeOK
<1>10. /\ micro' \in Seq(Holders \cup {JsJob})
       /\ \A i \in 1..Len(micro') :
            (h = Main /\ micro'[i] = JsJob) \/ \E j \in 1..Len(micro) : micro'[i] = micro[j]
  BY <1>1, <1>9, JobStays
<1>11. JobIsMains' /\ ClosesAfterMain'
  <2>1. promise[Main] \in Settled \/ h = Main => promise'[Main] \in Settled
    BY <1>4, PromiseAssumption DEF Settled
  <2>2. JobIsMains'
    BY <1>10, <2>1 DEF JobIsMains
  <2> QED
    BY <2>1, <2>2 DEF ClosesAfterMain
<1> QED
  BY <1>4, <1>5, <1>7, <1>8, <1>10, <1>11

(* The task has ended: the promise is settled at once.                     *)
LEMMA SettleAtOnceKeeps ==
  ASSUME PromiseInv, NEW h \in Holders, SettleAtOnce(h)
  PROVE  PromiseInv'
<1> USE DEF PromiseInv
<1>1. PICK how : how = IF Answer(taskOf[h]) = "throws" THEN "rejected" ELSE Answer(taskOf[h])
  OBVIOUS
<1>2. /\ calling = NoTask /\ promise[h] = "value" /\ IsCompleted(taskOf[h]) /\ Settle(h, how)
      /\ taskRegistry' = taskRegistry \ {h}
      /\ UNCHANGED <<task, taskOf, calling, attached, state, transit, macro, open>>
  BY <1>1 DEF SettleAtOnce, NodeThreadIsFree
<1>3. taskOf[h] \in Tasks /\ how \in Settled
  BY <1>1, <1>2, AnswerTells DEF PromiseTypeOK, Settled
<1>4. calling' # h /\ h \notin attached' /\ state'[h] = "new"
  BY <1>2, PromiseAssumption DEF OnTheWay, PromiseTypeOK, Settled
<1>5. /\ promise'[h] = how
      /\ \A g \in Holders \ {h} : promise'[g] = promise[g] /\ uses'[g] = uses[g]
      /\ promise' \in [Holders -> Settled \cup {"unused", "value", "lost", "pending"}]
      /\ uses' \in [Holders -> Nat] /\ micro' \in Seq(Holders \cup {JsJob})
      /\ \A g \in Holders : taskOf'[g] = NoTask <=> promise'[g] = "unused"
      /\ Tells(h)' /\ OnTheWay(h)'
      /\ JobIsMains' /\ ClosesAfterMain'
  BY <1>1, <1>2, <1>3, <1>4, SettleTells
<1>6. PromiseTypeOK'
  BY <1>2, <1>5 DEF PromiseTypeOK
<1>7. \A g \in Holders \ {h} : Tells(g)' /\ OnTheWay(g)'
  BY <1>2, <1>5, HolderSame
<1>8. taskRegistry' = InRegistry'
  BY <1>2, <1>3, <1>4, <1>5 DEF InRegistry, Settled
<1> QED
  BY <1>2, <1>5, <1>6, <1>7, <1>8

(* The continuation settles the promise.                                   *)
LEMMA RunContinuationKeeps ==
  ASSUME PromiseInv, NEW h \in Holders, RunContinuation(h)
  PROVE  PromiseInv'
<1> USE DEF PromiseInv
<1>1. /\ state[h] = "running" /\ state' = [state EXCEPT ![h] = "done"]
      /\ UNCHANGED <<task, taskOf, taskRegistry, calling, attached, transit, macro, open>>
  BY DEF RunContinuation, holderVars
<1>2. /\ promise[h] = "pending" /\ IsCompleted(taskOf[h]) /\ calling # h /\ h \notin attached
      /\ taskOf[h] \in Tasks
  BY <1>1 DEF OnTheWay, PromiseTypeOK
<1>3. /\ state' \in [Holders -> {"new", "started", "running", "done"}] /\ state'[h] = "done"
      /\ \A g \in Holders \ {h} : state'[g] = state[g]
  BY <1>1 DEF PromiseTypeOK
<1>4. CASE Answer(taskOf[h]) = "throws"
  <2>1. UNCHANGED <<promise, uses, micro>>
    BY <1>4 DEF RunContinuation
  <2>2. PromiseTypeOK'
    BY <1>1, <1>3, <2>1 DEF PromiseTypeOK
  <2>3. Tells(h)' /\ OnTheWay(h)'
    BY <1>1, <1>2, <1>3, <2>1 DEF Tells, OnTheWay, IsCompleted
  <2>4. \A g \in Holders \ {h} : Tells(g)' /\ OnTheWay(g)'
    BY <1>1, <1>3, <2>1, HolderSame
  <2> QED
    BY <1>1, <2>1, <2>2, <2>3, <2>4 DEF InRegistry, JobIsMains, ClosesAfterMain
<1>5. CASE Answer(taskOf[h]) # "throws"
  <2>1. PICK how : how = Answer(taskOf[h])
    OBVIOUS
  <2>2. Settle(h, how) /\ how \in Settled
    BY <1>2, <1>5, <2>1, AnswerTells DEF RunContinuation
  <2>3. /\ promise'[h] = how
        /\ \A g \in Holders \ {h} : promise'[g] = promise[g] /\ uses'[g] = uses[g]
        /\ promise' \in [Holders -> Settled \cup {"unused", "value", "lost", "pending"}]
        /\ uses' \in [Holders -> Nat] /\ micro' \in Seq(Holders \cup {JsJob})
        /\ \A g \in Holders : taskOf'[g] = NoTask <=> promise'[g] = "unused"
        /\ Tells(h)' /\ OnTheWay(h)'
        /\ JobIsMains' /\ ClosesAfterMain'
    BY <1>1, <1>2, <1>3, <1>5, <2>1, <2>2, SettleTells
  <2>4. PromiseTypeOK'
    BY <1>1, <1>3, <2>3 DEF PromiseTypeOK
  <2>5. \A g \in Holders \ {h} : Tells(g)' /\ OnTheWay(g)'
    BY <1>1, <1>3, <2>3, HolderSame
  <2>6. taskRegistry' = InRegistry'
    BY <1>1, <1>2, <2>2, <2>3 DEF InRegistry, Settled
  <2> QED
    BY <1>1, <2>3, <2>4, <2>5, <2>6
<1> QED
  BY <1>4, <1>5

-----------------------------------------------------------------------------
(* The way to the scheduler.                                               *)

(* The test finds the task running.                                        *)
LEMMA FindRunningKeeps ==
  ASSUME PromiseInv, NEW h \in Holders, FindRunning(h)
  PROVE  PromiseInv'
<1> USE DEF PromiseInv
<1>1. /\ calling = NoTask /\ promise[h] = "value"
      /\ promise' = [promise EXCEPT ![h] = "pending"] /\ calling' = h
      /\ UNCHANGED <<task, taskOf, taskRegistry, uses, attached, state, micro, transit, macro, open>>
  BY DEF FindRunning, NodeThreadIsFree, holderVars, schedulerVars
<1>2. promise'[h] = "pending" /\ \A g \in Holders \ {h} : promise'[g] = promise[g]
  BY <1>1 DEF PromiseTypeOK
<1>3. PromiseTypeOK'
  BY <1>1, <1>2 DEF PromiseTypeOK
<1>4. Tells(h)' /\ OnTheWay(h)'
  BY <1>1, <1>2 DEF Tells, OnTheWay, Settled, PromiseTypeOK
<1>5. \A g \in Holders \ {h} : Tells(g)' /\ OnTheWay(g)'
  BY <1>1, <1>2, PromiseAssumption, HolderSame
<1>6. taskRegistry' = InRegistry'
  BY <1>1, <1>2, PromiseAssumption DEF InRegistry
<1>7. JobIsMains' /\ ClosesAfterMain'
  BY <1>1, <1>2, PromiseAssumption DEF JobIsMains, ClosesAfterMain, Settled
<1> QED
  BY <1>1, <1>3, <1>4, <1>5, <1>6, <1>7

(* The continuation is attached, or found to be due.                       *)
LEMMA ContinueWithKeeps ==
  ASSUME PromiseInv, NEW h \in Holders, ContinueWith(h)
  PROVE  PromiseInv'
<1> USE DEF PromiseInv
<1>1. /\ calling = h /\ calling' = NoTask
      /\ attached' = attached \cup {h} /\ taskRegistry' = taskRegistry \ {h}
      /\ UNCHANGED <<task, taskOf, promise, uses, state, micro, transit, macro, open>>
  BY DEF ContinueWith, schedulerVars
<1>2. PromiseTypeOK'
  BY <1>1 DEF PromiseTypeOK
<1>3. Tells(h)' /\ OnTheWay(h)'
  BY <1>1, PromiseAssumption DEF Tells, OnTheWay, IsCompleted
<1>4. \A g \in Holders \ {h} : Tells(g)' /\ OnTheWay(g)'
  BY <1>1, PromiseAssumption, HolderSame
<1>5. taskRegistry' = InRegistry'
  BY <1>1, PromiseAssumption DEF InRegistry, OnTheWay
<1>6. JobIsMains' /\ ClosesAfterMain'
  BY <1>1 DEF JobIsMains, ClosesAfterMain
<1> QED
  BY <1>1, <1>2, <1>3, <1>4, <1>5, <1>6

(* Whichever way the scheduler takes it.                                   *)
LEMMA QueueContinuationKeeps ==
  ASSUME PromiseInv, NEW h \in Holders, QueueContinuation(h)
  PROVE  PromiseInv'
<1> USE DEF PromiseInv
<1>1. /\ h \in attached /\ IsCompleted(taskOf[h]) /\ attached' = attached \ {h}
      /\ UNCHANGED <<task, taskOf, taskRegistry, promise, uses, calling, open>>
      /\ state' = [state EXCEPT ![h] = "started"]
      /\ micro' = micro \/ micro' = Append(micro, h)
      /\ macro' = macro \/ macro' = Append(macro, h)
      /\ transit' = transit \/ transit' = transit \cup {h}
  BY DEF QueueContinuation, holderVars, Scheduler!QueueMicro, Scheduler!QueueMacro,
     Scheduler!QueueLate, Scheduler!Accept
<1>2. state'[h] = "started" /\ \A g \in Holders \ {h} : state'[g] = state[g]
  BY <1>1 DEF PromiseTypeOK
<1>3. micro \in Seq(Holders \cup {JsJob}) /\ macro \in Seq(Holders)
  BY DEF PromiseTypeOK
<1>4. /\ micro' \in Seq(Holders \cup {JsJob})
      /\ \A i \in 1..Len(micro') : micro'[i] = h \/ \E j \in 1..Len(micro) : micro'[i] = micro[j]
  <2>1. PICK S : S = Holders \cup {JsJob}
    OBVIOUS
  <2>2. micro \in Seq(S) /\ h \in S /\ (micro' = micro \/ micro' = Append(micro, h))
    BY <1>1, <1>3, <2>1
  <2>3. /\ micro' \in Seq(S)
        /\ \A i \in 1..Len(micro') : micro'[i] = h \/ \E j \in 1..Len(micro) : micro'[i] = micro[j]
    BY <2>2, JobStays
  <2> QED
    BY <2>1, <2>3
<1>5. macro' \in Seq(Holders)
  BY <1>1, <1>3, AppendFacts
<1>6. PromiseTypeOK'
  BY <1>1, <1>4, <1>5 DEF PromiseTypeOK
<1>7. Tells(h)' /\ OnTheWay(h)'
  BY <1>1, <1>2 DEF Tells, OnTheWay, IsCompleted
<1>8. \A g \in Holders \ {h} : Tells(g)' /\ OnTheWay(g)'
  BY <1>1, <1>2, HolderSame
<1>9. taskRegistry' = InRegistry'
  BY <1>1 DEF InRegistry
<1>10. JobIsMains' /\ ClosesAfterMain'
  BY <1>1, <1>4, PromiseAssumption DEF JobIsMains, ClosesAfterMain
<1> QED
  BY <1>1, <1>6, <1>7, <1>8, <1>9, <1>10

(* The scheduler's own steps start at most a continuation that waits.      *)
LEMMA SchedulerKeeps ==
  ASSUME PromiseInv,
         SchedulerStep \/ \E h \in Holders : Arrive(h)
  PROVE  PromiseInv'
<1> USE DEF PromiseInv
<1>1. micro \in Seq(Holders \cup {JsJob}) /\ macro \in Seq(Holders)
  BY DEF PromiseTypeOK
<1>2. /\ UNCHANGED <<task, taskOf, taskRegistry, promise, uses, calling, attached, open>>
      /\ \/ state' = state
         \/ \E h \in Holders : state[h] = "started" /\ state' = [state EXCEPT ![h] = "running"]
      /\ micro' = micro \/ (micro # <<>> /\ micro' = Tail(micro))
      /\ \/ macro' = macro \/ macro' = <<>>
         \/ macro # <<>> /\ macro' = Tail(macro)
         \/ \E h \in Holders : macro' = Append(macro, h)
      /\ transit' \subseteq transit
  <2>1. CASE \E h \in Holders : Arrive(h)
    BY <2>1 DEF Arrive, holderVars, Scheduler!Arrive
  <2>2. CASE SchedulerStep /\ Scheduler!RunMicro
    <3>1. Head(micro) \in Holders
      BY <1>1, <2>2, TailFacts DEF Scheduler!RunMicro
    <3> QED
      BY <2>2, <3>1 DEF SchedulerStep, holderVars, Scheduler!RunMicro, Scheduler!Execute
  <2>3. CASE SchedulerStep /\ Scheduler!RunMacro
    <3>1. Head(macro) \in Holders
      BY <1>1, <2>3, TailFacts DEF Scheduler!RunMacro
    <3> QED
      BY <2>3, <3>1 DEF SchedulerStep, holderVars, Scheduler!RunMacro, Scheduler!Execute
  <2>4. CASE SchedulerStep /\ Scheduler!Discard
    BY <2>4 DEF SchedulerStep, holderVars, Scheduler!Discard
  <2> QED
    BY <2>1, <2>2, <2>3, <2>4 DEF SchedulerStep
<1>3. /\ state' \in [Holders -> {"new", "started", "running", "done"}]
      /\ \A g \in Holders : state'[g] = state[g] \/ (state[g] = "started" /\ state'[g] = "running")
  BY <1>2 DEF PromiseTypeOK
<1>4. /\ micro' \in Seq(Holders \cup {JsJob})
      /\ \A i \in 1..Len(micro') : \E j \in 1..Len(micro) : micro'[i] = micro[j]
  <2>1. CASE micro' = micro
    BY <1>1, <2>1
  <2>2. CASE micro # <<>> /\ micro' = Tail(micro)
    <3>1. /\ micro' \in Seq(Holders \cup {JsJob}) /\ Len(micro') = Len(micro) - 1
          /\ Len(micro) \in Nat \ {0}
          /\ \A i \in 1..Len(micro') : micro'[i] = micro[i + 1]
      BY <1>1, <2>2, TailFacts
    <3>2. \A i \in 1..Len(micro') : i + 1 \in 1..Len(micro)
      BY <3>1
    <3> QED
      BY <3>1, <3>2
  <2> QED
    BY <1>2, <2>1, <2>2
<1>5. macro' \in Seq(Holders)
  <2>1. <<>> \in Seq(Holders)
    OBVIOUS
  <2>2. CASE macro # <<>> /\ macro' = Tail(macro)
    BY <1>1, <2>2, TailFacts
  <2>3. CASE \E h \in Holders : macro' = Append(macro, h)
    BY <1>1, <2>3, AppendFacts
  <2> QED
    BY <1>1, <1>2, <2>1, <2>2, <2>3
<1>6. PromiseTypeOK'
  BY <1>2, <1>3, <1>4, <1>5 DEF PromiseTypeOK
<1>7. ASSUME NEW g \in Holders
      PROVE  Tells(g)' /\ OnTheWay(g)'
  <2>1. CASE state'[g] = state[g]
    BY <1>2, <2>1, HolderSame
  <2>2. CASE state[g] = "started" /\ state'[g] = "running"
    BY <1>2, <2>2 DEF Tells, OnTheWay, IsCompleted
  <2> QED
    BY <1>3, <2>1, <2>2
<1>8. JobIsMains'
  BY <1>2, <1>4 DEF JobIsMains
<1> QED
  BY <1>2, <1>6, <1>7, <1>8 DEF InRegistry, ClosesAfterMain

(* Closing, after Main's promise was settled or because there is no Main.  *)
LEMMA CloseKeeps ==
  ASSUME PromiseInv, CloseAfterMain \/ CloseWithoutMain
  PROVE  PromiseInv'
<1> USE DEF PromiseInv
<1>1. micro \in Seq(Holders \cup {JsJob})
  BY DEF PromiseTypeOK
<1>2. /\ UNCHANGED <<task, taskOf, taskRegistry, promise, uses, calling, attached,
                     state, transit, macro>>
      /\ open' = FALSE
      /\ \/ micro # <<>> /\ Head(micro) = JsJob /\ micro' = Tail(micro)
         \/ taskOf[Main] = NoTask /\ micro' = micro
  BY DEF CloseAfterMain, CloseWithoutMain, holderVars, Scheduler!Close
<1>3. CASE micro # <<>> /\ Head(micro) = JsJob /\ micro' = Tail(micro)
  <2>1. /\ micro' \in Seq(Holders \cup {JsJob}) /\ Len(micro') = Len(micro) - 1
        /\ Len(micro) \in Nat \ {0} /\ micro[1] = JsJob
        /\ \A i \in 1..Len(micro') : micro'[i] = micro[i + 1]
    BY <1>1, <1>3, TailFacts
  <2>2. promise[Main] \in Settled
    BY <2>1 DEF JobIsMains
  <2>3. JobIsMains' /\ ClosesAfterMain'
    BY <1>2, <2>2 DEF JobIsMains, ClosesAfterMain
  <2>4. PromiseTypeOK'
    BY <1>2, <2>1 DEF PromiseTypeOK
  <2>5. \A g \in Holders : Tells(g)' /\ OnTheWay(g)'
    BY <1>2, HolderSame
  <2> QED
    BY <1>2, <2>3, <2>4, <2>5 DEF InRegistry
<1>4. CASE taskOf[Main] = NoTask /\ micro' = micro
  <2>1. JobIsMains' /\ ClosesAfterMain' /\ PromiseTypeOK'
    BY <1>2, <1>4 DEF JobIsMains, ClosesAfterMain, PromiseTypeOK
  <2>2. \A g \in Holders : Tells(g)' /\ OnTheWay(g)'
    BY <1>2, HolderSame
  <2> QED
    BY <1>2, <2>1, <2>2 DEF InRegistry
<1> QED
  BY <1>2, <1>3, <1>4

(* Every step keeps PromiseInv.                                            *)
LEMMA PromiseInvNext == PromiseInv /\ [PromiseNext]_promiseVars => PromiseInv'
<1> SUFFICES ASSUME PromiseInv, [PromiseNext]_promiseVars PROVE PromiseInv'
  OBVIOUS
<1>1. CASE UNCHANGED promiseVars
  <2>1. UNCHANGED <<task, taskOf, taskRegistry, promise, uses, calling, attached,
                    state, micro, transit, macro, open>>
    BY <1>1 DEF promiseVars, holderVars, schedulerVars
  <2>2. PromiseTypeOK' /\ JobIsMains' /\ ClosesAfterMain'
    BY <2>1 DEF PromiseInv, PromiseTypeOK, JobIsMains, ClosesAfterMain
  <2>3. \A g \in Holders : Tells(g)' /\ OnTheWay(g)'
    BY <2>1, HolderSame DEF PromiseInv
  <2> QED
    BY <2>1, <2>2, <2>3 DEF PromiseInv, InRegistry
<1>2. ASSUME NEW h \in Holders, HolderStep(h)
      PROVE  PromiseInv'
  BY <1>2, SettleAtOnceKeeps, FindRunningKeeps, ContinueWithKeeps, QueueContinuationKeeps,
     SchedulerKeeps, RunContinuationKeeps DEF HolderStep
<1>3. ASSUME NEW h \in Holders, LoseValue(h) \/ \E t \in Tasks : MarshallTask(h, t)
      PROVE  PromiseInv'
  BY <1>3, LoseKeeps, MarshallKeeps
<1>4. ASSUME NEW t \in Tasks, NEW outcome \in Outcomes, Complete(t, outcome)
      PROVE  PromiseInv'
  BY <1>4, CompleteKeeps
<1>5. CASE SchedulerStep
  BY <1>5, SchedulerKeeps
<1>6. CASE CloseAfterMain \/ CloseWithoutMain
  BY <1>6, CloseKeeps
<1> QED
  BY <1>1, <1>2, <1>3, <1>4, <1>5, <1>6 DEF PromiseNext

(* PromiseInv holds in every behaviour.                                    *)
LEMMA PromiseInvariant == PromiseSpec => []PromiseInv
BY PromiseInvInit, PromiseInvNext, PTL DEF PromiseSpec

(* A promise is resolved or rejected once, with how its task ended and not *)
(* before, wherever the end falls between the test and ContinueWith, and   *)
(* _taskRegistry keeps exactly the holders native code may still call.     *)
(* (TaskHolder.OnCalled, CompletePromise.)                                 *)
THEOREM PromisesTellOutcomes == PromiseSpec => []PromiseTellsOutcome
<1>1. PromiseInv => PromiseTellsOutcome
  BY DEF PromiseInv, PromiseTellsOutcome, Tells, InRegistry
<1> QED
  BY <1>1, PromiseInvariant, PTL

(* The runtime closes only after Main's promise is settled, or if there is *)
(* no Main. (RunCoreApp.)                                                  *)
THEOREM ClosedAfterMain == PromiseSpec => []ClosesAfterMain
<1>1. PromiseInv => ClosesAfterMain
  BY DEF PromiseInv
<1> QED
  BY <1>1, PromiseInvariant, PTL
=============================================================================
