--------------------------- MODULE Handles_proofs ---------------------------
(***************************************************************************)
(* Proofs about JsHandles and DotNetValues, for any number of handles,     *)
(* frames, delegates, blocks and values. Both account for what one side    *)
(* made for the other: the sum of owners that OneOwner and OneReleaser     *)
(* count is not inductive, but who the one owner is (Owned, Released) is,  *)
(* with the frames and calls that hold nothing twice.                      *)
(***************************************************************************)
EXTENDS JsHandles, DotNetValues, SequenceFacts, FiniteSetTheorems

-----------------------------------------------------------------------------
(* The stack and the handles its frames hold.                              *)

(* The handles that the frames of a stack hold.                            *)
Held(st) == UNION {ToSet(st[i].pending) : i \in DOMAIN st}

(* No element twice.                                                       *)
Injective(s) == \A j, k \in DOMAIN s : s[j] = s[k] => j = k

(* A frame holds at most MaxArgs handles, none of them twice.              *)
FrameOK(f) ==
  /\ f \in Frames
  /\ Len(f.pending) <= MaxArgs /\ Injective(f.pending)
  /\ f.kind = "dotnet" => f.pending = <<>>

(* The frame below all others runs code and holds nothing.                 *)
Base(f) == f.kind \in {"js", "dotnet"} /\ f.pending = <<>>

(* Only JavaScript and .NET call: any other frame is on top. No two frames *)
(* hold the same handle.                                                   *)
StackOK(st) ==
  /\ st \in Seq(Frames)
  /\ \A i \in DOMAIN st : FrameOK(st[i])
  /\ \A i \in DOMAIN st : i < Len(st) => st[i].kind \in {"js", "dotnet"}
  /\ st # <<>> => Base(st[1])
  /\ \A i, k \in DOMAIN st : i # k => ToSet(st[i].pending) \cap ToSet(st[k].pending) = {}

(* What a frame holds the stack holds.                                     *)
LEMMA HeldBy ==
  ASSUME NEW st, NEW i \in DOMAIN st
  PROVE  ToSet(st[i].pending) \subseteq Held(st)
  BY DEF Held

(* A frame is pushed: its handles are new to the stack.                    *)
LEMMA PushKeeps ==
  ASSUME NEW st, StackOK(st), NEW f, FrameOK(f), NEW r, r = Append(st, f),
         st = <<>> => Base(f),
         st # <<>> => st[Len(st)].kind \in {"js", "dotnet"},
         ToSet(f.pending) \cap Held(st) = {}
  PROVE  StackOK(r) /\ Held(r) = Held(st) \cup ToSet(f.pending)
<1>1. st \in Seq(Frames) /\ f \in Frames
  BY DEF StackOK, FrameOK
<1>2. PICK n : n = Len(st)
  OBVIOUS
<1>3. /\ r \in Seq(Frames) /\ n \in Nat /\ Len(r) = n + 1
      /\ \A i \in 1..n : r[i] = st[i]
      /\ r[n + 1] = f
  BY <1>1, <1>2, AppendFacts
<1>4. DOMAIN st = 1..n /\ DOMAIN r = 1..(n + 1)
  BY <1>1, <1>2, <1>3
<1>5. \A i \in 1..(n + 1) : i \in 1..n \/ i = n + 1
  BY <1>3
<1>6. \A i \in DOMAIN r : FrameOK(r[i])
  BY <1>3, <1>4, <1>5 DEF StackOK
<1>7. ASSUME NEW i \in DOMAIN r, i < Len(r) PROVE r[i].kind \in {"js", "dotnet"}
  <2>1. i \in 1..n /\ r[i] = st[i]
    BY <1>3, <1>4, <1>7
  <2>2. CASE i = n
    <3>1. st # <<>>
      BY <1>2, <2>1
    <3> QED
      BY <1>2, <2>1, <2>2, <3>1
  <2>3. CASE i < n
    BY <1>2, <1>4, <2>1, <2>3 DEF StackOK
  <2> QED
    BY <1>3, <2>1, <2>2, <2>3
<1>8. Base(r[1])
  <2>1. CASE st = <<>>
    <3>1. n = 0
      BY <1>2, <2>1
    <3> QED
      BY <1>3, <2>1, <3>1
  <2>2. CASE st # <<>>
    <3>1. 1 \in 1..n
      BY <1>1, <1>2, <1>3, <2>2, EmptySeq
    <3> QED
      BY <1>3, <2>2, <3>1 DEF StackOK
  <2> QED
    BY <2>1, <2>2
<1>9. ASSUME NEW i \in DOMAIN r, NEW k \in DOMAIN r, i # k
      PROVE  ToSet(r[i].pending) \cap ToSet(r[k].pending) = {}
  <2>1. CASE i \in 1..n /\ k \in 1..n
    BY <1>3, <1>4, <1>9, <2>1 DEF StackOK
  <2>2. CASE i \in 1..n /\ k = n + 1
    <3>1. ToSet(st[i].pending) \subseteq Held(st)
      BY <1>4, <2>2, HeldBy
    <3> QED
      BY <1>3, <2>2, <3>1
  <2>3. CASE i = n + 1 /\ k \in 1..n
    <3>1. ToSet(st[k].pending) \subseteq Held(st)
      BY <1>4, <2>3, HeldBy
    <3> QED
      BY <1>3, <2>3, <3>1
  <2> QED
    BY <1>4, <1>5, <1>9, <2>1, <2>2, <2>3
<1>10. Held(r) = Held(st) \cup ToSet(f.pending)
  <2>1. n + 1 \in DOMAIN r /\ \A i \in DOMAIN st : i \in DOMAIN r
    BY <1>3, <1>4
  <2>2. \A x \in Held(r) : x \in Held(st) \cup ToSet(f.pending)
    BY <1>3, <1>4, <1>5 DEF Held
  <2>3. \A x \in Held(st) : x \in Held(r)
    BY <1>3, <1>4, <2>1 DEF Held
  <2>4. \A x \in ToSet(f.pending) : x \in Held(r)
    BY <1>3, <2>1 DEF Held
  <2> QED
    BY <2>2, <2>3, <2>4
<1> QED
  BY <1>3, <1>6, <1>7, <1>8, <1>9, <1>10 DEF StackOK

(* A stack that is not empty has a last frame.                             *)
LEMMA TopFacts ==
  ASSUME NEW st, StackOK(st), st # <<>>, NEW n, n = Len(st)
  PROVE  /\ st \in Seq(Frames) /\ n \in Nat \ {0} /\ DOMAIN st = 1..n
         /\ 1 \in 1..n /\ n \in 1..n
         /\ FrameOK(st[n])
<1>1. st \in Seq(Frames)
  BY DEF StackOK
<1>2. n \in Nat \ {0} /\ DOMAIN st = 1..n
  BY <1>1, EmptySeq
<1>3. 1 \in 1..n /\ n \in 1..n
  BY <1>2
<1> QED
  BY <1>1, <1>2, <1>3 DEF StackOK

(* The last frame is popped and what it held is no longer held.            *)
LEMMA PopKeeps ==
  ASSUME NEW st, StackOK(st), st # <<>>, NEW r, r = Front(st)
  PROVE  /\ StackOK(r) /\ Held(r) = Held(st) \ ToSet(st[Len(st)].pending)
         /\ r # <<>> => r[Len(r)].kind \in {"js", "dotnet"}
<1>1. PICK n : n = Len(st)
  OBVIOUS
<1>2. /\ st \in Seq(Frames) /\ n \in Nat \ {0} /\ DOMAIN st = 1..n
      /\ 1 \in 1..n /\ n \in 1..n
  BY <1>1, TopFacts
<1>3. PICK m \in Nat : m = n - 1
  BY <1>2
<1>4. r \in Seq(Frames) /\ Len(r) = m /\ \A i \in 1..m : r[i] = st[i]
  BY <1>1, <1>2, <1>3, FrontFacts DEF Front
<1>5. DOMAIN r = 1..m /\ \A i \in 1..m : i \in 1..n /\ i < n
  BY <1>2, <1>3, <1>4
<1>6. \A i \in DOMAIN r : FrameOK(r[i]) /\ r[i].kind \in {"js", "dotnet"}
  BY <1>1, <1>2, <1>4, <1>5 DEF StackOK
<1>7. r # <<>> => 1 \in 1..m /\ m \in 1..m
  BY <1>3, <1>4, EmptySeq
<1>8. r # <<>> => Base(r[1]) /\ r[m].kind \in {"js", "dotnet"}
  BY <1>4, <1>5, <1>6, <1>7 DEF StackOK
<1>9. \A i, k \in DOMAIN r : i # k => ToSet(r[i].pending) \cap ToSet(r[k].pending) = {}
  BY <1>2, <1>4, <1>5 DEF StackOK
<1>10. Held(r) = Held(st) \ ToSet(st[n].pending)
  <2>1. ASSUME NEW i \in 1..m PROVE ToSet(r[i].pending) \subseteq Held(st) \ ToSet(st[n].pending)
    <3>1. ToSet(st[i].pending) \subseteq Held(st)
      BY <1>2, <1>5, HeldBy
    <3>2. i \in DOMAIN st /\ n \in DOMAIN st /\ i # n
      BY <1>2, <1>5
    <3>3. ToSet(st[i].pending) \cap ToSet(st[n].pending) = {}
      BY <3>2 DEF StackOK
    <3> QED
      BY <1>4, <3>1, <3>3
  <2>2. \A x \in Held(r) : x \in Held(st) \ ToSet(st[n].pending)
    BY <1>5, <2>1 DEF Held
  <2>3. ASSUME NEW i \in 1..n, i # n PROVE ToSet(st[i].pending) \subseteq Held(r)
    <3>1. i \in 1..m
      BY <1>2, <1>3, <2>3
    <3> QED
      BY <1>4, <1>5, <3>1, HeldBy
  <2>4. \A x \in Held(st) \ ToSet(st[n].pending) : x \in Held(r)
    BY <1>2, <2>3 DEF Held
  <2> QED
    BY <2>2, <2>4
<1> QED
  BY <1>1, <1>4, <1>6, <1>8, <1>9, <1>10 DEF StackOK

(* The last frame becomes another.                                         *)
LEMMA BecomeKeeps ==
  ASSUME NEW st, StackOK(st), st # <<>>, NEW f, FrameOK(f), NEW r, r = [st EXCEPT ![Len(st)] = f],
         Len(st) = 1 => Base(f),
         ToSet(f.pending) \cap (Held(st) \ ToSet(st[Len(st)].pending)) = {}
  PROVE  /\ StackOK(r) /\ Len(r) = Len(st) /\ r # <<>> /\ r[Len(r)] = f
         /\ Held(r) = (Held(st) \ ToSet(st[Len(st)].pending)) \cup ToSet(f.pending)
<1>1. PICK n, t : n = Len(st) /\ t = ToSet(st[n].pending)
  OBVIOUS
<1>2. /\ st \in Seq(Frames) /\ n \in Nat \ {0} /\ DOMAIN st = 1..n
      /\ 1 \in 1..n /\ n \in 1..n /\ f \in Frames
  BY <1>1, TopFacts DEF FrameOK
<1>3. /\ r \in Seq(Frames) /\ Len(r) = n /\ DOMAIN r = 1..n
      /\ r[n] = f /\ \A i \in 1..n : i # n => r[i] = st[i]
  BY <1>1, <1>2
<1>4. \A i \in DOMAIN r : FrameOK(r[i])
  BY <1>2, <1>3 DEF StackOK
<1>5. \A i \in DOMAIN r : i < Len(r) => r[i].kind \in {"js", "dotnet"}
  BY <1>1, <1>2, <1>3 DEF StackOK
<1>6. Base(r[1])
  <2>1. CASE n = 1
    BY <1>1, <1>3, <2>1
  <2>2. CASE n # 1
    BY <1>2, <1>3, <2>2 DEF StackOK
  <2> QED
    BY <2>1, <2>2
<1>7. \A i \in 1..n : i # n => ToSet(r[i].pending) \subseteq Held(st) \ t
  <2> SUFFICES ASSUME NEW i \in 1..n, i # n PROVE ToSet(st[i].pending) \subseteq Held(st) \ t
    BY <1>3
  <2>1. ToSet(st[i].pending) \subseteq Held(st)
    BY <1>2, HeldBy
  <2>2. ToSet(st[i].pending) \cap t = {}
    BY <1>1, <1>2 DEF StackOK
  <2> QED
    BY <2>1, <2>2
<1>8. ASSUME NEW i \in DOMAIN r, NEW k \in DOMAIN r, i # k
      PROVE  ToSet(r[i].pending) \cap ToSet(r[k].pending) = {}
  <2>1. CASE i # n /\ k # n
    BY <1>2, <1>3, <1>8, <2>1 DEF StackOK
  <2>2. CASE i # n /\ k = n
    BY <1>1, <1>3, <1>7, <2>2
  <2>3. CASE i = n /\ k # n
    BY <1>1, <1>3, <1>7, <2>3
  <2> QED
    BY <1>8, <2>1, <2>2, <2>3
<1>9. Held(r) = (Held(st) \ t) \cup ToSet(f.pending)
  <2>1. \A x \in Held(r) : x \in (Held(st) \ t) \cup ToSet(f.pending)
    BY <1>3, <1>7 DEF Held
  <2>2. ASSUME NEW i \in 1..n, i # n PROVE ToSet(st[i].pending) \subseteq Held(r)
    BY <1>3, <2>2, HeldBy
  <2>3. \A x \in Held(st) \ t : x \in Held(r)
    BY <1>1, <1>2, <2>2 DEF Held
  <2>4. ToSet(f.pending) \subseteq Held(r)
    BY <1>2, <1>3, HeldBy
  <2> QED
    BY <2>1, <2>3, <2>4
<1>10. r # <<>>
  BY <1>2, <1>3
<1> QED
  BY <1>1, <1>3, <1>4, <1>5, <1>6, <1>8, <1>9, <1>10 DEF StackOK

(* A frame without its first handle, and what its handles are.             *)
LEMMA PendingFacts ==
  ASSUME NEW s \in Seq(Handles), s # <<>>, Injective(s), NEW r, r = Tail(s)
  PROVE  /\ r \in Seq(Handles) /\ Injective(r) /\ Len(r) < Len(s)
         /\ Head(s) \in Handles
         /\ Head(s) \notin ToSet(r)
         /\ ToSet(s) = ToSet(r) \cup {Head(s)}
<1>1. /\ r \in Seq(Handles) /\ Len(r) = Len(s) - 1 /\ Len(s) \in Nat \ {0}
      /\ \A i \in 1..Len(r) : r[i] = s[i + 1]
      /\ Head(s) = s[1] /\ Head(s) \in Handles
  BY TailFacts
<1>2. Len(r) \in Nat
  BY <1>1
<1>3. PICK n \in Nat : n = Len(r)
  BY <1>2
<1>4. /\ DOMAIN r = 1..n /\ DOMAIN s = 1..(n + 1)
      /\ \A i \in 1..n : i + 1 \in 1..(n + 1) /\ i + 1 # 1 /\ r[i] = s[i + 1]
  BY <1>1, <1>3
<1>5. Injective(r)
  <2> SUFFICES ASSUME NEW j \in 1..n, NEW k \in 1..n, r[j] = r[k] PROVE j = k
    BY <1>4 DEF Injective
  <2>1. j + 1 = k + 1
    BY <1>4 DEF Injective
  <2> QED
    BY <2>1
<1>6. 1 \in DOMAIN s
  BY <1>4
<1>7. Head(s) \notin ToSet(r)
  <2>1. \A i \in DOMAIN r : r[i] # s[1]
    BY <1>4, <1>6 DEF Injective
  <2> QED
    BY <1>1, <2>1 DEF ToSet
<1>8. ASSUME NEW i \in DOMAIN s PROVE s[i] \in ToSet(r) \cup {Head(s)}
  <2>1. CASE i = 1
    BY <1>1, <2>1
  <2>2. CASE i # 1
    <3>1. PICK k : k = i - 1
      OBVIOUS
    <3>2. k \in 1..n /\ i = k + 1
      BY <1>4, <2>2, <3>1
    <3> QED
      BY <1>4, <3>2 DEF ToSet
  <2> QED
    BY <2>1, <2>2
<1>9. \A x \in ToSet(r) : x \in ToSet(s)
  BY <1>4 DEF ToSet
<1>10. Head(s) \in ToSet(s)
  BY <1>1, <1>6 DEF ToSet
<1>11. \A x \in ToSet(s) : x \in ToSet(r) \cup {Head(s)}
  BY <1>8 DEF ToSet
<1> QED
  BY <1>1, <1>5, <1>7, <1>9, <1>10, <1>11

(* Nothing is pending in the empty sequence.                               *)
LEMMA EmptyPending == ToSet(<<>>) = {} /\ Injective(<<>>) /\ <<>> \in Seq(Handles)
<1>1. <<>> \in Seq(Handles)
  OBVIOUS
<1> QED
  BY <1>1 DEF ToSet, Injective

(* The model's count of the frames' slots with a handle is 1 or 0.         *)
LEMMA SlotsCounted ==
  ASSUME StackOK(stack), NEW h
  PROVE  Cardinality(Slots(h)) = IF h \in Held(stack) THEN 1 ELSE 0
<1>1. stack \in Seq(Frames)
  BY DEF StackOK
<1>2. \A i \in DOMAIN stack : /\ stack[i].pending \in Seq(Handles) /\ Len(stack[i].pending) <= MaxArgs
                              /\ Injective(stack[i].pending)
  BY <1>1 DEF StackOK, FrameOK, Frames
<1>3. CASE h \in Held(stack)
  <2>1. PICK i \in DOMAIN stack : h \in ToSet(stack[i].pending)
    BY <1>3 DEF Held
  <2>2. PICK j \in DOMAIN stack[i].pending : stack[i].pending[j] = h
    BY <2>1 DEF ToSet
  <2>3. j \in 1..MaxArgs
    BY <1>2, HandleAssumption
  <2>4. <<i, j>> \in Slots(h)
    BY <2>2, <2>3 DEF Slots
  <2>5. ASSUME NEW k \in DOMAIN stack, NEW l \in DOMAIN stack[k].pending, stack[k].pending[l] = h
        PROVE  k = i /\ l = j
    <3>1. h \in ToSet(stack[k].pending)
      BY <2>5 DEF ToSet
    <3>2. k = i
      BY <2>1, <3>1 DEF StackOK
    <3> QED
      BY <1>2, <2>2, <2>5, <3>2 DEF Injective
  <2>6. Slots(h) = {<<i, j>>}
    BY <2>4, <2>5 DEF Slots
  <2>7. Cardinality({<<i, j>>}) = 1
    BY FS_Singleton
  <2> QED
    BY <1>3, <2>6, <2>7
<1>4. CASE h \notin Held(stack)
  <2>1. Slots(h) = {}
    BY <1>4 DEF Slots, Held, ToSet
  <2>2. Cardinality({}) = 0
    BY FS_EmptySet
  <2> QED
    BY <1>4, <2>1, <2>2
<1> QED
  BY <1>3, <1>4

-----------------------------------------------------------------------------
(* Every handle has one owner.                                             *)

(* The types of JsHandles' variables.                                      *)
HandleTypes ==
  /\ ref \in [Handles -> {"none", "live", "freed"}]
  /\ frees \in [Handles -> Nat]
  /\ strings \subseteq Handles /\ wrapped \subseteq Handles \ strings
  /\ disposed \subseteq wrapped /\ reachable \subseteq wrapped
  /\ queued \subseteq disposed /\ lost \subseteq Handles
  /\ accepting \in BOOLEAN

(* The owners of h: a frame (H), its wrapper, a release task, or nobody    *)
(* (L); none once it is freed.                                             *)
Owned(h, H, W, D, Q, L, R, F) ==
  /\ R[h] = "live" <=> h \in H \/ (h \in W /\ h \notin D) \/ h \in Q \/ h \in L
  /\ h \in H => h \notin W /\ h \notin Q /\ h \notin L
  /\ h \in W /\ h \notin D => h \notin Q /\ h \notin L
  /\ h \in Q => h \notin L
  /\ h \in W => R[h] # "none"
  /\ F[h] = IF R[h] = "freed" THEN 1 ELSE 0

(* Each handle has the one owner that Owned tells.                         *)
OwnersInv ==
  \A h \in Handles : Owned(h, Held(stack), wrapped, disposed, queued, lost, ref, frees)

(* The inductive invariant of JsHandles.                                   *)
HandleInv == HandleTypes /\ StackOK(stack) /\ OwnersInv /\ CheckedReadsAreLive

(* What the top frame holds, when it is of one of the kinds.               *)
LEMMA TopIsFacts ==
  ASSUME HandleInv, NEW kinds, TopIs(kinds)
  PROVE  /\ stack # <<>> /\ Top = stack[Len(stack)] /\ FrameOK(Top) /\ Top \in Frames
         /\ Top.kind \in kinds /\ Len(stack) \in Nat
         /\ Top.pending \in Seq(Handles) /\ Injective(Top.pending)
         /\ ToSet(Top.pending) \subseteq Held(stack)
         /\ Len(stack) = 1 => Base(Top)
<1>1. stack # <<>> /\ Top = stack[Len(stack)] /\ Top.kind \in kinds /\ StackOK(stack)
  BY DEF HandleInv, TopIs, Top, Last
<1>2. PICK n : n = Len(stack)
  OBVIOUS
<1>3. DOMAIN stack = 1..n /\ n \in 1..n /\ FrameOK(stack[n]) /\ n \in Nat
  BY <1>1, <1>2, TopFacts
<1>4. ToSet(stack[n].pending) \subseteq Held(stack)
  BY <1>3, HeldBy
<1>5. Top.pending \in Seq(Handles) /\ Injective(Top.pending) /\ Top \in Frames
  BY <1>1, <1>2, <1>3 DEF FrameOK, Frames
<1>6. n = 1 => Base(stack[1])
  BY <1>1 DEF StackOK
<1> QED
  BY <1>1, <1>2, <1>3, <1>4, <1>5, <1>6

(* Only handles are held.                                                  *)
LEMMA HeldAreHandles == StackOK(stack) => Held(stack) \subseteq Handles
<1> SUFFICES ASSUME StackOK(stack), NEW i \in DOMAIN stack PROVE ToSet(stack[i].pending) \subseteq Handles
  BY DEF Held
<1>1. stack[i].pending \in Seq(Handles)
  BY DEF StackOK, FrameOK, Frames
<1> QED
  BY <1>1 DEF ToSet

(* BecomeKeeps for the model's stack.                                      *)
LEMMA Becomes ==
  ASSUME HandleInv, NEW kinds, TopIs(kinds), NEW f, Become(f), FrameOK(f),
         Len(stack) = 1 => Base(f),
         ToSet(f.pending) \cap (Held(stack) \ ToSet(Top.pending)) = {}
  PROVE  /\ StackOK(stack') /\ Top' = f
         /\ Held(stack') = (Held(stack) \ ToSet(Top.pending)) \cup ToSet(f.pending)
<1>1. stack # <<>> /\ Top = stack[Len(stack)] /\ StackOK(stack)
  BY TopIsFacts DEF HandleInv
<1>2. PICK st, r : st = stack /\ r = stack'
  OBVIOUS
<1>3. r = [st EXCEPT ![Len(st)] = f] /\ StackOK(st) /\ st # <<>> /\ (Len(st) = 1 => Base(f))
  BY <1>1, <1>2 DEF Become
<1>4. ToSet(f.pending) \cap (Held(st) \ ToSet(st[Len(st)].pending)) = {}
  BY <1>1, <1>2
<1>5. /\ StackOK(r) /\ r[Len(r)] = f
      /\ Held(r) = (Held(st) \ ToSet(st[Len(st)].pending)) \cup ToSet(f.pending)
  BY <1>3, <1>4, BecomeKeeps
<1> QED
  BY <1>1, <1>2, <1>5 DEF Top, Last

(* PushKeeps for the model's stack.                                        *)
LEMMA Pushes ==
  ASSUME HandleInv, NEW f, Push(f), FrameOK(f),
         (stack = <<>> /\ Base(f)) \/ TopIs({"js", "dotnet"}),
         ToSet(f.pending) \cap Held(stack) = {}
  PROVE  /\ StackOK(stack') /\ Top' = f
         /\ Held(stack') = Held(stack) \cup ToSet(f.pending)
<1>1. PICK st, r : st = stack /\ r = stack'
  OBVIOUS
<1>2. r = Append(st, f) /\ StackOK(st) /\ ToSet(f.pending) \cap Held(st) = {}
  BY <1>1 DEF Push, HandleInv
<1>3. st = <<>> => Base(f)
  BY <1>1 DEF TopIs
<1>4. st # <<>> => st[Len(st)].kind \in {"js", "dotnet"}
  BY <1>1 DEF TopIs, Top, Last
<1>5. StackOK(r) /\ Held(r) = Held(st) \cup ToSet(f.pending)
  BY <1>2, <1>3, <1>4, PushKeeps
<1>6. r[Len(r)] = f
  <2>1. st \in Seq(Frames) /\ f \in Frames
    BY <1>2 DEF StackOK, FrameOK
  <2>2. Len(r) = Len(st) + 1 /\ r[Len(st) + 1] = f
    BY <1>2, <2>1, AppendFacts
  <2> QED
    BY <2>2
<1> QED
  BY <1>1, <1>5, <1>6 DEF Top, Last

(* PopKeeps for the model's stack.                                         *)
LEMMA Pops ==
  ASSUME HandleInv, NEW kinds, TopIs(kinds), Pop
  PROVE  /\ StackOK(stack') /\ Held(stack') = Held(stack) \ ToSet(Top.pending)
         /\ CheckedReadsAreLive'
<1>1. stack # <<>> /\ Top = stack[Len(stack)] /\ StackOK(stack)
  BY TopIsFacts DEF HandleInv
<1>2. PICK st, r : st = stack /\ r = stack'
  OBVIOUS
<1>3. /\ StackOK(r) /\ Held(r) = Held(st) \ ToSet(st[Len(st)].pending)
      /\ r # <<>> => r[Len(r)].kind \in {"js", "dotnet"}
  BY <1>1, <1>2, PopKeeps DEF Pop
<1>4. CheckedReadsAreLive'
  BY <1>2, <1>3 DEF CheckedReadsAreLive, TopIs, Top, Last
<1> QED
  BY <1>1, <1>2, <1>3, <1>4

(* A frame that is not native needs no live handle.                        *)
LEMMA NotNative == Top'.kind # "native" \/ Top'.checked = FALSE => CheckedReadsAreLive'
  BY DEF CheckedReadsAreLive, TopIs

(* A frame that runs code and holds nothing.                               *)
LEMMA PlainOK ==
  ASSUME NEW kind \in {"js", "dotnet"}
  PROVE  /\ FrameOK(Plain(kind)) /\ Base(Plain(kind))
         /\ Plain(kind).pending = <<>> /\ Plain(kind).kind = kind /\ ToSet(Plain(kind).pending) = {}
<1>1. Plain(kind) = [kind |-> kind, self |-> None, args |-> {}, checked |-> FALSE, pending |-> <<>>]
  BY DEF Plain, Frame
<1>2. Plain(kind) \in Frames
  BY <1>1, EmptyPending DEF Frames
<1>3. Len(<<>>) = 0
  OBVIOUS
<1>4. 0 <= MaxArgs
  BY HandleAssumption
<1>5. /\ Plain(kind).pending = <<>> /\ Plain(kind).kind = kind
  BY <1>1
<1> QED
  BY <1>2, <1>3, <1>4, <1>5, EmptyPending DEF FrameOK, Base

(* A frame that holds the handles of arguments or of a result.             *)
LEMMA HoldingOK ==
  ASSUME NEW kind \in {"args", "result"}, NEW hs \in Seq(Handles), Len(hs) <= MaxArgs, Injective(hs)
  PROVE  /\ FrameOK(Holding(kind, hs))
         /\ Holding(kind, hs).pending = hs /\ Holding(kind, hs).kind = kind
<1>1. Holding(kind, hs) = [kind |-> kind, self |-> None, args |-> {}, checked |-> FALSE, pending |-> hs]
  BY DEF Holding, Frame
<1>2. Holding(kind, hs) \in Frames
  BY <1>1 DEF Frames
<1> QED
  BY <1>1, <1>2 DEF FrameOK

(* The handles of some values.                                             *)
LEMMA ValuesFacts ==
  ASSUME NEW hs \in Values(MaxArgs)
  PROVE  hs \in Seq(Handles) /\ Len(hs) \in Nat /\ Len(hs) <= MaxArgs
<1>1. PICK k \in 0..MaxArgs : hs \in [1..k -> Handles]
  BY DEF Values
<1> QED
  BY <1>1, HandleAssumption

-----------------------------------------------------------------------------
(* The event loop starts a turn of JavaScript or of .NET.                  *)
LEMMA TurnKeeps ==
  ASSUME HandleInv, NEW kind \in {"js", "dotnet"}, Turn(kind)
  PROVE  HandleInv'
<1>1. /\ stack = <<>> /\ Push(Plain(kind))
      /\ UNCHANGED <<ref, frees, strings, wrapped, disposed, reachable, queued, lost, accepting>>
  BY DEF Turn, nativeVars, objectVars
<1>2. /\ StackOK(stack') /\ Top' = Plain(kind)
      /\ Held(stack') = Held(stack) \cup ToSet(Plain(kind).pending)
  BY <1>1, PlainOK, Pushes
<1>3. Held(stack') = Held(stack)
  BY <1>2, PlainOK
<1>4. CheckedReadsAreLive'
  BY <1>2, PlainOK, NotNative
<1>5. HandleTypes' /\ OwnersInv'
  BY <1>1, <1>3 DEF HandleInv, HandleTypes, OwnersInv
<1> QED
  BY <1>2, <1>4, <1>5 DEF HandleInv

(* The scheduler runs a queued release.                                    *)
LEMMA RunReleaseTaskKeeps ==
  ASSUME HandleInv, NEW o \in Handles, RunReleaseTask(o)
  PROVE  HandleInv'
<1>1. /\ stack = <<>> /\ o \in queued /\ queued' = queued \ {o} /\ Free({o})
      /\ UNCHANGED <<strings, wrapped, disposed, reachable, lost, stack, accepting>>
  BY DEF RunReleaseTask, objectVars
<1>2. HandleTypes'
  BY <1>1 DEF HandleInv, HandleTypes, Free
<1>3. OwnersInv'
  <2> SUFFICES ASSUME NEW h \in Handles
               PROVE  Owned(h, Held(stack), wrapped, disposed, queued', lost, ref', frees')
    BY <1>1 DEF OwnersInv
  <2>1. Owned(h, Held(stack), wrapped, disposed, queued, lost, ref, frees)
    BY DEF HandleInv, OwnersInv
  <2> QED
    BY <1>1, <2>1 DEF HandleInv, HandleTypes, Free, Owned
<1>4. CheckedReadsAreLive'
  BY <1>1 DEF CheckedReadsAreLive, TopIs
<1> QED
  BY <1>1, <1>2, <1>3, <1>4 DEF HandleInv

(* New handles are held by a new or changed frame.                         *)
LEMMA FromValuesFacts ==
  ASSUME HandleInv, NEW hs \in Seq(Handles), NEW asStrings, FromValues(hs, asStrings)
  PROVE  /\ Injective(hs) /\ ToSet(hs) \subseteq Handles /\ ToSet(hs) \cap Held(stack) = {}
         /\ \A h \in ToSet(hs) : ref[h] = "none"
         /\ ref' = [h \in Handles |-> IF h \in ToSet(hs) THEN "live" ELSE ref[h]]
         /\ strings' \subseteq strings \cup ToSet(hs) /\ strings \subseteq strings' /\ UNCHANGED frees
<1>1. /\ \A i, j \in DOMAIN hs : hs[i] = hs[j] => i = j
      /\ \A i \in DOMAIN hs : ref[hs[i]] = "none"
      /\ ref' = [h \in Handles |-> IF h \in ToSet(hs) THEN "live" ELSE ref[h]]
      /\ strings' = strings \cup asStrings /\ asStrings \subseteq ToSet(hs) /\ UNCHANGED frees
  BY DEF FromValues
<1>2. ToSet(hs) \subseteq Handles /\ \A h \in ToSet(hs) : ref[h] = "none"
  BY <1>1 DEF ToSet
<1>3. \A h \in ToSet(hs) : h \notin Held(stack)
  BY <1>2 DEF HandleInv, OwnersInv, Owned
<1> QED
  BY <1>1, <1>2, <1>3 DEF Injective

(* Handles are allocated for values and held by the stack.                 *)
LEMMA AllocatedOwners ==
  ASSUME HandleInv, NEW hs \in Seq(Handles), NEW asStrings, FromValues(hs, asStrings),
         Held(stack') = Held(stack) \cup ToSet(hs),
         UNCHANGED <<wrapped, disposed, reachable, queued, lost, accepting>>
  PROVE  HandleTypes' /\ OwnersInv'
<1>1. /\ ToSet(hs) \subseteq Handles /\ ToSet(hs) \cap Held(stack) = {}
      /\ \A h \in ToSet(hs) : ref[h] = "none"
      /\ ref' = [h \in Handles |-> IF h \in ToSet(hs) THEN "live" ELSE ref[h]]
      /\ strings' \subseteq strings \cup ToSet(hs) /\ strings \subseteq strings' /\ UNCHANGED frees
  BY FromValuesFacts
<1>2. \A h \in ToSet(hs) : h \notin wrapped
  BY <1>1 DEF HandleInv, OwnersInv, Owned
<1>3. HandleTypes'
  BY <1>1, <1>2 DEF HandleInv, HandleTypes
<1>4. OwnersInv'
  <2> SUFFICES ASSUME NEW h \in Handles
               PROVE  Owned(h, Held(stack'), wrapped, disposed, queued, lost, ref', frees)
    BY <1>1 DEF OwnersInv
  <2>1. Owned(h, Held(stack), wrapped, disposed, queued, lost, ref, frees)
    BY DEF HandleInv, OwnersInv
  <2>2. CASE h \in ToSet(hs)
    <3>1. h \in Held(stack') /\ ref'[h] = "live" /\ ref[h] = "none"
      BY <1>1, <2>2
    <3> QED
      BY <1>2, <2>1, <2>2, <3>1 DEF Owned
  <2>3. CASE h \notin ToSet(hs)
    <3>1. (h \in Held(stack') <=> h \in Held(stack)) /\ ref'[h] = ref[h]
      BY <1>1, <2>3
    <3> QED
      BY <2>1, <3>1 DEF Owned
  <2> QED
    BY <2>2, <2>3
<1> QED
  BY <1>3, <1>4

(* JavaScript calls a .NET callback: its arguments get handles.            *)
LEMMA CallbackKeeps ==
  ASSUME HandleInv, NEW hs \in Values(MaxArgs), NEW asStrings, Callback(hs, asStrings)
  PROVE  HandleInv'
<1>1. /\ TopIs({"js"}) /\ FromValues(hs, asStrings) /\ Push(Holding("args", hs))
      /\ UNCHANGED <<wrapped, disposed, reachable, queued, lost, accepting>>
  BY DEF Callback, objectVars
<1>2. hs \in Seq(Handles) /\ Len(hs) <= MaxArgs
  BY ValuesFacts
<1>3. Injective(hs) /\ ToSet(hs) \cap Held(stack) = {}
  BY <1>1, <1>2, FromValuesFacts
<1>4. PICK f : f = Holding("args", hs)
  OBVIOUS
<1>5. FrameOK(f) /\ f.pending = hs /\ f.kind = "args"
  BY <1>2, <1>3, <1>4, HoldingOK
<1>6. TopIs({"js", "dotnet"})
  BY <1>1 DEF TopIs
<1>7. StackOK(stack') /\ Top' = f /\ Held(stack') = Held(stack) \cup ToSet(hs)
  BY <1>1, <1>3, <1>4, <1>5, <1>6, Pushes
<1>8. CheckedReadsAreLive'
  BY <1>5, <1>7, NotNative
<1>9. HandleTypes' /\ OwnersInv'
  BY <1>1, <1>2, <1>7, AllocatedOwners
<1> QED
  BY <1>7, <1>8, <1>9 DEF HandleInv

(* A stack of more than one frame does not consist of its base.            *)
LEMMA MoreThanOne ==
  ASSUME NEW n \in Nat, n > 1 PROVE n # 1
  OBVIOUS

(* JavaScript returns a result, or throws an error.                        *)
LEMMA CallReturnsKeeps ==
  ASSUME HandleInv, NEW hs \in Values(MaxArgs), NEW asStrings, CallReturns(hs, asStrings)
  PROVE  HandleInv'
<1>1. /\ TopIs({"js"}) /\ Len(stack) > 1 /\ Top.pending = <<>>
      /\ FromValues(hs, asStrings) /\ Become(Holding("result", hs))
      /\ UNCHANGED <<wrapped, disposed, reachable, queued, lost, accepting>>
  BY DEF CallReturns, objectVars
<1>2. hs \in Seq(Handles) /\ Len(hs) <= MaxArgs
  BY ValuesFacts
<1>3. Injective(hs) /\ ToSet(hs) \cap Held(stack) = {}
  BY <1>1, <1>2, FromValuesFacts
<1>4. PICK f : f = Holding("result", hs)
  OBVIOUS
<1>5. FrameOK(f) /\ f.pending = hs /\ f.kind = "result"
  BY <1>2, <1>3, <1>4, HoldingOK
<1>6. ToSet(Top.pending) = {} /\ Len(stack) # 1
  <2>1. Len(stack) \in Nat
    BY <1>1, TopIsFacts
  <2>2. Len(stack) # 1
    BY <1>1, <2>1, MoreThanOne
  <2> QED
    BY <1>1, <2>2, EmptyPending
<1>7. /\ StackOK(stack') /\ Top' = f
      /\ Held(stack') = (Held(stack) \ ToSet(Top.pending)) \cup ToSet(f.pending)
  BY <1>1, <1>3, <1>4, <1>5, <1>6, Becomes
<1>8. CheckedReadsAreLive'
  BY <1>5, <1>7, NotNative
<1>9. Held(stack') = Held(stack) \cup ToSet(hs)
  BY <1>5, <1>6, <1>7
<1>10. HandleTypes' /\ OwnersInv'
  BY <1>1, <1>2, <1>9, AllocatedOwners
<1> QED
  BY <1>7, <1>8, <1>10 DEF HandleInv

(* The handles of two sequences that have none in common.                  *)
LEMMA PendingJoined ==
  ASSUME NEW s \in Seq(Handles), NEW hs \in Seq(Handles), Injective(s), Injective(hs),
         ToSet(s) \cap ToSet(hs) = {}, NEW r, r = s \o hs
  PROVE  /\ r \in Seq(Handles) /\ Len(r) = Len(s) + Len(hs) /\ Injective(r)
         /\ ToSet(r) = ToSet(s) \cup ToSet(hs)
<1>1. PICK m \in Nat, n \in Nat : m = Len(s) /\ n = Len(hs)
  OBVIOUS
<1>2. r \in Seq(Handles) /\ Len(r) = m + n /\ Joined(r, s, hs, m, n)
  <2>1. r \in Seq(Handles)
    OBVIOUS
  <2>2. Len(r) = m + n
    BY <1>1
  <2>3. Joined(r, s, hs, m, n)
    BY <1>1, ConcatFacts
  <2> QED
    BY <2>1, <2>2, <2>3
<1>3. /\ DOMAIN r = 1..(m + n) /\ DOMAIN s = 1..m /\ DOMAIN hs = 1..n
      /\ \A k \in 1..m : r[k] = s[k]
      /\ \A k \in (m + 1)..(m + n) : k - m \in 1..n /\ r[k] = hs[k - m]
      /\ ToSet(r) = ToSet(s) \cup ToSet(hs)
  BY <1>2 DEF Joined, Members, ToSet
<1>4. Injective(r)
  <2> SUFFICES ASSUME NEW j \in 1..(m + n), NEW k \in 1..(m + n), r[j] = r[k] PROVE j = k
    BY <1>3 DEF Injective
  <2>1. \A i \in 1..(m + n) : i \in 1..m \/ i \in (m + 1)..(m + n)
    OBVIOUS
  <2>2. \A i \in 1..m : r[i] \in ToSet(s)
    BY <1>3 DEF ToSet
  <2>3. \A i \in (m + 1)..(m + n) : r[i] \in ToSet(hs)
    BY <1>3 DEF ToSet
  <2>4. CASE j \in 1..m /\ k \in 1..m
    BY <1>3, <2>4 DEF Injective
  <2>5. CASE j \in (m + 1)..(m + n) /\ k \in (m + 1)..(m + n)
    <3>1. PICK a, b : a = j - m /\ b = k - m
      OBVIOUS
    <3>2. a \in 1..n /\ b \in 1..n /\ hs[a] = hs[b]
      BY <1>3, <2>5, <3>1
    <3>3. a = b
      BY <1>3, <3>2 DEF Injective
    <3> QED
      BY <3>1, <3>3
  <2> QED
    BY <2>1, <2>2, <2>3, <2>4, <2>5
<1> QED
  BY <1>1, <1>2, <1>3, <1>4

(* The next element of an array gets a handle.                             *)
LEMMA NextElementKeeps ==
  ASSUME HandleInv, NEW hs \in Values(MaxArgs), NEW asStrings, NextElement(hs, asStrings)
  PROVE  HandleInv'
<1>1. PICK s, f : s = Top.pending /\ f = Frame("native", Top.self, {}, FALSE, s \o hs)
  OBVIOUS
<1>2. /\ TopIs({"js"}) /\ Len(stack) > 1 /\ Len(s) + Len(hs) <= MaxArgs
      /\ FromValues(hs, asStrings) /\ Become(f)
      /\ UNCHANGED <<wrapped, disposed, reachable, queued, lost, accepting>>
  BY <1>1 DEF NextElement, objectVars
<1>3. hs \in Seq(Handles)
  BY ValuesFacts
<1>4. Injective(hs) /\ ToSet(hs) \cap Held(stack) = {}
  BY <1>2, <1>3, FromValuesFacts
<1>5. s \in Seq(Handles) /\ Injective(s) /\ ToSet(s) \subseteq Held(stack) /\ Top \in Frames
  BY <1>1, <1>2, TopIsFacts
<1>6. PICK r : r = s \o hs
  OBVIOUS
<1>7. ToSet(s) \cap ToSet(hs) = {}
  BY <1>4, <1>5
<1>8. /\ r \in Seq(Handles) /\ Len(r) = Len(s) + Len(hs) /\ Injective(r)
      /\ ToSet(r) = ToSet(s) \cup ToSet(hs)
  BY <1>3, <1>4, <1>5, <1>6, <1>7, PendingJoined
<1>9. f = [kind |-> "native", self |-> Top.self, args |-> {}, checked |-> FALSE, pending |-> r]
  BY <1>1, <1>6 DEF Frame
<1>10. f \in Frames
  BY <1>5, <1>8, <1>9 DEF Frames
<1>11. FrameOK(f) /\ f.pending = r /\ f.kind = "native" /\ f.checked = FALSE
  BY <1>2, <1>8, <1>9, <1>10 DEF FrameOK
<1>12. ToSet(f.pending) \cap (Held(stack) \ ToSet(Top.pending)) = {}
  BY <1>1, <1>4, <1>8, <1>11
<1>13. Len(stack) # 1
  <2>1. Len(stack) \in Nat
    BY <1>2, TopIsFacts
  <2> QED
    BY <1>2, <2>1, MoreThanOne
<1>14. /\ StackOK(stack') /\ Top' = f
       /\ Held(stack') = (Held(stack) \ ToSet(Top.pending)) \cup ToSet(f.pending)
  BY <1>2, <1>13, <1>11, <1>12, Becomes
<1>15. CheckedReadsAreLive'
  BY <1>11, <1>14, NotNative
<1>16. Held(stack') = Held(stack) \cup ToSet(hs)
  BY <1>1, <1>5, <1>8, <1>11, <1>14
<1>17. HandleTypes' /\ OwnersInv'
  BY <1>2, <1>3, <1>16, AllocatedOwners
<1> QED
  BY <1>14, <1>15, <1>17 DEF HandleInv

(* The top frame changes what it is, not what it holds.                    *)
LEMMA ReframedKeeps ==
  ASSUME HandleInv, NEW kinds, TopIs(kinds), "js" \notin kinds \/ Len(stack) > 1, "dotnet" \notin kinds,
         NEW f, Become(f), f \in Frames, f.pending = Top.pending, f.kind \notin {"dotnet", "native"},
         UNCHANGED <<ref, frees, strings, wrapped, disposed, reachable, queued, lost, accepting>>
  PROVE  HandleInv'
<1>1. /\ FrameOK(Top) /\ Top.kind \in kinds /\ Len(stack) \in Nat
      /\ ToSet(Top.pending) \subseteq Held(stack)
      /\ Len(stack) = 1 => Base(Top)
  BY TopIsFacts
<1>2. FrameOK(f)
  BY <1>1 DEF FrameOK
<1>3. Len(stack) # 1
  <2>1. CASE "js" \notin kinds
    BY <1>1, <2>1 DEF Base
  <2>2. CASE Len(stack) > 1
    BY <1>1, <2>2, MoreThanOne
  <2> QED
    BY <2>1, <2>2
<1>4. ToSet(f.pending) \cap (Held(stack) \ ToSet(Top.pending)) = {}
  OBVIOUS
<1>5. /\ StackOK(stack') /\ Top' = f
      /\ Held(stack') = (Held(stack) \ ToSet(Top.pending)) \cup ToSet(f.pending)
  BY <1>2, <1>3, <1>4, Becomes
<1>6. Held(stack') = Held(stack)
  BY <1>1, <1>5
<1>7. CheckedReadsAreLive'
  BY <1>5, NotNative
<1>8. HandleTypes' /\ OwnersInv'
  BY <1>6 DEF HandleInv, HandleTypes, OwnersInv
<1> QED
  BY <1>5, <1>7, <1>8 DEF HandleInv

(* A native call has read its handles and enters JavaScript.               *)
LEMMA EnterJsKeeps ==
  ASSUME HandleInv, EnterJs
  PROVE  HandleInv'
<1>1. PICK f : f = [Top EXCEPT !.kind = "js"]
  OBVIOUS
<1>2. /\ TopIs({"native"}) /\ Become(f)
      /\ UNCHANGED <<ref, frees, strings, wrapped, disposed, reachable, queued, lost, accepting>>
  BY <1>1 DEF EnterJs, nativeVars, objectVars
<1>3. Top \in Frames
  BY <1>2, TopIsFacts
<1>4. f \in Frames /\ f.pending = Top.pending /\ f.kind = "js"
  BY <1>1, <1>3 DEF Frames
<1> QED
  BY <1>2, <1>4, ReframedKeeps

(* A native call returns an array of handles.                              *)
LEMMA ArrayReturnsKeeps ==
  ASSUME HandleInv, ArrayReturns
  PROVE  HandleInv'
<1>1. PICK f : f = Holding("result", Top.pending)
  OBVIOUS
<1>2. /\ TopIs({"js"}) /\ Len(stack) > 1 /\ Become(f)
      /\ UNCHANGED <<ref, frees, strings, wrapped, disposed, reachable, queued, lost, accepting>>
  BY <1>1 DEF ArrayReturns, nativeVars, objectVars
<1>3. Top.pending \in Seq(Handles) /\ Len(Top.pending) <= MaxArgs /\ Injective(Top.pending)
  BY <1>2, TopIsFacts DEF FrameOK
<1>4. f \in Frames /\ f.pending = Top.pending /\ f.kind = "result"
  BY <1>1, <1>3, HoldingOK DEF FrameOK
<1> QED
  BY <1>2, <1>4, ReframedKeeps

(* The arguments that the callback does not take are released.             *)
LEMMA ReleaseRemainingArgsKeeps ==
  ASSUME HandleInv, ReleaseRemainingArgs
  PROVE  HandleInv'
<1>1. PICK f, T : f = Plain("dotnet") /\ T = ToSet(Top.pending)
  OBVIOUS
<1>2. /\ TopIs({"args"}) /\ Free(T) /\ Become(f)
      /\ UNCHANGED <<strings, wrapped, disposed, reachable, queued, lost, accepting>>
  BY <1>1 DEF ReleaseRemainingArgs, objectVars
<1>3. FrameOK(f) /\ Base(f) /\ f.kind = "dotnet" /\ ToSet(f.pending) = {}
  BY <1>1, PlainOK
<1>4. /\ StackOK(stack') /\ Top' = f
      /\ Held(stack') = (Held(stack) \ T) \cup ToSet(f.pending)
  BY <1>1, <1>2, <1>3, Becomes
<1>5. T \subseteq Held(stack)
  BY <1>1, <1>2, TopIsFacts
<1>6. CheckedReadsAreLive'
  BY <1>3, <1>4, NotNative
<1>7. HandleTypes'
  BY <1>2 DEF HandleInv, HandleTypes, Free
<1>8. OwnersInv'
  <2> SUFFICES ASSUME NEW h \in Handles
               PROVE  Owned(h, Held(stack'), wrapped, disposed, queued, lost, ref', frees')
    BY <1>2 DEF OwnersInv
  <2>1. Owned(h, Held(stack), wrapped, disposed, queued, lost, ref, frees)
    BY DEF HandleInv, OwnersInv
  <2>2. h \in Held(stack') <=> h \in Held(stack) /\ h \notin T
    BY <1>3, <1>4
  <2> QED
    BY <1>2, <1>5, <2>1, <2>2 DEF HandleInv, HandleTypes, Free, Owned
<1> QED
  BY <1>4, <1>6, <1>7, <1>8 DEF HandleInv

(* The next pending handle is taken from the frame.                        *)
LEMMA Taken ==
  ASSUME HandleInv, Converting
  PROVE  /\ TopIs({"args", "result"}) /\ Next1 \in Handles /\ Next1 \in Held(stack)
         /\ Next1 \notin ToSet(Tail(Top.pending))
         /\ ToSet(Top.pending) = ToSet(Tail(Top.pending)) \cup {Next1}
         /\ ToSet(Top.pending) \subseteq Held(stack)
         /\ Next1 \notin wrapped /\ Next1 \notin queued /\ Next1 \notin lost /\ ref[Next1] = "live"
<1>1. TopIs({"args", "result"}) /\ Top.pending # <<>>
  BY DEF Converting
<1>2. /\ Top.pending \in Seq(Handles) /\ Injective(Top.pending)
      /\ ToSet(Top.pending) \subseteq Held(stack)
  BY <1>1, TopIsFacts
<1>3. PICK s : s = Top.pending
  OBVIOUS
<1>4. Head(s) \in Handles /\ Head(s) \notin ToSet(Tail(s)) /\ ToSet(s) = ToSet(Tail(s)) \cup {Head(s)}
  BY <1>1, <1>2, <1>3, PendingFacts
<1>5. Owned(Next1, Held(stack), wrapped, disposed, queued, lost, ref, frees)
  BY <1>3, <1>4 DEF HandleInv, OwnersInv, Next1
<1> QED
  BY <1>1, <1>2, <1>3, <1>4, <1>5 DEF Next1, Owned

(* The handle that is converted next leaves the frame.                     *)
LEMMA TakenFromFrame ==
  ASSUME HandleInv, Converting, Become([Top EXCEPT !.pending = Tail(@)])
  PROVE  /\ StackOK(stack') /\ CheckedReadsAreLive'
         /\ Held(stack') = Held(stack) \ {Next1}
<1>1. PICK s, f : s = Top.pending /\ f = [Top EXCEPT !.pending = Tail(s)]
  OBVIOUS
<1>2. /\ TopIs({"args", "result"}) /\ s # <<>> /\ Become(f)
  BY <1>1 DEF Converting
<1>3. /\ Top \in Frames /\ FrameOK(Top) /\ Top.kind \in {"args", "result"} /\ Len(stack) \in Nat
      /\ s \in Seq(Handles) /\ Injective(s) /\ Len(s) <= MaxArgs
      /\ ToSet(s) \subseteq Held(stack)
      /\ Len(stack) = 1 => Base(Top)
  BY <1>1, <1>2, TopIsFacts DEF FrameOK
<1>4. PICK r : r = Tail(s)
  OBVIOUS
<1>5. /\ r \in Seq(Handles) /\ Injective(r) /\ Len(r) < Len(s)
      /\ Head(s) \notin ToSet(r) /\ ToSet(s) = ToSet(r) \cup {Head(s)}
  BY <1>2, <1>3, <1>4, PendingFacts
<1>6. f \in Frames /\ f.pending = r /\ f.kind = Top.kind
  BY <1>1, <1>3, <1>4, <1>5 DEF Frames
<1>7. Len(r) <= MaxArgs
  BY <1>3, <1>5, HandleAssumption
<1>8. FrameOK(f)
  BY <1>3, <1>5, <1>6, <1>7 DEF FrameOK
<1>9. Len(stack) # 1
  BY <1>3 DEF Base
<1>10. ToSet(f.pending) \cap (Held(stack) \ ToSet(Top.pending)) = {}
  BY <1>1, <1>5, <1>6
<1>11. /\ StackOK(stack') /\ Top' = f
       /\ Held(stack') = (Held(stack) \ ToSet(Top.pending)) \cup ToSet(f.pending)
  BY <1>2, <1>8, <1>9, <1>10, Becomes
<1>12. Next1 = Head(s)
  BY <1>1 DEF Next1
<1>13. Held(stack') = Held(stack) \ {Next1}
  BY <1>1, <1>3, <1>5, <1>6, <1>11, <1>12
<1>14. CheckedReadsAreLive'
  BY <1>3, <1>6, <1>11, NotNative
<1> QED
  BY <1>11, <1>13, <1>14

(* A JsDynamicObject takes the handle.                                     *)
LEMMA KeepObjectKeeps ==
  ASSUME HandleInv, KeepObject
  PROVE  HandleInv'
<1>1. PICK n : n = Next1
  OBVIOUS
<1>2. /\ Converting /\ n \notin strings /\ wrapped' = wrapped \cup {n} /\ reachable' = reachable \cup {n}
      /\ Become([Top EXCEPT !.pending = Tail(@)])
      /\ UNCHANGED <<ref, frees, strings, disposed, queued, lost, accepting>>
  BY <1>1 DEF KeepObject, nativeVars
<1>3. StackOK(stack') /\ CheckedReadsAreLive' /\ Held(stack') = Held(stack) \ {n}
  BY <1>1, <1>2, TakenFromFrame
<1>4. /\ n \in Handles /\ n \in Held(stack)
      /\ n \notin wrapped /\ n \notin queued /\ n \notin lost /\ ref[n] = "live"
  BY <1>1, <1>2, Taken
<1>5. n \notin disposed
  BY <1>4 DEF HandleInv, HandleTypes
<1>6. HandleTypes'
  BY <1>2, <1>4 DEF HandleInv, HandleTypes
<1>7. OwnersInv'
  <2> SUFFICES ASSUME NEW h \in Handles
               PROVE  Owned(h, Held(stack'), wrapped', disposed, queued, lost, ref, frees)
    BY <1>2 DEF OwnersInv
  <2>1. Owned(h, Held(stack), wrapped, disposed, queued, lost, ref, frees)
    BY DEF HandleInv, OwnersInv
  <2> QED
    BY <1>2, <1>3, <1>4, <1>5, <2>1 DEF Owned
<1> QED
  BY <1>3, <1>6, <1>7 DEF HandleInv

(* The value is read and its handle released.                              *)
LEMMA ReadValueKeeps ==
  ASSUME HandleInv, ReadValue
  PROVE  HandleInv'
<1>1. PICK n : n = Next1
  OBVIOUS
<1>2. /\ Converting /\ Free({n})
      /\ n \in strings => UNCHANGED <<wrapped, disposed>>
      /\ n \notin strings => wrapped' = wrapped \cup {n} /\ disposed' = disposed \cup {n}
      /\ Become([Top EXCEPT !.pending = Tail(@)])
      /\ UNCHANGED <<strings, reachable, queued, lost, accepting>>
  BY <1>1 DEF ReadValue
<1>3. StackOK(stack') /\ CheckedReadsAreLive' /\ Held(stack') = Held(stack) \ {n}
  BY <1>1, <1>2, TakenFromFrame
<1>4. /\ n \in Handles /\ n \in Held(stack)
      /\ n \notin wrapped /\ n \notin queued /\ n \notin lost /\ ref[n] = "live"
  BY <1>1, <1>2, Taken
<1>5. HandleTypes'
  BY <1>2, <1>4 DEF HandleInv, HandleTypes, Free
<1>6. OwnersInv'
  <2> SUFFICES ASSUME NEW h \in Handles
               PROVE  Owned(h, Held(stack'), wrapped', disposed', queued, lost, ref', frees')
    BY <1>2 DEF OwnersInv
  <2>1. Owned(h, Held(stack), wrapped, disposed, queued, lost, ref, frees)
    BY DEF HandleInv, OwnersInv
  <2>2. CASE h = n
    <3>1. ref'[h] = "freed" /\ frees'[h] = frees[h] + 1 /\ frees[h] = 0
      BY <1>2, <1>4, <2>1, <2>2 DEF Free, Owned
    <3>2. h \in wrapped' => h \in disposed'
      BY <1>2, <1>4, <2>2
    <3> QED
      BY <1>3, <1>4, <2>2, <3>1, <3>2 DEF Owned
  <2>3. CASE h # n
    <3>1. ref'[h] = ref[h] /\ frees'[h] = frees[h]
      BY <1>2, <2>3 DEF Free
    <3>2. (h \in wrapped' <=> h \in wrapped) /\ (h \in disposed' <=> h \in disposed)
      BY <1>2, <2>3
    <3> QED
      BY <1>3, <2>1, <2>3, <3>1, <3>2 DEF Owned
  <2> QED
    BY <2>2, <2>3
<1> QED
  BY <1>3, <1>5, <1>6 DEF HandleInv

(* The conversion throws; the handles after it are lost.                   *)
LEMMA ConversionThrowsKeeps ==
  ASSUME HandleInv, ConversionThrows
  PROVE  HandleInv'
<1>1. PICK n, T : n = Next1 /\ T = ToSet(Tail(Top.pending))
  OBVIOUS
<1>2. /\ Converting
      /\ n \in strings => Free({n}) /\ UNCHANGED wrapped
      /\ n \notin strings => wrapped' = wrapped \cup {n} /\ UNCHANGED <<ref, frees>>
      /\ lost' = lost \cup T /\ Pop
      /\ UNCHANGED <<strings, disposed, reachable, queued, accepting>>
  BY <1>1 DEF ConversionThrows, nativeVars
<1>3. /\ TopIs({"args", "result"}) /\ n \in Handles /\ n \in Held(stack)
      /\ n \notin T /\ ToSet(Top.pending) = T \cup {n} /\ ToSet(Top.pending) \subseteq Held(stack)
      /\ n \notin wrapped /\ n \notin queued /\ n \notin lost /\ ref[n] = "live"
  BY <1>1, <1>2, Taken
<1>4. /\ StackOK(stack') /\ Held(stack') = Held(stack) \ (T \cup {n})
      /\ CheckedReadsAreLive'
  BY <1>2, <1>3, Pops
<1>5. n \notin disposed /\ T \subseteq Handles
  BY <1>3, HeldAreHandles DEF HandleInv, HandleTypes
<1>6. HandleTypes'
  BY <1>2, <1>3, <1>5 DEF HandleInv, HandleTypes, Free
<1>7. OwnersInv'
  <2> SUFFICES ASSUME NEW h \in Handles
               PROVE  Owned(h, Held(stack'), wrapped', disposed, queued, lost', ref', frees')
    BY <1>2 DEF OwnersInv
  <2>1. Owned(h, Held(stack), wrapped, disposed, queued, lost, ref, frees)
    BY DEF HandleInv, OwnersInv
  <2>2. CASE h = n
    <3>1. CASE n \in strings
      <4>1. ref'[h] = "freed" /\ frees'[h] = frees[h] + 1 /\ frees[h] = 0
        BY <1>2, <1>3, <2>1, <2>2, <3>1 DEF Free, Owned
      <4> QED
        BY <1>2, <1>3, <1>4, <2>2, <3>1, <4>1 DEF Owned
    <3>2. CASE n \notin strings
      BY <1>2, <1>3, <1>4, <1>5, <2>1, <2>2, <3>2 DEF Owned
    <3> QED
      BY <3>1, <3>2
  <2>3. CASE h # n
    <3>1. ref'[h] = ref[h] /\ frees'[h] = frees[h]
      BY <1>2, <2>3 DEF Free
    <3>2. (h \in wrapped' <=> h \in wrapped)
      BY <1>2, <2>3
    <3>3. h \in T => h \in Held(stack)
      BY <1>3
    <3> QED
      BY <1>2, <1>4, <2>1, <2>3, <3>1, <3>2, <3>3 DEF Owned
  <2> QED
    BY <2>2, <2>3
<1> QED
  BY <1>4, <1>6, <1>7 DEF HandleInv

(* A frame ends whose handles are lost, if it has any.                     *)
LEMMA EndKeeps ==
  ASSUME HandleInv, NEW kinds, TopIs(kinds), Pop,
         NEW T, T = ToSet(Top.pending), lost' = lost \cup T,
         UNCHANGED <<ref, frees, strings, wrapped, disposed, reachable, queued, accepting>>
  PROVE  HandleInv'
<1>1. T \subseteq Held(stack) /\ T \subseteq Handles
  BY TopIsFacts, HeldAreHandles DEF HandleInv
<1>2. /\ StackOK(stack') /\ Held(stack') = Held(stack) \ T
      /\ CheckedReadsAreLive'
  BY Pops
<1>3. HandleTypes'
  BY <1>1 DEF HandleInv, HandleTypes
<1>4. OwnersInv'
  <2> SUFFICES ASSUME NEW h \in Handles
               PROVE  Owned(h, Held(stack'), wrapped, disposed, queued, lost', ref, frees)
    BY DEF OwnersInv
  <2>1. Owned(h, Held(stack), wrapped, disposed, queued, lost, ref, frees)
    BY DEF HandleInv, OwnersInv
  <2> QED
    BY <1>1, <1>2, <2>1 DEF Owned
<1> QED
  BY <1>2, <1>3, <1>4 DEF HandleInv

(* A frame ends when it holds nothing any more, or gives up what it has.   *)
LEMMA FrameEndsKeeps ==
  ASSUME HandleInv, ElementThrows \/ ResultDone \/ Return
  PROVE  HandleInv'
<1>1. CASE ElementThrows
  <2>1. /\ TopIs({"args", "result"}) /\ Pop /\ lost' = lost \cup ToSet(Top.pending)
        /\ UNCHANGED <<ref, frees, strings, wrapped, disposed, reachable, queued, accepting>>
    BY <1>1 DEF ElementThrows, Converting, nativeVars, objectVars
  <2> QED
    BY <2>1, EndKeeps
<1>2. CASE ResultDone
  <2>1. /\ TopIs({"result"}) /\ Pop /\ Top.pending = <<>>
        /\ UNCHANGED <<ref, frees, strings, wrapped, disposed, reachable, queued, lost, accepting>>
    BY <1>2 DEF ResultDone, nativeVars, objectVars
  <2>2. ToSet(Top.pending) = {}
    BY <2>1, EmptyPending
  <2> QED
    BY <2>1, <2>2, EndKeeps
<1>3. CASE Return
  <2>1. /\ TopIs({"dotnet"}) \/ (TopIs({"js"}) /\ Len(stack) = 1)
        /\ Pop
        /\ UNCHANGED <<ref, frees, strings, wrapped, disposed, reachable, queued, lost, accepting>>
    BY <1>3 DEF Return, nativeVars, objectVars
  <2>2. PICK kinds : TopIs(kinds)
    BY <2>1
  <2>3. Top.pending = <<>>
    BY <2>1, TopIsFacts DEF FrameOK, Base
  <2>4. ToSet(Top.pending) = {}
    BY <2>3, EmptyPending
  <2> QED
    BY <2>1, <2>2, <2>4, EndKeeps
<1> QED
  BY <1>1, <1>2, <1>3

(* A native frame that was checked has a live object.                      *)
LEMMA CallKeeps ==
  ASSUME HandleInv, TopIs({"dotnet"}), NEW o \in Usable, NEW args \in SUBSET Handles,
         NEW checked \in BOOLEAN, checked => o \notin disposed,
         Push(Frame("native", o, args, checked, <<>>)),
         UNCHANGED <<ref, frees, strings, wrapped, disposed, reachable, queued, lost, accepting>>
  PROVE  HandleInv'
<1>1. PICK f : f = Frame("native", o, args, checked, <<>>)
  OBVIOUS
<1>2. f = [kind |-> "native", self |-> o, args |-> args, checked |-> checked, pending |-> <<>>]
  BY <1>1 DEF Frame
<1>3. o \in Handles \cup {None}
  BY DEF HandleInv, HandleTypes, Usable
<1>4. f \in Frames
  BY <1>2, <1>3, EmptyPending DEF Frames
<1>5. Len(<<>>) = 0 /\ 0 <= MaxArgs
  BY HandleAssumption
<1>6. /\ f.pending = <<>> /\ f.kind = "native" /\ f.self = o /\ f.checked = checked
      /\ ToSet(f.pending) = {}
  BY <1>2, EmptyPending
<1>7. FrameOK(f)
  BY <1>4, <1>5, <1>6, EmptyPending DEF FrameOK
<1>8. TopIs({"js", "dotnet"})
  BY DEF TopIs
<1>9. StackOK(stack') /\ Top' = f /\ Held(stack') = Held(stack) \cup ToSet(f.pending)
  BY <1>1, <1>6, <1>7, <1>8, Pushes
<1>10. Held(stack') = Held(stack)
  BY <1>6, <1>9
<1>11. checked /\ o # None => ref[o] = "live"
  BY <1>3 DEF HandleInv, HandleTypes, OwnersInv, Owned, Usable
<1>12. CheckedReadsAreLive'
  BY <1>6, <1>9, <1>11 DEF CheckedReadsAreLive
<1>13. HandleTypes' /\ OwnersInv'
  BY <1>10 DEF HandleInv, HandleTypes, OwnersInv
<1> QED
  BY <1>9, <1>12, <1>13 DEF HandleInv

(* Application code disposes an object on the node thread.                 *)
LEMMA DisposeKeeps ==
  ASSUME HandleInv, NEW o, Dispose(o)
  PROVE  HandleInv'
<1>1. /\ TopIs({"dotnet"}) /\ o \in reachable /\ o \notin disposed /\ disposed' = disposed \cup {o} /\ Free({o})
      /\ UNCHANGED <<strings, wrapped, reachable, queued, lost, stack, accepting>>
  BY DEF Dispose
<1>2. o \in wrapped /\ o \in Handles
  BY <1>1 DEF HandleInv, HandleTypes
<1>3. HandleTypes'
  BY <1>1, <1>2 DEF HandleInv, HandleTypes, Free
<1>4. OwnersInv'
  <2> SUFFICES ASSUME NEW h \in Handles
               PROVE  Owned(h, Held(stack), wrapped, disposed', queued, lost, ref', frees')
    BY <1>1 DEF OwnersInv
  <2>1. Owned(h, Held(stack), wrapped, disposed, queued, lost, ref, frees)
    BY DEF HandleInv, OwnersInv
  <2> QED
    BY <1>1, <1>2, <2>1 DEF HandleInv, HandleTypes, Free, Owned
<1>5. CheckedReadsAreLive'
  BY <1>1 DEF CheckedReadsAreLive, TopIs, Top
<1> QED
  BY <1>1, <1>3, <1>4, <1>5 DEF HandleInv

(* The release of an object outside the context waits, or is dropped.      *)
LEMMA DisposedLaterKeeps ==
  ASSUME HandleInv, NEW o, o \in wrapped, o \notin disposed, disposed' = disposed \cup {o}, ReleaseLater(o),
         UNCHANGED <<strings, wrapped, reachable, stack, accepting>>
  PROVE  HandleInv'
<1>1. /\ UNCHANGED <<ref, frees>>
      /\ accepting => queued' = queued \cup {o} /\ lost' = lost
      /\ ~accepting => lost' = lost \cup {o} /\ queued' = queued
  BY DEF ReleaseLater, nativeVars
<1>2. HandleTypes'
  BY <1>1 DEF HandleInv, HandleTypes
<1>3. OwnersInv'
  <2> SUFFICES ASSUME NEW h \in Handles
               PROVE  Owned(h, Held(stack), wrapped, disposed', queued', lost', ref, frees)
    BY <1>1 DEF OwnersInv
  <2>1. Owned(h, Held(stack), wrapped, disposed, queued, lost, ref, frees)
    BY DEF HandleInv, OwnersInv
  <2>2. CASE accepting
    BY <1>1, <2>1, <2>2 DEF Owned
  <2>3. CASE ~accepting
    BY <1>1, <2>1, <2>3 DEF Owned
  <2> QED
    BY <2>2, <2>3
<1>4. CheckedReadsAreLive'
  BY <1>1 DEF HandleInv, CheckedReadsAreLive, TopIs, Top
<1> QED
  BY <1>2, <1>3, <1>4 DEF HandleInv

(* The scheduler takes no more tasks.                                      *)
LEMMA CloseKeeps ==
  ASSUME HandleInv, Close
  PROVE  HandleInv'
<1>1. /\ accepting' = FALSE /\ lost' = lost \cup queued /\ queued' = {}
      /\ UNCHANGED <<ref, frees, strings, wrapped, disposed, reachable, stack>>
  BY DEF Close, nativeVars, objectVars
<1>2. HandleTypes'
  BY <1>1 DEF HandleInv, HandleTypes
<1>3. OwnersInv'
  <2> SUFFICES ASSUME NEW h \in Handles
               PROVE  Owned(h, Held(stack), wrapped, disposed, queued', lost', ref, frees)
    BY <1>1 DEF OwnersInv
  <2>1. Owned(h, Held(stack), wrapped, disposed, queued, lost, ref, frees)
    BY DEF HandleInv, OwnersInv
  <2>2. h \in queued => h \in disposed
    BY DEF HandleInv, HandleTypes
  <2> QED
    BY <1>1, <2>1, <2>2 DEF Owned
<1>4. CheckedReadsAreLive'
  BY <1>1 DEF HandleInv, CheckedReadsAreLive, TopIs, Top
<1> QED
  BY <1>1, <1>2, <1>3, <1>4 DEF HandleInv

(* Every step keeps HandleInv.                                             *)
LEMMA HandleInvNext == HandleInv /\ [Next]_vars => HandleInv'
<1> SUFFICES ASSUME HandleInv, [Next]_vars PROVE HandleInv'
  OBVIOUS
<1>1. CASE UNCHANGED vars
  BY <1>1 DEF vars, nativeVars, objectVars, HandleInv, HandleTypes, OwnersInv, CheckedReadsAreLive, TopIs, Top
<1>2. CASE FrameStep
  BY <1>2, ConversionThrowsKeeps, FrameEndsKeeps, ReleaseRemainingArgsKeeps, KeepObjectKeeps,
     ReadValueKeeps, EnterJsKeeps, ArrayReturnsKeeps
  DEF FrameStep, FrameEnds
<1>3. ASSUME NEW o \in Usable, NEW args \in {{}} \cup {{a} : a \in reachable}, Call(o, args) PROVE HandleInv'
  <2>1. args \in SUBSET Handles
    BY DEF HandleInv, HandleTypes
  <2> QED
    BY <1>3, <2>1, CallKeeps DEF Call, nativeVars, objectVars
<1>4. ASSUME NEW o \in Usable, NEW args \in {{}} \cup {{a} : a \in reachable}, CreateNewInstance(o, args)
      PROVE  HandleInv'
  <2>1. args \in SUBSET Handles
    BY DEF HandleInv, HandleTypes
  <2> QED
    BY <1>4, <2>1, CallKeeps DEF CreateNewInstance, nativeVars, objectVars
<1>5. ASSUME NEW o \in Handles, ObjectStep(o) PROVE HandleInv'
  <2>1. CASE DisposeElsewhere(o)
    <3>1. o \in wrapped
      BY <2>1 DEF DisposeElsewhere, HandleInv, HandleTypes
    <3> QED
      BY <2>1, <3>1, DisposedLaterKeeps DEF DisposeElsewhere
  <2>2. CASE FinalizeObject(o)
    BY <2>2, DisposedLaterKeeps DEF FinalizeObject
  <2>3. CASE Forget(o)
    <3>1. HandleTypes'
      BY <2>3 DEF Forget, HandleInv, HandleTypes, nativeVars
    <3> QED
      BY <2>3, <3>1 DEF Forget, HandleInv, OwnersInv, CheckedReadsAreLive, TopIs, Top, nativeVars
  <2> QED
    BY <1>5, <2>1, <2>2, <2>3, DisposeKeeps, RunReleaseTaskKeeps DEF ObjectStep
<1> QED
  BY <1>1, <1>2, <1>3, <1>4, <1>5, CloseKeeps, TurnKeeps, CallbackKeeps, CallReturnsKeeps, NextElementKeeps
  DEF Next

(* At the start there is no handle.                                        *)
LEMMA HandleInvInit == Init => HandleInv
<1> SUFFICES ASSUME Init PROVE HandleInv
  OBVIOUS
<1> USE DEF Init
<1>1. HandleTypes
  BY DEF HandleTypes
<1>2. StackOK(stack)
  <2>1. <<>> \in Seq(Frames) /\ DOMAIN <<>> = {}
    OBVIOUS
  <2> QED
    BY <2>1 DEF StackOK
<1>3. OwnersInv
  <2>1. Held(<<>>) = {}
    BY DEF Held
  <2> QED
    BY <2>1 DEF OwnersInv, Owned
<1>4. CheckedReadsAreLive
  BY DEF CheckedReadsAreLive, TopIs
<1> QED
  BY <1>1, <1>2, <1>3, <1>4 DEF HandleInv

(* HandleInv holds in every behaviour.                                     *)
LEMMA HandleInvariant == Spec => []HandleInv
  BY HandleInvInit, HandleInvNext, PTL DEF Spec

(* For any number of handles, arguments and frames: a native call whose    *)
(* object passed CheckDisposed reads a handle that is still allocated,     *)
(* whoever disposes the object or collects it meanwhile                    *)
(* (JsDynamicObject.cs: CheckDisposed, Release).                           *)
THEOREM CheckedReads == Spec => []CheckedReadsAreLive
<1>1. HandleInv => CheckedReadsAreLive
  BY DEF HandleInv
<1> QED
  BY <1>1, HandleInvariant, PTL

(* For any number of handles, arguments and frames: each handle that       *)
(* native code allocated has one owner that will release it or is one of   *)
(* those known to be lost, and what was freed was deleted once             *)
(* (TryGetObject, ReleaseRemainingArgs, Dispose, Release).                 *)
THEOREM OneOwnerAlways == Spec => []OneOwner
<1>1. HandleInv => OneOwner
  <2> SUFFICES ASSUME HandleInv PROVE OneOwner
    OBVIOUS
  <2>1. HandleTypes /\ StackOK(stack) /\ OwnersInv
    BY DEF HandleInv
  <2>2. TypeOK
    BY <2>1 DEF HandleTypes, StackOK, TypeOK
  <2>3. ASSUME NEW h \in Handles
        PROVE  /\ Cardinality(Slots(h)) + Count(h \in wrapped \ disposed) + Count(h \in queued)
                    + Count(h \in lost) = Count(ref[h] = "live")
               /\ frees[h] = Count(ref[h] = "freed")
    <3>1. Owned(h, Held(stack), wrapped, disposed, queued, lost, ref, frees)
      BY <2>1 DEF OwnersInv
    <3>2. PICK k : k = Cardinality(Slots(h))
      OBVIOUS
    <3>3. k = IF h \in Held(stack) THEN 1 ELSE 0
      BY <2>1, <3>2, SlotsCounted
    <3>4. /\ k + Count(h \in wrapped \ disposed) + Count(h \in queued)
               + Count(h \in lost) = Count(ref[h] = "live")
      BY <3>1, <3>3 DEF Owned, Count
    <3>5. frees[h] = Count(ref[h] = "freed")
      BY <3>1 DEF Owned, Count
    <3> QED
      BY <3>2, <3>4, <3>5
  <2> QED
    BY <2>2, <2>3 DEF OneOwner
<1> QED
  BY <1>1, HandleInvariant, PTL

-----------------------------------------------------------------------------
(* Values from .NET: one releaser each.                                    *)

(* x is kept in K just when one of passing, finalizers and leaked has it.  *)
Released(x, ids, F, L, K) ==
  /\ x \in K <=> x \in ids \/ x \in F \/ x \in L
  /\ x \in ids => x \notin F /\ x \notin L
  /\ x \in F => x \notin L

(* The types of DotNetValues' variables.                                   *)
ValuesTypes ==
  /\ registry \subseteq Pointers /\ blocks \subseteq Blocks
  /\ op \in {"none", "set", "create", "invoke", "result", "resolve", "reject"}
  /\ passing \in Seq(DotNetValue)
  /\ functions \in [Pointers -> {"none", "live", "garbage"}]
  /\ finalizers \subseteq Pointers /\ raced \subseteq Pointers
  /\ leaked \subseteq Pointers \cup Blocks
  /\ thrown \in BOOLEAN /\ alive \in BOOLEAN /\ adding \in BOOLEAN

(* The values of a call are different; without a call there are none; and  *)
(* a deleted context has neither a call nor a finalizer.                   *)
PassingInv ==
  /\ \A i, j \in DOMAIN passing : passing[i].id = passing[j].id => i = j
  /\ op = "none" => passing = <<>>
  /\ ~alive => op = "none" /\ finalizers = {}

(* Every block, and every function pointer that no two threads worked on   *)
(* at once, has one releaser while it is kept.                             *)
ReleasedInv ==
  /\ \A b \in Blocks : Released(b, Ids(passing), finalizers, leaked, blocks)
  /\ \A p \in Pointers \ raced : Released(p, Ids(passing), finalizers, leaked, registry)

(* A JavaScript function has a finalizer while the context lives; what its *)
(* end leaves behind is leaked.                                            *)
FunctionsInv ==
  /\ \A p \in Pointers : alive /\ functions[p] # "none" => p \in finalizers
  /\ \A p \in Pointers \ raced : ~alive /\ p \in registry => p \in leaked

(* The inductive invariant of the values that .NET passes.                 *)
ValuesInv == ValuesTypes /\ PassingInv /\ ReleasedInv /\ FunctionsInv

(* What a value that .NET passes is.                                       *)
LEMMA ValueFacts ==
  ASSUME NEW v \in DotNetValue
  PROVE  /\ v.kind \in {"function", "block", "exception"}
         /\ v.kind = "function" => v.id \in Pointers
         /\ v.kind # "function" => v.id \in Blocks
  BY DEF DotNetValue, Value

(* The pointers and blocks of some values.                                 *)
LEMMA IdsFacts ==
  ASSUME NEW vs \in Seq(DotNetValue)
  PROVE  Ids(vs) \subseteq Pointers \cup Blocks
<1>1. \A i \in DOMAIN vs : vs[i] \in DotNetValue
  OBVIOUS
<1> QED
  BY <1>1, ValueFacts DEF Ids

(* New values: nothing has their ids, except entries that were raced for.  *)
LEMMA FreshFacts ==
  ASSUME ValuesInv, NEW vs \in Seq(DotNetValue), Fresh(vs), op = "none"
  PROVE  /\ Ids(passing) = {}
         /\ \A b \in Blocks : b \in Ids(vs) => b \notin blocks /\ b \notin leaked
         /\ \A p \in Pointers : p \in Ids(vs) =>
              p \notin raced /\ p \notin registry /\ p \notin finalizers /\ p \notin leaked
<1>1. Ids(passing) = {}
  BY DEF ValuesInv, PassingInv, Ids
<1>2. Ids(vs) \cap (registry \cup raced \cup blocks) = {}
  BY DEF Fresh
<1> QED
  BY <1>1, <1>2 DEF ValuesInv, ReleasedInv, Released

(* Callbacks are registered; another thread may work on the same entries.  *)
LEMMA AddFacts ==
  ASSUME NEW ps, Add(ps)
  PROVE  /\ raced \subseteq raced' /\ raced' \subseteq raced \cup ps
         /\ registry \subseteq registry' /\ registry' \subseteq registry \cup ps
         /\ \A p \in ps : p \notin raced' => p \in registry'
<1>1. PICK l \in MayBeLost(ps) : registry' = registry \cup (ps \ l) /\ raced' = raced \cup l
  BY DEF Add
<1>2. l \subseteq ps
  BY DEF MayBeLost
<1> QED
  BY <1>1, <1>2

(* Callbacks are released; another thread may work on the same entries.    *)
LEMMA ReleaseFacts ==
  ASSUME NEW ps, ReleaseCallback(ps)
  PROVE  /\ raced \subseteq raced' /\ raced' \subseteq raced \cup ps
         /\ registry' \subseteq registry
         /\ \A p \in registry : p \notin ps => p \in registry'
         /\ \A p \in ps : p \notin raced' => p \notin registry'
<1>1. PICK l \in MayBeLost(ps) : registry' = registry \ (ps \ l) /\ raced' = raced \cup l
  BY DEF ReleaseCallback
<1>2. l \subseteq ps
  BY DEF MayBeLost
<1> QED
  BY <1>1, <1>2

(* A native call begins.                                                   *)
LEMMA BeginKeeps ==
  ASSUME ValuesInv, NEW vs \in Seq(DotNetValue), NEW name, Begin(name, vs),
         name \in {"set", "create", "invoke", "result", "resolve", "reject"}
  PROVE  ValuesInv'
<1>1. /\ op = "none" /\ alive /\ Fresh(vs) /\ op' = name /\ passing' = vs
      /\ Add(Ids(vs) \cap Pointers) /\ blocks' = blocks \cup (Ids(vs) \cap Blocks)
      /\ UNCHANGED <<thrown, functions, finalizers, alive, adding, leaked>>
  BY DEF Begin, Marshal, jsVars
<1>2. PICK ids : ids = Ids(vs)
  OBVIOUS
<1>3. ids \subseteq Pointers \cup Blocks
  BY <1>2, IdsFacts
<1>4. /\ raced \subseteq raced' /\ raced' \subseteq raced \cup (ids \cap Pointers)
      /\ registry \subseteq registry' /\ registry' \subseteq registry \cup (ids \cap Pointers)
      /\ \A p \in ids \cap Pointers : p \notin raced' => p \in registry'
  BY <1>1, <1>2, AddFacts
<1>5. /\ Ids(passing) = {}
      /\ \A b \in Blocks : b \in ids => b \notin blocks /\ b \notin leaked
      /\ \A p \in Pointers : p \in ids =>
           p \notin raced /\ p \notin registry /\ p \notin finalizers /\ p \notin leaked
  BY <1>1, <1>2, FreshFacts
<1>6. ValuesTypes'
  BY <1>1, <1>2, <1>4 DEF ValuesInv, ValuesTypes
<1>7. PassingInv'
  BY <1>1 DEF Fresh, PassingInv
<1>8. ReleasedInv'
  <2>1. ASSUME NEW b \in Blocks PROVE Released(b, ids, finalizers, leaked, blocks')
    <3>1. b \notin finalizers
      BY ValuesAssumption DEF ValuesInv, ValuesTypes
    <3>2. Released(b, {}, finalizers, leaked, blocks)
      BY <1>5 DEF ValuesInv, ReleasedInv
    <3> QED
      BY <1>1, <1>2, <1>5, <3>1, <3>2 DEF Released
  <2>2. ASSUME NEW p \in Pointers \ raced' PROVE Released(p, ids, finalizers, leaked, registry')
    <3>1. p \notin raced
      BY <1>4
    <3>2. Released(p, {}, finalizers, leaked, registry)
      BY <1>5, <3>1 DEF ValuesInv, ReleasedInv
    <3> QED
      BY <1>4, <1>5, <3>1, <3>2 DEF Released
  <2> QED
    BY <1>1, <1>2, <2>1, <2>2 DEF ReleasedInv
<1>9. FunctionsInv'
  BY <1>1 DEF ValuesInv, FunctionsInv
<1> QED
  BY <1>6, <1>7, <1>8, <1>9 DEF ValuesInv

(* A call that the native host refuses: its values are released or leaked  *)
(* at once.                                                                *)
LEMMA RefusedKeeps ==
  ASSUME ValuesInv, NEW vs \in Seq(DotNetValue), Refused(vs)
  PROVE  ValuesInv'
<1>1. /\ op = "none" /\ alive /\ Fresh(vs)
      /\ Add(Ids(vs) \cap Pointers) /\ blocks' = blocks \cup (Ids(vs) \cap Blocks)
      /\ leaked' = leaked \cup Ids(vs) /\ thrown' \in {thrown, FALSE}
      /\ UNCHANGED <<op, passing, functions, finalizers, alive, adding>>
  BY DEF Refused, Marshal, jsVars
<1>2. PICK ids : ids = Ids(vs)
  OBVIOUS
<1>3. ids \subseteq Pointers \cup Blocks
  BY <1>2, IdsFacts
<1>4. /\ raced \subseteq raced' /\ raced' \subseteq raced \cup (ids \cap Pointers)
      /\ registry \subseteq registry' /\ registry' \subseteq registry \cup (ids \cap Pointers)
      /\ \A p \in ids \cap Pointers : p \notin raced' => p \in registry'
  BY <1>1, <1>2, AddFacts
<1>5. /\ Ids(passing) = {}
      /\ \A b \in Blocks : b \in ids => b \notin blocks /\ b \notin leaked
      /\ \A p \in Pointers : p \in ids =>
           p \notin raced /\ p \notin registry /\ p \notin finalizers /\ p \notin leaked
  BY <1>1, <1>2, FreshFacts
<1>6. ValuesTypes'
  BY <1>1, <1>2, <1>3, <1>4 DEF ValuesInv, ValuesTypes
<1>7. PassingInv'
  BY <1>1 DEF ValuesInv, PassingInv
<1>8. ReleasedInv'
  <2>1. ASSUME NEW b \in Blocks PROVE Released(b, {}, finalizers, leaked', blocks')
    <3>1. b \notin finalizers
      BY ValuesAssumption DEF ValuesInv, ValuesTypes
    <3>2. Released(b, {}, finalizers, leaked, blocks)
      BY <1>5 DEF ValuesInv, ReleasedInv
    <3> QED
      BY <1>1, <1>2, <1>5, <3>1, <3>2 DEF Released
  <2>2. ASSUME NEW p \in Pointers \ raced' PROVE Released(p, {}, finalizers, leaked', registry')
    <3>1. p \notin raced
      BY <1>4
    <3>2. Released(p, {}, finalizers, leaked, registry)
      BY <1>5, <3>1 DEF ValuesInv, ReleasedInv
    <3> QED
      BY <1>1, <1>2, <1>4, <1>5, <3>1, <3>2 DEF Released
  <2> QED
    BY <1>1, <1>5, <2>1, <2>2 DEF ReleasedInv
<1>9. FunctionsInv'
  BY <1>1 DEF ValuesInv, FunctionsInv
<1> QED
  BY <1>6, <1>7, <1>8, <1>9 DEF ValuesInv

(* The next value is converted and released, or left to a finalizer.       *)
LEMMA ConvertNextKeeps ==
  ASSUME ValuesInv, ConvertNext
  PROVE  ValuesInv'
<1>1. PICK v, rest : v = Head(passing) /\ rest = Tail(passing)
  OBVIOUS
<1>2. /\ passing # <<>> /\ passing' = rest
      /\ UNCHANGED <<op, alive, adding, leaked, registry, raced>>
      /\ v.kind = "function" =>
           /\ finalizers' = finalizers \cup {v.id}
           /\ functions' = IF thrown THEN functions ELSE [functions EXCEPT ![v.id] = "live"]
           /\ UNCHANGED <<blocks, thrown>>
      /\ v.kind \in {"block", "exception"} =>
           /\ blocks' = blocks \ {v.id}
           /\ thrown' = (thrown \/ (v.kind = "exception" /\ op # "reject"))
           /\ UNCHANGED <<finalizers, functions>>
  BY <1>1 DEF ConvertNext, Convert
<1>3. /\ ValuesTypes /\ PassingInv /\ ReleasedInv /\ FunctionsInv
      /\ passing \in Seq(DotNetValue)
  BY DEF ValuesInv, ValuesTypes
<1>4. /\ rest \in Seq(DotNetValue) /\ Len(rest) = Len(passing) - 1 /\ Len(passing) \in Nat \ {0}
      /\ \A i \in 1..Len(rest) : rest[i] = passing[i + 1]
      /\ v = passing[1] /\ v \in DotNetValue
  BY <1>1, <1>2, <1>3, TailFacts
<1>5. /\ v.kind \in {"function", "block", "exception"}
      /\ v.kind = "function" => v.id \in Pointers
      /\ v.kind # "function" => v.id \in Blocks
  BY <1>4, ValueFacts
<1>6. DOMAIN passing = 1..Len(passing) /\ DOMAIN rest = 1..Len(rest)
  BY <1>3, <1>4
<1>7. \A i \in DOMAIN rest : i + 1 \in DOMAIN passing /\ i + 1 # 1 /\ rest[i] = passing[i + 1]
  BY <1>4, <1>6
<1>8. \A i, j \in DOMAIN rest : rest[i].id = rest[j].id => i = j
  <2> SUFFICES ASSUME NEW i \in DOMAIN rest, NEW j \in DOMAIN rest, rest[i].id = rest[j].id
               PROVE  i = j
    OBVIOUS
  <2>1. i + 1 = j + 1
    BY <1>3, <1>7 DEF PassingInv
  <2>2. i \in Int /\ j \in Int
    BY <1>6
  <2> QED
    BY <2>1, <2>2
<1>9. 1 \in DOMAIN passing
  BY <1>4, <1>6
<1>10. PICK ids : ids = Ids(rest)
  OBVIOUS
<1>11. v.id \notin ids
  BY <1>3, <1>4, <1>7, <1>9, <1>10 DEF PassingInv, Ids
<1>12. Ids(passing) = ids \cup {v.id}
  <2>1. \A i \in DOMAIN rest : rest[i].id \in Ids(passing)
    BY <1>7 DEF Ids
  <2>2. v.id \in Ids(passing)
    BY <1>4, <1>9 DEF Ids
  <2>3. ASSUME NEW i \in DOMAIN passing PROVE passing[i].id \in ids \cup {v.id}
    <3>1. CASE i = 1
      BY <1>4, <3>1
    <3>2. CASE i # 1
      <4>1. PICK k : k = i - 1
        OBVIOUS
      <4>2. k \in DOMAIN rest /\ i = k + 1
        BY <1>4, <1>6, <3>2, <4>1
      <4> QED
        BY <1>7, <1>10, <4>2 DEF Ids
    <3> QED
      BY <3>1, <3>2
  <2>4. \A x \in ids : x \in Ids(passing)
    BY <1>10, <2>1 DEF Ids
  <2>5. \A x \in Ids(passing) : x \in ids \cup {v.id}
    BY <2>3 DEF Ids
  <2> QED
    BY <2>2, <2>4, <2>5
<1>13. /\ \A b \in Blocks : Released(b, ids \cup {v.id}, finalizers, leaked, blocks)
       /\ \A p \in Pointers \ raced : Released(p, ids \cup {v.id}, finalizers, leaked, registry)
  BY <1>3, <1>12 DEF ReleasedInv
<1>14. op # "none" /\ alive
  BY <1>2, <1>3 DEF PassingInv, ValuesTypes
<1>15. PassingInv'
  BY <1>2, <1>8, <1>14 DEF PassingInv
<1>16. CASE v.kind = "function"
  <2>1. v.id \in Pointers /\ v.id \notin Blocks
    BY <1>5, <1>16, ValuesAssumption
  <2>2. ValuesTypes'
    BY <1>2, <1>3, <1>4, <1>16, <2>1 DEF ValuesTypes
  <2>3. \A b \in Blocks : Released(b, ids, finalizers', leaked, blocks)
    BY <1>2, <1>13, <1>16, <2>1 DEF Released
  <2>4. \A p \in Pointers \ raced : Released(p, ids, finalizers', leaked, registry)
    BY <1>2, <1>11, <1>13, <1>16, <2>1 DEF Released
  <2>5. ReleasedInv'
    BY <1>2, <1>10, <1>16, <2>3, <2>4 DEF ReleasedInv
  <2>6. FunctionsInv'
    BY <1>2, <1>3, <1>14, <1>16, <2>1 DEF FunctionsInv, ValuesTypes
  <2> QED
    BY <1>15, <2>2, <2>5, <2>6 DEF ValuesInv
<1>17. CASE v.kind # "function"
  <2>1. v.id \in Blocks /\ v.id \notin Pointers
    BY <1>5, <1>17, ValuesAssumption
  <2>2. ValuesTypes'
    BY <1>2, <1>3, <1>4, <1>5, <1>17 DEF ValuesTypes
  <2>3. \A b \in Blocks : Released(b, ids, finalizers, leaked, blocks')
    <3>1. \A b \in Blocks : b \notin finalizers
      BY <1>3, ValuesAssumption DEF ValuesTypes
    <3>2. blocks' = blocks \ {v.id}
      BY <1>2, <1>5, <1>17
    <3> QED
      BY <1>11, <1>13, <3>1, <3>2 DEF Released
  <2>4. \A p \in Pointers \ raced : Released(p, ids, finalizers, leaked, registry)
    BY <1>13, <2>1 DEF Released
  <2>5. ReleasedInv'
    BY <1>2, <1>5, <1>10, <1>17, <2>3, <2>4 DEF ReleasedInv
  <2>6. FunctionsInv'
    BY <1>2, <1>3, <1>5, <1>17 DEF FunctionsInv
  <2> QED
    BY <1>15, <2>2, <2>5, <2>6 DEF ValuesInv
<1> QED
  BY <1>16, <1>17

(* A function that another thread has registered is refused.               *)
LEMMA RefusedElsewhereKeeps ==
  ASSUME ValuesInv, NEW p \in Pointers, RefusedElsewhere(p)
  PROVE  ValuesInv'
<1>1. PICK vs : vs = <<[kind |-> "function", id |-> p]>>
  OBVIOUS
<1>2. /\ Fresh(vs) /\ adding' = FALSE /\ registry' = registry \cup {p} /\ leaked' = leaked \cup {p}
      /\ UNCHANGED <<blocks, op, passing, thrown, functions, finalizers, alive, raced>>
  BY <1>1 DEF RefusedElsewhere, callVars, jsVars
<1>3. p \in Ids(vs)
  BY <1>1 DEF Ids
<1>4. p \notin registry /\ p \notin raced /\ p \notin Blocks
  BY <1>2, <1>3, ValuesAssumption DEF Fresh
<1>5. ValuesTypes'
  BY <1>2 DEF ValuesInv, ValuesTypes
<1>6. PassingInv'
  BY <1>2 DEF ValuesInv, PassingInv
<1>7. ReleasedInv'
  BY <1>2, <1>4 DEF ValuesInv, ReleasedInv, Released
<1>8. FunctionsInv'
  BY <1>2 DEF ValuesInv, FunctionsInv
<1> QED
  BY <1>5, <1>6, <1>7, <1>8 DEF ValuesInv

(* JavaScript drops its last reference to a function.                      *)
LEMMA DropKeeps ==
  ASSUME ValuesInv, NEW p \in Pointers, Drop(p)
  PROVE  ValuesInv'
<1>1. /\ functions[p] = "live" /\ functions' = [functions EXCEPT ![p] = "garbage"]
      /\ UNCHANGED <<registry, blocks, op, passing, thrown, finalizers, alive, adding, raced, leaked>>
  BY DEF Drop, dotnetVars, callVars, raceVars
<1>2. ValuesTypes'
  BY <1>1 DEF ValuesInv, ValuesTypes
<1>3. PassingInv' /\ ReleasedInv'
  BY <1>1 DEF ValuesInv, PassingInv, ReleasedInv
<1>4. FunctionsInv'
  BY <1>1 DEF ValuesInv, ValuesTypes, FunctionsInv
<1> QED
  BY <1>2, <1>3, <1>4 DEF ValuesInv

(* A function is collected: its pointer is not in the registry any more.   *)
LEMMA FinalizeKeeps ==
  ASSUME ValuesInv, NEW p \in Pointers, Finalize(p)
  PROVE  ValuesInv'
<1>1. /\ functions' = [functions EXCEPT ![p] = "none"]
      /\ ReleaseCallback({p} \cap finalizers) /\ finalizers' = finalizers \ {p}
      /\ UNCHANGED <<blocks, op, passing, thrown, alive, adding, leaked>>
  BY DEF Finalize, callVars
<1>2. PICK ps : ps = {p} \cap finalizers
  OBVIOUS
<1>3. /\ raced \subseteq raced' /\ raced' \subseteq raced \cup ps
      /\ registry' \subseteq registry
      /\ \A q \in registry : q \notin ps => q \in registry'
      /\ \A q \in ps : q \notin raced' => q \notin registry'
  BY <1>1, <1>2, ReleaseFacts
<1>4. ValuesTypes'
  BY <1>1, <1>2, <1>3 DEF ValuesInv, ValuesTypes
<1>5. PassingInv'
  BY <1>1 DEF ValuesInv, PassingInv
<1>6. ReleasedInv'
  <2>1. ASSUME NEW b \in Blocks PROVE Released(b, Ids(passing), finalizers', leaked, blocks)
    <3>1. b \notin finalizers
      BY ValuesAssumption DEF ValuesInv, ValuesTypes
    <3> QED
      BY <1>1, <3>1 DEF ValuesInv, ReleasedInv, Released
  <2>2. ASSUME NEW q \in Pointers \ raced' PROVE Released(q, Ids(passing), finalizers', leaked, registry')
    <3>1. q \notin raced
      BY <1>3
    <3>2. Released(q, Ids(passing), finalizers, leaked, registry)
      BY <3>1 DEF ValuesInv, ReleasedInv
    <3> QED
      BY <1>1, <1>2, <1>3, <3>2 DEF Released
  <2> QED
    BY <1>1, <2>1, <2>2 DEF ReleasedInv
<1>7. FunctionsInv'
  <2>1. \A q \in Pointers : alive' /\ functions'[q] # "none" => q \in finalizers'
    BY <1>1 DEF ValuesInv, ValuesTypes, FunctionsInv
  <2>2. \A q \in Pointers \ raced' : ~alive' /\ q \in registry' => q \in leaked'
    BY <1>1, <1>3 DEF ValuesInv, FunctionsInv
  <2> QED
    BY <2>1, <2>2 DEF FunctionsInv
<1> QED
  BY <1>4, <1>5, <1>6, <1>7 DEF ValuesInv

(* The context is deleted: what finalizers were to release is released.    *)
LEMMA DeleteContextKeeps ==
  ASSUME ValuesInv, DeleteContext
  PROVE  ValuesInv'
<1>1. /\ op = "none" /\ alive' = FALSE /\ ReleaseCallback(finalizers) /\ finalizers' = {}
      /\ UNCHANGED <<blocks, op, passing, thrown, functions, adding, leaked>>
  BY DEF DeleteContext, Cancel, callVars
<1>2. /\ raced \subseteq raced' /\ raced' \subseteq raced \cup finalizers
      /\ registry' \subseteq registry
      /\ \A q \in registry : q \notin finalizers => q \in registry'
      /\ \A q \in finalizers : q \notin raced' => q \notin registry'
  BY <1>1, ReleaseFacts
<1>3. Ids(passing) = {}
  BY <1>1 DEF ValuesInv, PassingInv, Ids
<1>4. ValuesTypes'
  BY <1>1, <1>2 DEF ValuesInv, ValuesTypes
<1>5. PassingInv'
  BY <1>1 DEF ValuesInv, PassingInv
<1>6. \A q \in Pointers \ raced' : Released(q, {}, {}, leaked, registry')
  <2> TAKE q \in Pointers \ raced'
  <2>1. Released(q, {}, finalizers, leaked, registry)
    BY <1>2, <1>3 DEF ValuesInv, ReleasedInv
  <2> QED
    BY <1>2, <2>1 DEF Released
<1>7. ReleasedInv'
  <2>1. \A b \in Blocks : Released(b, {}, {}, leaked, blocks)
    BY <1>3, ValuesAssumption DEF ValuesInv, ValuesTypes, ReleasedInv, Released
  <2> QED
    BY <1>1, <1>3, <1>6, <2>1 DEF ReleasedInv
<1>8. FunctionsInv'
  BY <1>1, <1>6 DEF FunctionsInv, Released
<1> QED
  BY <1>4, <1>5, <1>7, <1>8 DEF ValuesInv

(* Every step keeps ValuesInv.                                             *)
LEMMA ValuesInvNext == ValuesInv /\ [ValuesNext]_valuesVars => ValuesInv'
<1> SUFFICES ASSUME ValuesInv, [ValuesNext]_valuesVars PROVE ValuesInv'
  OBVIOUS
<1>1. CASE UNCHANGED valuesVars
  BY <1>1 DEF ValuesInv, ValuesTypes, PassingInv, ReleasedInv, FunctionsInv, Ids,
              valuesVars, dotnetVars, callVars, jsVars, raceVars
<1>2. ASSUME NEW n \in 0..MaxValues, NEW vs \in [1..n -> DotNetValue],
             \/ SetMember(vs) \/ CreateObject(vs) \/ Invoke(vs) \/ CallbackReturns(vs)
             \/ CompletePromise(vs)
      PROVE  ValuesInv'
  <2>1. vs \in Seq(DotNetValue)
    BY ValuesAssumption
  <2>2. \E name \in {"set", "create", "invoke", "result", "resolve", "reject"} : Begin(name, vs)
    BY <1>2 DEF SetMember, CreateObject, Invoke, CallbackReturns, CompletePromise
  <2> QED
    BY <2>1, <2>2, BeginKeeps
<1>3. ASSUME NEW n \in 0..MaxValues, NEW vs \in [1..n -> DotNetValue], Refused(vs) PROVE ValuesInv'
  <2>1. vs \in Seq(DotNetValue)
    BY ValuesAssumption
  <2> QED
    BY <1>3, <2>1, RefusedKeeps
<1>4. CASE End
  <2>1. /\ op' = "none" /\ passing = <<>> /\ thrown' = (thrown /\ op \notin {"invoke", "result"})
        /\ UNCHANGED <<registry, blocks, passing, functions, finalizers, alive, adding, raced, leaked>>
    BY <1>4 DEF End, dotnetVars, jsVars, raceVars
  <2>2. ValuesTypes'
    BY <2>1 DEF ValuesInv, ValuesTypes
  <2> QED
    BY <2>1, <2>2 DEF ValuesInv, PassingInv, ReleasedInv, FunctionsInv
<1>5. CASE AddElsewhere
  <2>1. /\ adding' = TRUE
        /\ UNCHANGED <<registry, blocks, op, passing, thrown, functions, finalizers, alive, raced, leaked>>
    BY <1>5 DEF AddElsewhere, dotnetVars, callVars, jsVars
  <2>2. ValuesTypes'
    BY <2>1 DEF ValuesInv, ValuesTypes
  <2> QED
    BY <2>1, <2>2 DEF ValuesInv, PassingInv, ReleasedInv, FunctionsInv
<1>6. CASE Ended
  BY <1>1, <1>6 DEF Ended
<1> QED
  BY <1>1, <1>2, <1>3, <1>4, <1>5, <1>6, RefusedElsewhereKeeps, DropKeeps, FinalizeKeeps,
     ConvertNextKeeps, DeleteContextKeeps
  DEF ValuesNext

(* At the start .NET has passed nothing.                                   *)
LEMMA ValuesInvInit == ValuesInit => ValuesInv
<1> SUFFICES ASSUME ValuesInit PROVE ValuesInv
  OBVIOUS
<1>1. <<>> \in Seq(DotNetValue)
  OBVIOUS
<1>2. Ids(<<>>) = {}
  BY DEF Ids
<1>3. ValuesTypes
  BY <1>1 DEF ValuesInit, ValuesTypes
<1>4. PassingInv
  BY DEF ValuesInit, PassingInv
<1>5. ReleasedInv
  BY <1>2 DEF ValuesInit, ReleasedInv, Released
<1>6. FunctionsInv
  BY DEF ValuesInit, FunctionsInv
<1> QED
  BY <1>3, <1>4, <1>5, <1>6 DEF ValuesInv

(* What is released once has one owner, as the model counts owners.        *)
LEMMA OwnersCounted ==
  ASSUME ValuesInv, NEW x, NEW K, Released(x, Ids(passing), finalizers, leaked, K)
  PROVE  Owners(x) = Times(x \in K)
<1>1. PICK I : I = {i \in DOMAIN passing : passing[i].id = x}
  OBVIOUS
<1>2. Cardinality(I) = IF x \in Ids(passing) THEN 1 ELSE 0
  <2>1. CASE x \in Ids(passing)
    <3>1. PICK i \in DOMAIN passing : passing[i].id = x
      BY <2>1 DEF Ids
    <3>2. I = {i}
      BY <1>1, <3>1 DEF ValuesInv, PassingInv
    <3>3. Cardinality({i}) = 1
      BY FS_Singleton
    <3> QED
      BY <2>1, <3>2, <3>3
  <2>2. CASE x \notin Ids(passing)
    <3>1. I = {}
      BY <1>1, <2>2 DEF Ids
    <3>2. Cardinality({}) = 0
      BY FS_EmptySet
    <3> QED
      BY <2>2, <3>1, <3>2
  <2> QED
    BY <2>1, <2>2
<1>3. PICK k : k = Cardinality(I)
  OBVIOUS
<1>4. Owners(x) = k + Times(x \in finalizers) + Times(x \in leaked)
  BY <1>1, <1>3 DEF Owners
<1>5. k = IF x \in Ids(passing) THEN 1 ELSE 0
  BY <1>2, <1>3
<1>6. /\ Times(x \in finalizers) = IF x \in finalizers THEN 1 ELSE 0
      /\ Times(x \in leaked) = IF x \in leaked THEN 1 ELSE 0
      /\ Times(x \in K) = IF x \in K THEN 1 ELSE 0
  BY DEF Times
<1>7. CASE x \in Ids(passing)
  BY <1>4, <1>5, <1>6, <1>7 DEF Released
<1>8. CASE x \notin Ids(passing)
  BY <1>4, <1>5, <1>6, <1>8 DEF Released
<1> QED
  BY <1>7, <1>8

(* For any number of delegates, blocks and values of a call: what .NET     *)
(* made for JavaScript has one releaser, the native call that is still to  *)
(* convert it or the finalizer of its function, or is known to be leaked;  *)
(* a function that JavaScript can call has its delegate                    *)
(* (DotNetHandle::Release, CreateFunction, SynchronizedFinalizerCallback). *)
THEOREM OneReleaserAlways == ValuesSpec => []OneReleaser
<1>1. ValuesInv => OneReleaser
  <2> SUFFICES ASSUME ValuesInv PROVE OneReleaser
    OBVIOUS
  <2>1. ValuesTypes /\ ReleasedInv /\ FunctionsInv
    BY DEF ValuesInv
  <2>2. ValuesTypeOK
    BY <2>1 DEF ValuesTypes, ValuesTypeOK
  <2>3. \A b \in Blocks : Owners(b) = Times(b \in blocks)
    BY <2>1, OwnersCounted DEF ReleasedInv
  <2>4. ASSUME NEW p \in Pointers \ raced
        PROVE  /\ Owners(p) = Times(p \in registry)
               /\ alive /\ functions[p] = "live" => p \in registry \cap finalizers
               /\ ~alive /\ p \in registry => p \in leaked
    <3>1. Released(p, Ids(passing), finalizers, leaked, registry)
      BY <2>1 DEF ReleasedInv
    <3>2. Owners(p) = Times(p \in registry)
      BY <3>1, OwnersCounted
    <3>3. alive /\ functions[p] = "live" => p \in finalizers
      BY <2>1 DEF FunctionsInv
    <3>4. ~alive /\ p \in registry => p \in leaked
      BY <2>1 DEF FunctionsInv
    <3> QED
      BY <3>1, <3>2, <3>3, <3>4 DEF Released
  <2> QED
    BY <2>2, <2>3, <2>4 DEF OneReleaser
<1> QED
  BY <1>1, ValuesInvInit, ValuesInvNext, PTL DEF ValuesSpec
=============================================================================
