------------------------ MODULE NodeScheduler_proofs ------------------------
(***************************************************************************)
(* Proofs about NodeScheduler, for any sets of tasks and threads and any   *)
(* bounds.                                                                 *)
(***************************************************************************)
EXTENDS NodeScheduler, SequenceFacts, FiniteSetTheorems

-----------------------------------------------------------------------------
(* Rank: counting the calls of invokeDotnetMicrotask in V8's queue.        *)

Marked(s, n) == {j \in 1..n : s[j] # JsJob}

(* Rank is a number.                                                       *)
LEMMA RankType ==
  ASSUME NEW s, NEW n \in Nat
  PROVE  /\ IsFiniteSet(Marked(s, n))
         /\ Rank(s, n) = Cardinality(Marked(s, n))
         /\ Rank(s, n) \in Nat
<1>1. IsFiniteSet(1..n)
  BY FS_Interval
<1>2. Marked(s, n) \in SUBSET (1..n)
  BY DEF Marked
<1>3. IsFiniteSet(Marked(s, n))
  BY <1>1, <1>2, FS_Subset
<1> QED
  BY <1>3, FS_CardinalityType DEF Rank, Marked

(* One more entry counts if it is not one of JavaScript's.                 *)
LEMMA RankStep ==
  ASSUME NEW s, NEW n \in Nat
  PROVE  /\ Rank(s, 0) = 0
         /\ Rank(s, n + 1) = IF s[n + 1] = JsJob THEN Rank(s, n) ELSE Rank(s, n) + 1
<1>1. Marked(s, 0) = {}
  BY DEF Marked
<1>2. Rank(s, 0) = 0
  BY <1>1, FS_EmptySet, RankType
<1>3. CASE s[n + 1] = JsJob
  <2>1. Marked(s, n + 1) = Marked(s, n)
    BY <1>3 DEF Marked
  <2> QED
    BY <1>2, <1>3, <2>1 DEF Rank, Marked
<1>4. CASE s[n + 1] # JsJob
  <2>1. /\ Marked(s, n + 1) = Marked(s, n) \cup {n + 1}
        /\ n + 1 \notin Marked(s, n)
    BY <1>4 DEF Marked
  <2>2. Cardinality(Marked(s, n + 1)) = Cardinality(Marked(s, n)) + 1
    BY <2>1, RankType, FS_AddElement
  <2> QED
    BY <1>2, <1>4, <2>2 DEF Rank, Marked
<1> QED
  BY <1>3, <1>4

(* Rank never falls along a queue.                                         *)
LEMMA RankMonotonic ==
  ASSUME NEW s, NEW m \in Nat, NEW n \in Nat, m <= n
  PROVE  Rank(s, m) <= Rank(s, n)
<1>1. Marked(s, m) \in SUBSET Marked(s, n)
  BY DEF Marked
<1> QED
  BY <1>1, RankType, FS_Subset

(* An entry that counts has a place among the tasks.                       *)
LEMMA RankPlace ==
  ASSUME NEW s, NEW n \in Nat, NEW i \in 1..n, s[i] # JsJob
  PROVE  Rank(s, i) \in 1..Rank(s, n)
<1>1. i - 1 \in Nat /\ (i - 1) + 1 = i
  OBVIOUS
<1>2. Rank(s, i) = Rank(s, i - 1) + 1
  BY <1>1, RankStep
<1>3. Rank(s, i) <= Rank(s, n)
  BY RankMonotonic
<1> QED
  BY <1>1, <1>2, <1>3, RankType

(* Entries appended behind the first n do not change their rank.           *)
LEMMA RankPrefix ==
  ASSUME NEW s, NEW r, NEW n \in Nat, \A i \in 1..n : r[i] = s[i]
  PROVE  Rank(r, n) = Rank(s, n)
<1>1. Marked(r, n) = Marked(s, n)
  BY DEF Marked
<1> QED
  BY <1>1, RankType

(* Removing the first entry shifts every rank by what that entry counted.  *)
LEMMA RankShift ==
  ASSUME NEW s, NEW r, NEW n \in Nat, \A i \in 1..n : r[i] = s[i + 1]
  PROVE  Rank(s, n + 1) = IF s[1] = JsJob THEN Rank(r, n) ELSE Rank(r, n) + 1
<1> DEFINE T == Marked(s, n + 1) \ {1}
           f == [j \in Marked(r, n) |-> j + 1]
<1>1. IsFiniteSet(T)
  BY RankType, FS_RemoveElement
<1>2. f \in Bijection(Marked(r, n), T)
  <2>1. f \in [Marked(r, n) -> T]
    BY DEF Marked
  <2>2. \A a, b \in Marked(r, n) : f[a] = f[b] => a = b
    BY DEF Marked
  <2>3. \A k \in T : \E j \in Marked(r, n) : f[j] = k
    <3> TAKE k \in T
    <3>1. k - 1 \in Marked(r, n) /\ (k - 1) + 1 = k
      BY DEF Marked
    <3> QED
      BY <3>1
  <2> QED
    BY <2>1, <2>2, <2>3 DEF Bijection, Injection, Surjection, IsInjective
<1>3. Cardinality(T) = Rank(r, n)
  BY <1>2, RankType, FS_Bijection DEF ExistsBijection
<1>4. Cardinality(T) = IF s[1] = JsJob THEN Rank(s, n + 1) ELSE Rank(s, n + 1) - 1
  <2>1. 1 \in Marked(s, n + 1) <=> s[1] # JsJob
    BY DEF Marked
  <2>2. /\ IsFiniteSet(Marked(s, n + 1))
        /\ Rank(s, n + 1) = Cardinality(Marked(s, n + 1))
    BY RankType
  <2>3. Cardinality(T) = IF 1 \in Marked(s, n + 1)
                         THEN Cardinality(Marked(s, n + 1)) - 1
                         ELSE Cardinality(Marked(s, n + 1))
    BY <2>2, FS_RemoveElement
  <2> QED
    BY <2>1, <2>2, <2>3
<1>5. Rank(s, n + 1) \in Nat /\ Rank(r, n) \in Nat
  BY RankType
<1> QED
  BY <1>3, <1>4, <1>5

-----------------------------------------------------------------------------
(* Types, and the two microtask queues.                                    *)

(* The invariant that makes the queues safe to take from.                  *)
QueueInv == TypeOK /\ MicroInStep

(* When V8 calls invokeDotnetMicrotask, the managed queue has a task, and  *)
(* it is the one the call was queued for.                                  *)
LEMMA DequeueFinds ==
  ASSUME QueueInv, jsMicro # <<>>, Head(jsMicro) # JsJob
  PROVE  /\ microTasks # <<>>
         /\ Head(microTasks) = Head(jsMicro)
         /\ Head(microTasks) \in Tasks
<1>1. /\ Len(jsMicro) \in Nat \ {0}
      /\ Head(jsMicro) = jsMicro[1]
  BY TailFacts DEF QueueInv, TypeOK
<1>2. Rank(jsMicro, 1) = 1
  <2>1. 0 \in Nat /\ 0 + 1 = 1
    OBVIOUS
  <2>2. Rank(jsMicro, 0 + 1) = Rank(jsMicro, 0) + 1 /\ Rank(jsMicro, 0) = 0
    BY <1>1, <2>1, RankStep
  <2> QED
    BY <2>1, <2>2
<1>3. 1 \in 1..Rank(jsMicro, Len(jsMicro))
  BY <1>1, <1>2, RankPlace
<1>4. microTasks[1] = jsMicro[1]
  BY <1>1, <1>2 DEF QueueInv, MicroInStep
<1>5. microTasks # <<>>
  <2>1. Len(microTasks) # 0
    BY <1>3 DEF QueueInv, MicroInStep
  <2> QED
    BY <2>1
<1> QED
  BY <1>1, <1>4, <1>5, TailFacts DEF QueueInv, TypeOK

(* Pushing a frame keeps the stack a stack of frames.                      *)
LEMMA PushType ==
  ASSUME TypeOK, NEW kind \in Kinds, NEW t \in Tasks \cup {NoTask}, Push(kind, t)
  PROVE  stack' \in Seq(Frames)
<1>1. Frame(kind, t) \in Frames
  BY DEF Frame, Frames
<1> QED
  BY <1>1, AppendFacts DEF Push, TypeOK

(* Popping a frame does, too.                                              *)
LEMMA PopType ==
  ASSUME TypeOK, Pop
  PROVE  stack' \in Seq(Frames)
<1>1. CASE stack = <<>>
  <2>1. Len(stack) - 1 < 1 /\ Len(stack) - 1 \in Int /\ 1 \in Int
    BY <1>1
  <2>2. stack' = <<>>
    BY <2>1, SubSeqEmpty DEF Pop
  <2> QED
    BY <2>2, EmptySeq
<1>2. CASE stack # <<>>
  BY <1>2, FrontFacts DEF Pop, TypeOK
<1> QED
  BY <1>1, <1>2

(* The innermost frame is a frame.                                         *)
LEMMA TopType ==
  ASSUME TypeOK, stack # <<>>
  PROVE  Top \in Frames
BY FrontFacts DEF Top, TypeOK

(* Dropping a reference of the TSFN keeps its fields well typed.           *)
LEMMA DropRefType ==
  ASSUME TypeOK, DropRef
  PROVE  tsfnRefs' \in Nat /\ tsfnClosing' \in BOOLEAN
BY DEF TypeOK, DropRef

(* What a thread does next keeps the threads well typed.                   *)
LEMMA ThreadType ==
  ASSUME TypeOK, NEW b \in Threads, NEW pc \in Pcs, NEW t \in Tasks \cup {NoTask},
         pc = "idle" <=> t = NoTask,
         bg' = [bg EXCEPT ![b] = [pc |-> pc, task |-> t]]
  PROVE  /\ bg' \in [Threads -> [pc : Pcs, task : Tasks \cup {NoTask}]]
         /\ \A c \in Threads : bg'[c].pc = "idle" <=> bg'[c].task = NoTask
BY DEF TypeOK

(* Every step keeps the types.                                             *)
LEMMA TypeStep ==
  ASSUME QueueInv, [Next]_vars
  PROVE  TypeOK'
<1> USE DEF QueueInv
<1> DEFINE Statuses == {"new", "started", "running", "done"}
<1>1. CASE JsTurn
  BY <1>1, PushType DEF JsTurn, TypeOK, Kinds, microVars, tsfnVars
<1>2. CASE JsMicrotask
  BY <1>2, PushType, TailFacts DEF JsMicrotask, TypeOK, Kinds, tsfnVars
<1>3. CASE JsQueuesMicrotask
  BY <1>3, AppendFacts DEF JsQueuesMicrotask, TypeOK, nodeVars, tsfnVars
<1>4. CASE JsReturns
  BY <1>4, PopType DEF JsReturns, TopIs, TypeOK, microVars, tsfnVars
<1>5. CASE RunCallbackSynchronously
  BY <1>5, PushType DEF RunCallbackSynchronously, CallbackKind, TypeOK, Kinds,
     DotnetKinds, OutermostKinds, InnerKinds, microVars, tsfnVars
<1>6. CASE Invoke
  BY <1>6, PushType DEF Invoke, TypeOK, Kinds, microVars, tsfnVars
<1>7. CASE DotnetReturns
  <2>1. stack' \in Seq(Frames) /\ Top \in Frames
    BY <1>7, PopType, TopType DEF DotnetReturns, TopIs
  <2>2. status' \in [Tasks -> Statuses]
    BY <1>7 DEF DotnetReturns, TypeOK
  <2>3. active' \in BOOLEAN /\ handles' \subseteq Tasks
    BY <1>7 DEF DotnetReturns, ActiveAfter, FreeHandle, TypeOK
  <2> QED
    BY <1>7, <2>1, <2>2, <2>3 DEF DotnetReturns, TypeOK, microVars, tsfnVars
<1>8. CASE OnProcessMicroTask
  <2>1. /\ microTasks # <<>>
        /\ Head(microTasks) \in Tasks
    BY <1>8, DequeueFinds DEF OnProcessMicroTask
  <2>2. jsMicro' \in Seq(Tasks \cup {JsJob}) /\ microTasks' \in Seq(Tasks)
    BY <1>8, <2>1, TailFacts DEF OnProcessMicroTask, TypeOK
  <2>3. stack' \in Seq(Frames) /\ status' \in [Tasks -> Statuses] /\ active' \in BOOLEAN
    BY <1>8, <2>1, PushType DEF OnProcessMicroTask, TryExecuteTask, TypeOK,
       Kinds, DotnetKinds, OutermostKinds
  <2> QED
    BY <1>8, <2>2, <2>3 DEF OnProcessMicroTask, TypeOK, tsfnVars
<1>9. CASE OnProcessJSEventLoopEntry
  <2>1. Head(tsfnQueue) \in Tasks /\ tsfnQueue' \in Seq(Tasks)
    BY <1>9, TailFacts DEF OnProcessJSEventLoopEntry, TypeOK
  <2>2. stack' \in Seq(Frames) /\ status' \in [Tasks -> Statuses] /\ active' \in BOOLEAN
    BY <1>9, <2>1, PushType DEF OnProcessJSEventLoopEntry, TryExecuteTask, TypeOK,
       Kinds, DotnetKinds, OutermostKinds
  <2> QED
    BY <1>9, <2>1, <2>2 DEF OnProcessJSEventLoopEntry, TypeOK, microVars
<1>10. ASSUME NEW t \in Tasks, TryExecuteTaskInline(t)
       PROVE  TypeOK'
  BY <1>10, PushType DEF TryExecuteTaskInline, TypeOK, Kinds, DotnetKinds, InnerKinds,
     microVars, tsfnVars
<1>11. ASSUME NEW t \in Tasks, QueueTaskClosed(t)
       PROVE  TypeOK'
  BY <1>11 DEF QueueTaskClosed, TypeOK, nodeVars, microVars, tsfnVars
<1>12. ASSUME NEW t \in Tasks, QueueMicroTask(t)
       PROVE  TypeOK'
  <2>1. microTasks' \in Seq(Tasks) /\ jsMicro' \in Seq(Tasks \cup {JsJob})
    BY <1>12, AppendFacts DEF QueueMicroTask, TypeOK
  <2> QED
    BY <1>12, <2>1 DEF QueueMicroTask, TypeOK, nodeVars, tsfnVars
<1>13. ASSUME NEW t \in Tasks, QueueTaskOutsideContext(t)
       PROVE  TypeOK'
  <2>1. tsfnQueue' \in Seq(Tasks)
    BY <1>13, AppendFacts DEF QueueTaskOutsideContext, TypeOK
  <2> QED
    BY <1>13, <2>1 DEF QueueTaskOutsideContext, TypeOK, nodeVars, microVars
<1>14. CASE CloseRuntime
  BY <1>14, PushType DEF CloseRuntime, TypeOK, Kinds, microVars, tsfnVars
<1>15. CASE CloseAbort
  BY <1>15 DEF CloseAbort, TypeOK, nodeVars, microVars
<1>16. CASE CloseRelease
  BY <1>16, PopType, DropRefType DEF CloseRelease, TypeOK, microVars
<1>17. CASE TsfnFinalize
  BY <1>17, EmptySeq DEF TsfnFinalize, TypeOK, nodeVars, microVars
<1>18. ASSUME NEW b \in Threads, ThreadStep(b)
       PROVE  TypeOK'
  <2> DEFINE Bgs == [Threads -> [pc : Pcs, task : Tasks \cup {NoTask}]]
  <2>1. ASSUME NEW t \in Tasks, QueueTask(b, t)
        PROVE  TypeOK'
    <3>1. t # NoTask
      BY SchedulerAssumption
    <3>2. /\ bg' \in Bgs
          /\ \A c \in Threads : bg'[c].pc = "idle" <=> bg'[c].task = NoTask
      <4>1. CASE Closed
        BY <2>1, <4>1 DEF QueueTask, TypeOK
      <4>2. CASE ~Closed
        <5>1. bg' = [bg EXCEPT ![b] = [pc |-> "signal", task |-> t]]
          BY <2>1, <4>2 DEF QueueTask
        <5> QED
          BY <3>1, <5>1, ThreadType DEF Pcs
      <4> QED
        BY <4>1, <4>2
    <3> QED
      BY <2>1, <3>2 DEF QueueTask, TypeOK, nodeVars, microVars, tsfnVars
  <2>2. ASSUME NEW t \in Tasks, StartWait(b, t)
        PROVE  TypeOK'
    <3>1. t # NoTask
      BY SchedulerAssumption
    <3>2. /\ bg' \in Bgs
          /\ \A c \in Threads : bg'[c].pc = "idle" <=> bg'[c].task = NoTask
      BY <2>2, <3>1, ThreadType DEF StartWait, Pcs
    <3> QED
      BY <2>2, <3>2 DEF StartWait, TypeOK, nodeVars, microVars, tsfnVars
  <2>3. CASE SignalAcquire(b)
    <3>1. /\ bg' \in Bgs
          /\ \A c \in Threads : bg'[c].pc = "idle" <=> bg'[c].task = NoTask
      <4>1. CASE tsfnClosing
        <5>1. bg' = [bg EXCEPT ![b] = Idle]
          BY <2>3, <4>1 DEF SignalAcquire
        <5> QED
          BY <5>1, ThreadType DEF Idle, Pcs
      <4>2. CASE ~tsfnClosing
        <5>1. bg' = [bg EXCEPT ![b].pc = "acquired"] /\ bg[b].pc = "signal"
          BY <2>3, <4>2 DEF SignalAcquire
        <5> QED
          BY <5>1 DEF TypeOK, Pcs
      <4> QED
        BY <4>1, <4>2
    <3>2. tsfnRefs' \in Nat
      BY <2>3 DEF SignalAcquire, TypeOK
    <3> QED
      BY <2>3, <3>1, <3>2 DEF SignalAcquire, TypeOK, nodeVars, microVars
  <2>4. CASE SignalCall(b)
    <3>1. bg[b].task \in Tasks
      BY <2>4 DEF SignalCall, TypeOK
    <3>2. tsfnQueue' \in Seq(Tasks)
      BY <2>4, <3>1, AppendFacts DEF SignalCall, TypeOK
    <3>3. tsfnRefs' \in Nat /\ tsfnClosing' \in BOOLEAN
      BY <2>4, DropRefType DEF SignalCall, TypeOK
    <3>4. /\ bg' \in Bgs
          /\ \A c \in Threads : bg'[c].pc = "idle" <=> bg'[c].task = NoTask
      BY <2>4 DEF SignalCall, TypeOK, Pcs
    <3> QED
      BY <2>4, <3>2, <3>3, <3>4 DEF SignalCall, TypeOK, nodeVars, microVars
  <2>5. CASE SignalRelease(b)
    BY <2>5, DropRefType DEF SignalRelease, TypeOK, Pcs, Idle, nodeVars, microVars
  <2>6. CASE EndWait(b)
    BY <2>6 DEF EndWait, TypeOK, Pcs, Idle, nodeVars, microVars, tsfnVars
  <2> QED
    BY <1>18, <2>1, <2>2, <2>3, <2>4, <2>5, <2>6 DEF ThreadStep, SignalStep
<1>19. CASE UNCHANGED vars
  BY <1>19 DEF TypeOK, vars, nodeVars, microVars, tsfnVars
<1> QED
  BY <1>1, <1>2, <1>3, <1>4, <1>5, <1>6, <1>7, <1>8, <1>9, <1>10, <1>11, <1>12,
     <1>13, <1>14, <1>15, <1>16, <1>17, <1>18, <1>19
  DEF Next, JsStep, DotnetStep, CloseStep

(* An element appended to V8's queue, with the task it stands for if any.  *)
LEMMA MicroAppend ==
  ASSUME QueueInv, NEW x \in Tasks \cup {JsJob},
         jsMicro' = Append(jsMicro, x),
         microTasks' = IF x = JsJob THEN microTasks ELSE Append(microTasks, x)
  PROVE  MicroInStep'
<1> DEFINE n == Len(jsMicro)
<1>1. /\ n \in Nat
      /\ Len(jsMicro') = n + 1
      /\ \A i \in 1..n : jsMicro'[i] = jsMicro[i]
      /\ jsMicro'[n + 1] = x
  BY AppendFacts DEF QueueInv, TypeOK
<1>2. ASSUME NEW i \in 0..n
      PROVE  Rank(jsMicro', i) = Rank(jsMicro, i)
  <2>1. i \in Nat /\ \A k \in 1..i : jsMicro'[k] = jsMicro[k]
    BY <1>1
  <2> QED
    BY <2>1, RankPrefix
<1>3. Rank(jsMicro', n + 1) = IF x = JsJob THEN Len(microTasks) ELSE Len(microTasks) + 1
  <2>1. Rank(jsMicro', n + 1) =
          IF jsMicro'[n + 1] = JsJob THEN Rank(jsMicro', n) ELSE Rank(jsMicro', n) + 1
    BY <1>1, RankStep
  <2>2. n \in 0..n
    BY <1>1
  <2>3. Rank(jsMicro', n) = Len(microTasks)
    BY <1>2, <2>2 DEF QueueInv, MicroInStep
  <2> QED
    BY <1>1, <2>1, <2>3
<1>4. /\ \A k \in 1..Len(microTasks) : microTasks'[k] = microTasks[k]
      /\ x # JsJob => /\ Len(microTasks') = Len(microTasks) + 1
                      /\ microTasks'[Len(microTasks) + 1] = x
  BY AppendFacts DEF QueueInv, TypeOK
<1>5. Len(microTasks') = Rank(jsMicro', Len(jsMicro'))
  BY <1>1, <1>3, <1>4
<1>6. ASSUME NEW i \in 1..Len(jsMicro'), jsMicro'[i] # JsJob
      PROVE  microTasks'[Rank(jsMicro', i)] = jsMicro'[i]
  <2>1. CASE i = n + 1
    BY <1>1, <1>3, <1>4, <1>6, <2>1
  <2>2. CASE i # n + 1
    <3>1. i \in 1..n /\ jsMicro[i] # JsJob
      BY <1>1, <1>6, <2>2
    <3>2. Rank(jsMicro, i) \in 1..Len(microTasks)
      BY <1>1, <3>1, RankPlace DEF QueueInv, MicroInStep
    <3>3. microTasks[Rank(jsMicro, i)] = jsMicro[i]
      BY <3>1 DEF QueueInv, MicroInStep
    <3> QED
      BY <1>1, <1>2, <1>4, <3>1, <3>2, <3>3
  <2> QED
    BY <2>1, <2>2
<1> QED
  BY <1>5, <1>6 DEF MicroInStep

(* The first element of V8's queue is taken, with the first task unless it *)
(* is one of JavaScript's.                                                 *)
LEMMA MicroTake ==
  ASSUME QueueInv, jsMicro # <<>>,
         jsMicro' = Tail(jsMicro),
         microTasks' = IF Head(jsMicro) = JsJob THEN microTasks ELSE Tail(microTasks)
  PROVE  MicroInStep'
<1> DEFINE n == Len(jsMicro) - 1
           d == IF Head(jsMicro) = JsJob THEN 0 ELSE 1
<1>1. /\ n \in Nat
      /\ Len(jsMicro) = n + 1
      /\ Len(jsMicro') = n
      /\ \A i \in 1..n : jsMicro'[i] = jsMicro[i + 1]
      /\ Head(jsMicro) = jsMicro[1]
  BY TailFacts DEF QueueInv, TypeOK
<1>2. ASSUME NEW i \in 0..n
      PROVE  /\ Rank(jsMicro, i + 1) = Rank(jsMicro', i) + d
             /\ Rank(jsMicro', i) \in Nat
  <2>1. i \in Nat /\ \A k \in 1..i : jsMicro'[k] = jsMicro[k + 1]
    BY <1>1
  <2>2. Rank(jsMicro', i) \in Nat
    BY <2>1, RankType
  <2>3. Rank(jsMicro, i + 1) =
          IF jsMicro[1] = JsJob THEN Rank(jsMicro', i) ELSE Rank(jsMicro', i) + 1
    <3>1. PICK r : r = jsMicro'
      OBVIOUS
    <3>2. i \in Nat /\ \A k \in 1..i : r[k] = jsMicro[k + 1]
      BY <2>1, <3>1
    <3> HIDE DEF n, d
    <3>3. Rank(jsMicro, i + 1) =
            IF jsMicro[1] = JsJob THEN Rank(r, i) ELSE Rank(r, i) + 1
      BY <3>2, RankShift
    <3> QED
      BY <3>1, <3>3
  <2> QED
    BY <1>1, <2>2, <2>3
<1>3. Len(microTasks) = Rank(jsMicro', n) + d
  BY <1>1, <1>2 DEF QueueInv, MicroInStep
<1>4. /\ Len(microTasks') = Len(microTasks) - d
      /\ \A k \in 1..Len(microTasks') : microTasks'[k] = microTasks[k + d]
  <2>1. CASE Head(jsMicro) = JsJob
    BY <2>1, <1>1, <1>2, <1>3
  <2>2. CASE Head(jsMicro) # JsJob
    <3>1. microTasks # <<>>
      BY <2>2, DequeueFinds
    <3> QED
      BY <2>2, <3>1, TailFacts DEF QueueInv, TypeOK
  <2> QED
    BY <2>1, <2>2
<1>5. Len(microTasks') = Rank(jsMicro', Len(jsMicro'))
  BY <1>1, <1>2, <1>3, <1>4
<1>6. ASSUME NEW i \in 1..Len(jsMicro'), jsMicro'[i] # JsJob
      PROVE  microTasks'[Rank(jsMicro', i)] = jsMicro'[i]
  <2>1. i \in 1..n /\ i + 1 \in 1..Len(jsMicro) /\ jsMicro[i + 1] = jsMicro'[i]
    BY <1>1
  <2>2. Rank(jsMicro', i) \in 1..Len(microTasks')
    BY <1>1, <1>5, <1>6, <2>1, RankPlace
  <2>3. microTasks[Rank(jsMicro, i + 1)] = jsMicro[i + 1]
    BY <1>6, <2>1 DEF QueueInv, MicroInStep
  <2> QED
    BY <1>2, <1>4, <2>1, <2>2, <2>3
<1> QED
  BY <1>5, <1>6 DEF MicroInStep

(* Every step keeps the two queues in step.                                *)
LEMMA MicroStep ==
  ASSUME QueueInv, [Next]_vars
  PROVE  MicroInStep'
<1>1. CASE UNCHANGED <<microTasks, jsMicro>>
  BY <1>1 DEF QueueInv, MicroInStep, Rank
<1>2. CASE JsQueuesMicrotask
  BY <1>2, MicroAppend DEF JsQueuesMicrotask
<1>3. ASSUME NEW t \in Tasks, QueueMicroTask(t)
      PROVE  MicroInStep'
  <2>1. t # JsJob
    BY SchedulerAssumption
  <2> QED
    BY <1>3, <2>1, MicroAppend DEF QueueMicroTask
<1>4. CASE JsMicrotask
  BY <1>4, MicroTake DEF JsMicrotask
<1>5. CASE OnProcessMicroTask
  BY <1>5, MicroTake DEF OnProcessMicroTask
<1> QED
  BY <1>1, <1>2, <1>3, <1>4, <1>5
  DEF Next, JsStep, DotnetStep, CloseStep, ThreadStep, SignalStep, vars, microVars,
      JsTurn, JsReturns, RunCallbackSynchronously, Invoke, DotnetReturns,
      OnProcessJSEventLoopEntry, TryExecuteTaskInline, QueueTaskClosed,
      QueueTaskOutsideContext, CloseRuntime, CloseAbort, CloseRelease, TsfnFinalize,
      SignalAcquire, SignalCall, SignalRelease, EndWait, QueueTask, StartWait

(* The initial state: empty queues, one JavaScript frame and one callback. *)
LEMMA InitQueueInv ==
  ASSUME Init
  PROVE  QueueInv
<1>1. stack \in Seq(Frames)
  BY DEF Init, Frames, Frame, Kinds, DotnetKinds, OutermostKinds
<1>2. \A b \in Threads : bg[b] = Idle
  BY DEF Init
<1>3. TypeOK
  <2>1. \A b \in Threads : bg[b].pc = "idle" <=> bg[b].task = NoTask
    BY <1>2 DEF Idle
  <2>2. bg \in [Threads -> [pc : Pcs, task : Tasks \cup {NoTask}]]
    BY DEF Init, Idle, Pcs
  <2>3. /\ microTasks \in Seq(Tasks) /\ tsfnQueue \in Seq(Tasks)
        /\ jsMicro \in Seq(Tasks \cup {JsJob})
    BY EmptySeq DEF Init
  <2> QED
    BY <1>1, <2>1, <2>2, <2>3 DEF Init, TypeOK
<1>4. MicroInStep
  <2>1. 0 \in Nat /\ Len(jsMicro) = 0 /\ Len(microTasks) = 0
    BY DEF Init
  <2>2. Rank(jsMicro, 0) = 0
    BY <2>1, RankStep
  <2> QED
    BY <2>1, <2>2 DEF MicroInStep
<1> QED
  BY <1>3, <1>4 DEF QueueInv

(* The types hold, and the managed queue and V8's microtask queue stay in  *)
(* step, in every behaviour: Dequeue never meets an empty queue and every  *)
(* task keeps its place among JavaScript's microtasks.                     *)
THEOREM QueuesInStep == Spec => [](TypeOK /\ MicroInStep)
<1>1. Init => QueueInv
  BY InitQueueInv
<1>2. QueueInv /\ [Next]_vars => QueueInv'
  BY TypeStep, MicroStep DEF QueueInv
<1>3. QueueInv => TypeOK /\ MicroInStep
  BY DEF QueueInv
<1> QED
  BY <1>1, <1>2, <1>3, PTL DEF Spec

-----------------------------------------------------------------------------
(* The stack: which frames lie on which.                                   *)

(* A pushed frame is on top of an unchanged stack.                         *)
LEMMA PushFacts ==
  ASSUME TypeOK, NEW kind \in Kinds, NEW t \in Tasks \cup {NoTask}, Push(kind, t)
  PROVE  /\ Len(stack) \in Nat
         /\ Len(stack') = Len(stack) + 1
         /\ \A i \in 1..Len(stack) : stack'[i] = stack[i]
         /\ stack'[Len(stack) + 1] = Frame(kind, t)
         /\ stack' # <<>>
<1>1. Frame(kind, t) \in Frames
  BY DEF Frame, Frames
<1>2. stack \in Seq(Frames) /\ stack' = Append(stack, Frame(kind, t))
  BY DEF Push, TypeOK
<1> QED
  BY <1>1, <1>2, AppendFacts

(* A popped frame leaves the others as they are.                           *)
LEMMA PopFacts ==
  ASSUME TypeOK, Pop, stack # <<>>
  PROVE  /\ Len(stack) \in Nat \ {0}
         /\ Len(stack') = Len(stack) - 1
         /\ \A i \in 1..Len(stack') : stack'[i] = stack[i]
         /\ Top = stack[Len(stack)]
<1>1. stack \in Seq(Frames) /\ stack' = SubSeq(stack, 1, Len(stack) - 1)
  BY DEF Pop, TypeOK
<1>2. Len(stack) \in Nat \ {0}
  BY <1>1, EmptySeq
<1>3. /\ Len(stack') = Len(stack) - 1
      /\ \A i \in 1..Len(stack') : stack'[i] = stack[i]
  BY <1>1, FrontFacts
<1> QED
  BY <1>2, <1>3 DEF Top

(* A new JavaScript frame, or a .NET frame on top of another.              *)
LEMMA PushInner ==
  ASSUME TypeOK, ContextMatchesStack,
         NEW kind \in InnerKinds \cup {"js"}, NEW t \in Tasks \cup {NoTask}, Push(kind, t),
         ~TopIs({"close"}),
         kind \in InnerKinds => active,
         active' = active, closePhase' = closePhase
  PROVE  ContextMatchesStack'
<1> USE DEF DotnetKinds, OutermostKinds, InnerKinds, TaskKinds, Kinds
<1>1. /\ Len(stack) \in Nat
      /\ Len(stack') = Len(stack) + 1
      /\ \A i \in 1..Len(stack) : stack'[i] = stack[i]
      /\ stack'[Len(stack) + 1] = Frame(kind, t)
      /\ stack' # <<>>
  BY PushFacts
<1>2. stack'[Len(stack) + 1].kind = kind
  BY <1>1 DEF Frame
<1>3. \A i \in 1..Len(stack) : stack[i].kind # "close"
  BY DEF ContextMatchesStack, StackShape, TopIs
<1>4. active' <=> \E i \in 1..Len(stack') : stack'[i].kind \in DotnetKinds
  BY <1>1, <1>2 DEF ContextMatchesStack
<1>5. ASSUME NEW i \in 1..Len(stack')
      PROVE  /\ stack'[i].kind \in OutermostKinds \cup {"close"} =>
                  \A j \in 1..(i-1) : stack'[j].kind = "js"
             /\ stack'[i].kind \in InnerKinds =>
                  \E j \in 1..(i-1) : stack'[j].kind \in OutermostKinds
             /\ stack'[i].kind = "close" => i = Len(stack')
  <2>1. CASE i \in 1..Len(stack)
    BY <1>1, <1>3, <2>1 DEF ContextMatchesStack, StackShape
  <2>2. CASE i = Len(stack) + 1
    <3>1. kind \in InnerKinds => \E j \in 1..Len(stack) : stack[j].kind \in OutermostKinds
      BY DEF ContextMatchesStack, StackShape
    <3> QED
      BY <1>1, <1>2, <2>2, <3>1
  <2> QED
    BY <1>1, <2>1, <2>2
<1>6. ~TopIs({"close"})' /\ closePhase \notin {"closing", "aborted"}
  BY <1>1, <1>2 DEF TopIs, ContextMatchesStack, StackShape
<1> QED
  BY <1>4, <1>5, <1>6 DEF ContextMatchesStack, StackShape

(* Outside the context there is nothing but JavaScript on the stack.       *)
LEMMA OnlyJs ==
  ASSUME TypeOK, ContextMatchesStack, ~active, ~TopIs({"close"})
  PROVE  \A i \in 1..Len(stack) : stack[i].kind = "js"
<1> TAKE i \in 1..Len(stack)
<1>1. stack[i].kind \in Kinds
  <2>1. stack \in Seq(Frames)
    BY DEF TypeOK
  <2>2. stack[i] \in Frames
    BY <2>1, ElementOfSeq
  <2> QED
    BY <2>2 DEF Frames
<1>2. stack[i].kind \notin DotnetKinds
  BY DEF ContextMatchesStack
<1>3. stack[i].kind # "close"
  BY DEF ContextMatchesStack, StackShape, TopIs
<1> QED
  BY <1>1, <1>2, <1>3 DEF Kinds, DotnetKinds, OutermostKinds, InnerKinds

(* A .NET frame on JavaScript only; it sets _activeThread.                 *)
LEMMA PushOutermost ==
  ASSUME TypeOK, ContextMatchesStack,
         NEW kind \in OutermostKinds, NEW t \in Tasks \cup {NoTask}, Push(kind, t),
         ~TopIs({"close"}), ~active, active', closePhase' = closePhase
  PROVE  ContextMatchesStack'
<1> USE DEF DotnetKinds, OutermostKinds, InnerKinds, TaskKinds, Kinds
<1>1. /\ Len(stack) \in Nat
      /\ Len(stack') = Len(stack) + 1
      /\ \A i \in 1..Len(stack) : stack'[i] = stack[i]
      /\ stack'[Len(stack) + 1] = Frame(kind, t)
      /\ stack' # <<>>
  BY PushFacts
<1>2. stack'[Len(stack) + 1].kind = kind
  BY <1>1 DEF Frame
<1>3. \A i \in 1..Len(stack) : stack[i].kind = "js"
  BY OnlyJs
<1>4. active' <=> \E i \in 1..Len(stack') : stack'[i].kind \in DotnetKinds
  BY <1>1, <1>2
<1>5. ASSUME NEW i \in 1..Len(stack')
      PROVE  /\ stack'[i].kind \in OutermostKinds \cup {"close"} =>
                  \A j \in 1..(i-1) : stack'[j].kind = "js"
             /\ stack'[i].kind \notin InnerKinds
             /\ stack'[i].kind # "close"
  BY <1>1, <1>2, <1>3
<1>6. ~TopIs({"close"})' /\ closePhase \notin {"closing", "aborted"}
  BY <1>1, <1>2 DEF TopIs, ContextMatchesStack, StackShape
<1> QED
  BY <1>4, <1>5, <1>6 DEF ContextMatchesStack, StackShape

(* A frame other than Close's returns; it clears _activeThread if it set   *)
(* it.                                                                     *)
LEMMA PopFrame ==
  ASSUME TypeOK, ContextMatchesStack, Pop, stack # <<>>,
         Top.kind # "close", active' = ActiveAfter(Top), closePhase' = closePhase
  PROVE  ContextMatchesStack'
<1> USE DEF DotnetKinds, OutermostKinds, InnerKinds
<1> DEFINE n == Len(stack)
<1>1. /\ n \in Nat \ {0}
      /\ Len(stack') = n - 1
      /\ \A i \in 1..(n - 1) : stack'[i] = stack[i]
      /\ Top = stack[n]
  BY PopFacts
<1> HIDE DEF n
<1>2. active' <=> \E i \in 1..Len(stack') : stack'[i].kind \in DotnetKinds
  <2>1. CASE Top.kind \in OutermostKinds
    <3>1. \A j \in 1..(n - 1) : stack[j].kind = "js"
      BY <1>1, <2>1 DEF ContextMatchesStack, StackShape, n
    <3> QED
      BY <1>1, <2>1, <3>1 DEF ActiveAfter
  <2>2. CASE Top.kind \in InnerKinds
    <3>1. \E j \in 1..(n - 1) : stack[j].kind \in OutermostKinds
      BY <1>1, <2>2 DEF ContextMatchesStack, StackShape, n
    <3>2. active /\ active'
      <4>1. n \in 1..n /\ stack[n].kind \in DotnetKinds /\ Top.kind \notin OutermostKinds
        BY <1>1, <2>2
      <4>2. active
        BY <4>1 DEF ContextMatchesStack, n
      <4> QED
        BY <4>1, <4>2 DEF ActiveAfter
    <3>3. \E j \in 1..(n - 1) : stack'[j].kind \in OutermostKinds
      BY <1>1, <3>1
    <3> QED
      BY <1>1, <3>2, <3>3
  <2>3. CASE Top.kind \notin DotnetKinds
    <3>1. active' = active
      BY <2>3 DEF ActiveAfter, TypeOK
    <3>2. active <=> \E i \in 1..n : stack[i].kind \in DotnetKinds
      BY DEF ContextMatchesStack, n
    <3>3. 1..n = (1..(n - 1)) \cup {n}
      BY <1>1
    <3>4. (\E i \in 1..n : stack[i].kind \in DotnetKinds)
            <=> \E i \in 1..(n - 1) : stack[i].kind \in DotnetKinds
      BY <1>1, <2>3, <3>3
    <3> QED
      BY <1>1, <3>1, <3>2, <3>4
  <2> QED
    BY <2>1, <2>2, <2>3
<1>3. ASSUME NEW i \in 1..Len(stack')
      PROVE  /\ stack'[i].kind \in OutermostKinds \cup {"close"} =>
                  \A j \in 1..(i-1) : stack'[j].kind = "js"
             /\ stack'[i].kind \in InnerKinds =>
                  \E j \in 1..(i-1) : stack'[j].kind \in OutermostKinds
             /\ stack'[i].kind # "close"
  BY <1>1 DEF ContextMatchesStack, StackShape, n
<1>4. closePhase \notin {"closing", "aborted"}
  BY <1>1 DEF ContextMatchesStack, StackShape, TopIs, Top
<1>5. ~TopIs({"close"})'
  <2>1. CASE n = 1
    BY <1>1, <2>1 DEF TopIs
  <2>2. CASE n # 1
    BY <1>1, <1>3, <2>2 DEF TopIs
  <2> QED
    BY <2>1, <2>2
<1> QED
  BY <1>2, <1>3, <1>4, <1>5 DEF ContextMatchesStack, StackShape

(* Context::Close puts its frame on JavaScript only.                       *)
LEMMA PushClose ==
  ASSUME TypeOK, ContextMatchesStack, Push("close", NoTask),
         ~TopIs({"close"}), ~active, active' = active, closePhase' = "closing"
  PROVE  ContextMatchesStack'
<1> USE DEF DotnetKinds, OutermostKinds, InnerKinds, TaskKinds, Kinds
<1>1. /\ Len(stack) \in Nat
      /\ Len(stack') = Len(stack) + 1
      /\ \A i \in 1..Len(stack) : stack'[i] = stack[i]
      /\ stack'[Len(stack) + 1] = Frame("close", NoTask)
      /\ stack' # <<>>
  BY PushFacts
<1>2. stack'[Len(stack) + 1].kind = "close"
  BY <1>1 DEF Frame
<1>3. \A i \in 1..Len(stack) : stack[i].kind = "js"
  BY OnlyJs
<1>4. ~\E i \in 1..Len(stack') : stack'[i].kind \in DotnetKinds
  BY <1>1, <1>2, <1>3
<1>5. ASSUME NEW i \in 1..Len(stack')
      PROVE  /\ \A j \in 1..(i-1) : stack'[j].kind = "js"
             /\ stack'[i].kind \notin InnerKinds
             /\ stack'[i].kind = "close" => i = Len(stack')
  BY <1>1, <1>2, <1>3
<1>6. TopIs({"close"})'
  BY <1>1, <1>2 DEF TopIs
<1> QED
  BY <1>4, <1>5, <1>6 DEF ContextMatchesStack, StackShape

(* Context::Close returns, and leaves JavaScript only.                     *)
LEMMA PopClose ==
  ASSUME TypeOK, ContextMatchesStack, Pop,
         TopIs({"close"}), active' = active, closePhase' = "closed"
  PROVE  ContextMatchesStack'
<1> USE DEF DotnetKinds, OutermostKinds, InnerKinds
<1> DEFINE n == Len(stack)
<1>1. /\ n \in Nat \ {0}
      /\ Len(stack') = n - 1
      /\ \A i \in 1..(n - 1) : stack'[i] = stack[i]
      /\ stack[n].kind = "close"
  BY PopFacts DEF TopIs
<1>2. \A j \in 1..(n - 1) : stack[j].kind = "js"
  BY <1>1 DEF ContextMatchesStack, StackShape
<1> HIDE DEF n
<1>3. ~active
  <2>1. \A i \in 1..n : stack[i].kind \in {"js", "close"}
    BY <1>1, <1>2
  <2> QED
    BY <2>1 DEF ContextMatchesStack, n
<1>4. \A i \in 1..Len(stack') : stack'[i].kind = "js"
  BY <1>1, <1>2
<1>5. ~TopIs({"close"})'
  <2>1. CASE n = 1
    <3>1. Len(stack') = 0
      BY <1>1, <2>1
    <3>2. stack' \in Seq(Frames)
      BY PopType
    <3>3. stack' = <<>>
      BY <3>1, <3>2, EmptySeq
    <3> QED
      BY <3>3 DEF TopIs
  <2>2. CASE n # 1
    BY <1>1, <1>4, <2>2 DEF TopIs
  <2> QED
    BY <2>1, <2>2
<1> QED
  BY <1>3, <1>4, <1>5 DEF ContextMatchesStack, StackShape

(* Every step keeps _activeThread and the stack together.                  *)
LEMMA ContextStep ==
  ASSUME QueueInv, ContextMatchesStack, [Next]_vars
  PROVE  ContextMatchesStack'
<1> USE DEF QueueInv
<1> USE DEF DotnetKinds, OutermostKinds, InnerKinds
<1>1. CASE JsTurn
  BY <1>1, PushInner DEF JsTurn, TopIs
<1>2. CASE JsMicrotask
  BY <1>2, PushInner DEF JsMicrotask, TopIs
<1>3. CASE JsReturns
  BY <1>3, PopFrame DEF JsReturns, TopIs, Top, ActiveAfter, TypeOK
<1>4. CASE RunCallbackSynchronously
  <2>1. CASE active
    BY <1>4, <2>1, PushInner DEF RunCallbackSynchronously, CallbackKind, TopIs, TypeOK
  <2>2. CASE ~active
    BY <1>4, <2>2, PushOutermost DEF RunCallbackSynchronously, CallbackKind, TopIs
  <2> QED
    BY <2>1, <2>2
<1>5. CASE Invoke
  BY <1>5, PushInner DEF Invoke, TopIs
<1>6. CASE DotnetReturns
  BY <1>6, PopFrame DEF DotnetReturns, TopIs, Top
<1>7. stack = <<>> => ~active
  BY DEF ContextMatchesStack
<1>8. CASE OnProcessMicroTask
  <2>1. Head(microTasks) \in Tasks
    BY <1>8, DequeueFinds DEF OnProcessMicroTask
  <2>2. CASE status[Head(microTasks)] = "started"
    BY <1>7, <1>8, <2>1, <2>2, PushOutermost DEF OnProcessMicroTask, TryExecuteTask, TopIs
  <2>3. CASE status[Head(microTasks)] # "started"
    BY <1>7, <1>8, <2>3 DEF OnProcessMicroTask, TryExecuteTask, ContextMatchesStack,
       StackShape, TopIs
  <2> QED
    BY <2>2, <2>3
<1>9. CASE OnProcessJSEventLoopEntry
  <2>1. Head(tsfnQueue) \in Tasks
    BY <1>9, TailFacts DEF OnProcessJSEventLoopEntry, TypeOK
  <2>2. CASE status[Head(tsfnQueue)] = "started"
    BY <1>7, <1>9, <2>1, <2>2, PushOutermost
    DEF OnProcessJSEventLoopEntry, TryExecuteTask, TopIs
  <2>3. CASE status[Head(tsfnQueue)] # "started"
    BY <1>7, <1>9, <2>3 DEF OnProcessJSEventLoopEntry, TryExecuteTask, ContextMatchesStack,
       StackShape, TopIs
  <2> QED
    BY <2>2, <2>3
<1>10. ASSUME NEW t \in Tasks, TryExecuteTaskInline(t)
       PROVE  ContextMatchesStack'
  BY <1>10, PushInner DEF TryExecuteTaskInline, TopIs
<1>11. CASE CloseRuntime
  BY <1>11, PushClose DEF CloseRuntime, TopIs
<1>12. CASE CloseAbort
  BY <1>12 DEF CloseAbort, nodeVars, ContextMatchesStack, StackShape, TopIs
<1>13. CASE CloseRelease
  BY <1>13, PopClose DEF CloseRelease, ContextMatchesStack, StackShape
<1>14. CASE UNCHANGED <<nodeVars, closePhase>>
  BY <1>14 DEF nodeVars, ContextMatchesStack, StackShape, TopIs
<1> QED
  BY <1>1, <1>2, <1>3, <1>4, <1>5, <1>6, <1>8, <1>9, <1>10, <1>11, <1>12, <1>13, <1>14
  DEF Next, JsStep, DotnetStep, CloseStep, ThreadStep, SignalStep, vars,
      JsQueuesMicrotask, QueueTaskClosed, QueueMicroTask, QueueTaskOutsideContext,
      TsfnFinalize, SignalAcquire, SignalCall, SignalRelease, EndWait, QueueTask, StartWait

-----------------------------------------------------------------------------
(* Task frames and running tasks.                                          *)

(* A frame that executes no task is pushed.                                *)
LEMMA PushOther ==
  ASSUME TypeOK, TaskFramesMatch,
         NEW kind \in Kinds \ TaskKinds, NEW t \in Tasks \cup {NoTask}, Push(kind, t),
         status' = status
  PROVE  TaskFramesMatch'
<1>1. /\ Len(stack) \in Nat
      /\ Len(stack') = Len(stack) + 1
      /\ \A i \in 1..Len(stack) : stack'[i] = stack[i]
      /\ stack'[Len(stack) + 1] = Frame(kind, t)
  BY PushFacts
<1>2. stack'[Len(stack) + 1].kind \notin TaskKinds
  BY <1>1 DEF Frame
<1> QED
  BY <1>1, <1>2 DEF TaskFramesMatch

(* A started task begins to run in a frame of its own.                     *)
LEMMA PushTask ==
  ASSUME TypeOK, TaskFramesMatch,
         NEW kind \in TaskKinds, NEW t \in Tasks, Push(kind, t),
         status[t] = "started", status' = [status EXCEPT ![t] = "running"]
  PROVE  TaskFramesMatch'
<1>1. kind \in Kinds
  BY DEF Kinds, TaskKinds, DotnetKinds, OutermostKinds, InnerKinds
<1>2. /\ Len(stack) \in Nat
      /\ Len(stack') = Len(stack) + 1
      /\ \A i \in 1..Len(stack) : stack'[i] = stack[i]
      /\ stack'[Len(stack) + 1] = Frame(kind, t)
  BY <1>1, PushFacts
<1>3. stack'[Len(stack) + 1].kind = kind /\ stack'[Len(stack) + 1].task = t
  BY <1>2 DEF Frame
<1>4. status'[t] = "running" /\ \A u \in Tasks \ {t} : status'[u] = status[u]
  BY DEF TypeOK
<1>5. \A i \in 1..Len(stack) : stack[i].kind \in TaskKinds => stack[i].task # t
  BY DEF TaskFramesMatch
<1>6. ASSUME NEW i \in 1..Len(stack'), stack'[i].kind \in TaskKinds
      PROVE  /\ stack'[i].task \in Tasks
             /\ status'[stack'[i].task] = "running"
             /\ \A j \in 1..Len(stack') :
                  stack'[j].kind \in TaskKinds /\ stack'[j].task = stack'[i].task => i = j
  <2>1. CASE i = Len(stack) + 1
    BY <1>2, <1>3, <1>4, <1>5, <2>1
  <2>2. CASE i \in 1..Len(stack)
    <3>1. stack[i].task \in Tasks \ {t} /\ status[stack[i].task] = "running"
      BY <1>2, <1>5, <1>6, <2>2 DEF TaskFramesMatch
    <3> QED
      BY <1>2, <1>3, <1>4, <1>6, <2>2, <3>1 DEF TaskFramesMatch
  <2> QED
    BY <1>2, <2>1, <2>2
<1>7. ASSUME NEW u \in Tasks, status'[u] = "running"
      PROVE  \E i \in 1..Len(stack') : stack'[i].kind \in TaskKinds /\ stack'[i].task = u
  <2>1. CASE u = t
    BY <1>2, <1>3, <2>1
  <2>2. CASE u # t
    <3>1. PICK i \in 1..Len(stack) : stack[i].kind \in TaskKinds /\ stack[i].task = u
      BY <1>4, <1>7, <2>2 DEF TaskFramesMatch
    <3> QED
      BY <1>2, <3>1
  <2> QED
    BY <2>1, <2>2
<1> QED
  BY <1>6, <1>7 DEF TaskFramesMatch

(* A frame returns; if it executed a task, that task is done.              *)
LEMMA PopTask ==
  ASSUME TypeOK, TaskFramesMatch, Pop, stack # <<>>,
         status' = IF Top.kind \in TaskKinds
                   THEN [status EXCEPT ![Top.task] = "done"] ELSE status
  PROVE  TaskFramesMatch'
<1> DEFINE n == Len(stack)
<1>1. /\ n \in Nat \ {0}
      /\ Len(stack') = n - 1
      /\ \A i \in 1..(n - 1) : stack'[i] = stack[i]
      /\ Top = stack[n]
  BY PopFacts
<1>2. ASSUME NEW u \in Tasks, ~(Top.kind \in TaskKinds /\ Top.task = u)
      PROVE  status'[u] = status[u]
  BY <1>2 DEF TypeOK
<1>3. Top.kind \in TaskKinds => /\ Top.task \in Tasks
                                /\ status'[Top.task] = "done"
                                /\ \A i \in 1..(n - 1) :
                                     stack[i].kind \in TaskKinds => stack[i].task # Top.task
  BY <1>1 DEF TaskFramesMatch, TypeOK
<1>4. ASSUME NEW i \in 1..(n - 1), stack[i].kind \in TaskKinds
      PROVE  /\ stack[i].task \in Tasks
             /\ status'[stack[i].task] = "running"
             /\ \A j \in 1..(n - 1) :
                  stack[j].kind \in TaskKinds /\ stack[j].task = stack[i].task => i = j
  BY <1>1, <1>2, <1>3, <1>4 DEF TaskFramesMatch
<1>5. ASSUME NEW u \in Tasks, status'[u] = "running"
      PROVE  \E i \in 1..(n - 1) : stack[i].kind \in TaskKinds /\ stack[i].task = u
  <2>1. ~(Top.kind \in TaskKinds /\ Top.task = u)
    BY <1>3, <1>5
  <2>2. PICK i \in 1..n : stack[i].kind \in TaskKinds /\ stack[i].task = u
    BY <1>2, <1>5, <2>1 DEF TaskFramesMatch
  <2>3. i # n
    BY <1>1, <2>1, <2>2
  <2> QED
    BY <1>1, <2>2, <2>3
<1> QED
  BY <1>1, <1>4, <1>5 DEF TaskFramesMatch

(* A task that does not run begins to be queued, or nothing changes.       *)
LEMMA SameFrames ==
  ASSUME TypeOK, TaskFramesMatch, stack' = stack,
         \A t \in Tasks : status'[t] = "running" <=> status[t] = "running"
  PROVE  TaskFramesMatch'
BY DEF TaskFramesMatch

(* Every step keeps task frames and running tasks together.                *)
LEMMA FramesStep ==
  ASSUME QueueInv, ContextMatchesStack, TaskFramesMatch, [Next]_vars
  PROVE  TaskFramesMatch'
<1> USE DEF QueueInv
<1> DEFINE Same == \A t \in Tasks : status'[t] = "running" <=> status[t] = "running"
<1>1. CASE JsTurn \/ JsMicrotask \/ Invoke \/ RunCallbackSynchronously \/ CloseRuntime
  <2>1. \E kind \in {"js", "nested", "callback", "close"} : Push(kind, NoTask)
    BY <1>1 DEF JsTurn, JsMicrotask, Invoke, RunCallbackSynchronously, CallbackKind,
       CloseRuntime
  <2>2. status' = status
    BY <1>1 DEF JsTurn, JsMicrotask, Invoke, RunCallbackSynchronously, CloseRuntime
  <2> QED
    BY <2>1, <2>2, PushOther DEF Kinds, TaskKinds, DotnetKinds, OutermostKinds, InnerKinds
<1>2. CASE JsReturns
  BY <1>2, PopTask DEF JsReturns, TopIs, Top, TaskKinds
<1>3. CASE DotnetReturns
  BY <1>3, PopTask DEF DotnetReturns, TopIs
<1>4. CASE CloseRelease
  <2>1. TopIs({"close"})
    BY <1>4 DEF CloseRelease, ContextMatchesStack, StackShape
  <2> QED
    BY <1>4, <2>1, PopTask DEF CloseRelease, TopIs, Top, TaskKinds
<1>5. CASE OnProcessMicroTask
  <2>1. Head(microTasks) \in Tasks
    BY <1>5, DequeueFinds DEF OnProcessMicroTask
  <2>2. CASE status[Head(microTasks)] = "started"
    BY <1>5, <2>1, <2>2, PushTask DEF OnProcessMicroTask, TryExecuteTask, TaskKinds
  <2>3. CASE status[Head(microTasks)] # "started"
    BY <1>5, <2>3, SameFrames DEF OnProcessMicroTask, TryExecuteTask
  <2> QED
    BY <2>2, <2>3
<1>6. CASE OnProcessJSEventLoopEntry
  <2>1. Head(tsfnQueue) \in Tasks
    BY <1>6, TailFacts DEF OnProcessJSEventLoopEntry, TypeOK
  <2>2. CASE status[Head(tsfnQueue)] = "started"
    BY <1>6, <2>1, <2>2, PushTask DEF OnProcessJSEventLoopEntry, TryExecuteTask, TaskKinds
  <2>3. CASE status[Head(tsfnQueue)] # "started"
    BY <1>6, <2>3, SameFrames DEF OnProcessJSEventLoopEntry, TryExecuteTask
  <2> QED
    BY <2>2, <2>3
<1>7. ASSUME NEW t \in Tasks, TryExecuteTaskInline(t)
      PROVE  TaskFramesMatch'
  BY <1>7, PushTask DEF TryExecuteTaskInline, TaskKinds
<1>8. ASSUME NEW t \in Tasks,
             \/ QueueTaskClosed(t) \/ QueueMicroTask(t) \/ QueueTaskOutsideContext(t)
             \/ \E b \in Threads : QueueTask(b, t)
      PROVE  TaskFramesMatch'
  <2>1. /\ stack' = stack
        /\ status[t] = "new"
        /\ status' = [status EXCEPT ![t] = "started"]
    BY <1>8 DEF QueueTaskClosed, QueueMicroTask, QueueTaskOutsideContext, QueueTask, nodeVars
  <2>2. Same
    BY <2>1 DEF TypeOK
  <2> QED
    BY <2>1, <2>2, SameFrames
<1>9. CASE UNCHANGED <<stack, status>>
  BY <1>9, SameFrames
<1> QED
  BY <1>1, <1>2, <1>3, <1>4, <1>5, <1>6, <1>7, <1>8, <1>9
  DEF Next, JsStep, DotnetStep, CloseStep, ThreadStep, SignalStep, vars, nodeVars,
      JsQueuesMicrotask, CloseAbort, TsfnFinalize, SignalAcquire, SignalCall,
      SignalRelease, EndWait, StartWait

(* The stack and what it says of the program, in every behaviour:          *)
(* ContextIsActive is true exactly while a .NET frame is on the node       *)
(* thread's stack, and the frames that execute tasks are exactly the       *)
(* running tasks, one each.                                                *)
THEOREM ContextIsTrue == Spec => [](ContextMatchesStack /\ TaskFramesMatch)
<1> DEFINE I == QueueInv /\ ContextMatchesStack /\ TaskFramesMatch
<1>1. Init => I
  <2> SUFFICES ASSUME Init PROVE I
    OBVIOUS
  <2>1. /\ Len(stack) = 2
        /\ stack[1] = Frame("js", NoTask) /\ stack[2] = Frame("callback", NoTask)
    BY DEF Init
  <2>2. ContextMatchesStack
    BY <2>1 DEF Init, ContextMatchesStack, StackShape, TopIs, Frame, DotnetKinds,
       OutermostKinds, InnerKinds
  <2>3. TaskFramesMatch
    BY <2>1 DEF Init, TaskFramesMatch, Frame, TaskKinds
  <2> QED
    BY <2>2, <2>3, InitQueueInv
<1>2. I /\ [Next]_vars => I'
  BY TypeStep, MicroStep, ContextStep, FramesStep DEF QueueInv
<1> QED
  BY <1>1, <1>2, PTL DEF Spec

(* No task is executed twice, nor before it was queued, whichever of       *)
(* inlining, microtask and event loop entry gets to it first.              *)
THEOREM TasksRunOnce == Spec => RunsOnce
<1> DEFINE Once(t) == \/ status'[t] = status[t]
                      \/ status[t] = "new" /\ status'[t] = "started"
                      \/ status[t] = "started" /\ status'[t] = "running"
                      \/ status[t] = "running" /\ status'[t] = "done"
<1>1. ASSUME QueueInv, TaskFramesMatch, [Next]_vars, NEW u \in Tasks
      PROVE  Once(u)
  <2> USE <1>1 DEF QueueInv
  <2>1. ASSUME NEW t \in Tasks,
               \/ QueueTaskClosed(t) \/ QueueMicroTask(t) \/ QueueTaskOutsideContext(t)
               \/ TryExecuteTaskInline(t) \/ \E b \in Threads : QueueTask(b, t)
        PROVE  Once(u)
    <3>1. \/ status[t] = "new" /\ status' = [status EXCEPT ![t] = "started"]
          \/ status[t] = "started" /\ status' = [status EXCEPT ![t] = "running"]
      BY <2>1 DEF QueueTaskClosed, QueueMicroTask, QueueTaskOutsideContext,
         TryExecuteTaskInline, QueueTask
    <3> QED
      BY <3>1 DEF TypeOK
  <2>2. ASSUME NEW t, NEW kind, TryExecuteTask(kind, t)
        PROVE  Once(u)
    BY <2>2 DEF TryExecuteTask, TypeOK
  <2>3. CASE DotnetReturns
    <3>1. stack # <<>> /\ Pop
      BY <2>3 DEF DotnetReturns, TopIs
    <3>2. /\ Len(stack) \in Nat \ {0}
          /\ Top = stack[Len(stack)]
      BY <3>1, PopFacts
    <3>3. Top.kind \in TaskKinds => status[Top.task] = "running"
      BY <3>2 DEF TaskFramesMatch
    <3> QED
      BY <2>3, <3>3 DEF DotnetReturns, TypeOK
  <2>4. CASE status' = status
    BY <2>4
  <2> QED
    BY <2>1, <2>2, <2>3, <2>4
    DEF Next, JsStep, DotnetStep, CloseStep, ThreadStep, SignalStep, vars,
        JsTurn, JsMicrotask, JsQueuesMicrotask, JsReturns, RunCallbackSynchronously, Invoke,
        OnProcessMicroTask, OnProcessJSEventLoopEntry, CloseRuntime, CloseAbort,
        CloseRelease, TsfnFinalize, SignalAcquire, SignalCall, SignalRelease, EndWait,
        StartWait
<1>2. QueueInv /\ TaskFramesMatch /\ [Next]_vars => [\A t \in Tasks : Once(t)]_vars
  BY <1>1
<1>3. Spec => [](QueueInv /\ TaskFramesMatch)
  BY QueuesInStep, ContextIsTrue, PTL DEF QueueInv
<1> QED
  BY <1>2, <1>3, PTL DEF Spec, RunsOnce

-----------------------------------------------------------------------------
(* The thread count.                                                       *)

Inside == {b \in Threads : bg[b].pc \in {"acquired", "called"}}

(* The threads inside SignalEventLoopEntry can be counted.                 *)
LEMMA InsideFinite ==
  /\ IsFiniteSet(Inside) /\ Cardinality(Inside) \in Nat
  /\ IsFiniteSet(Inside') /\ Cardinality(Inside') \in Nat
<1>1. Inside \in SUBSET Threads /\ Inside' \in SUBSET Threads
  BY DEF Inside
<1> QED
  BY <1>1, SchedulerAssumption, FS_Subset, FS_CardinalityType

(* Every step keeps the thread count.                                      *)
LEMMA CountStep ==
  ASSUME QueueInv, TsfnCounted, [Next]_vars
  PROVE  TsfnCounted'
<1> USE DEF QueueInv
<1>1. TsfnCounted <=> /\ tsfnClosing <=> closePhase \in {"aborted", "closed"}
                      /\ ~tsfnClosing => tsfnRefs = 1 + Cardinality(Inside)
  BY DEF TsfnCounted, Inside
<1>2. TsfnCounted' <=> /\ tsfnClosing' <=> closePhase' \in {"aborted", "closed"}
                       /\ ~tsfnClosing' => tsfnRefs' = 1 + Cardinality(Inside')
  BY DEF TsfnCounted, Inside
<1>3. CASE UNCHANGED <<tsfnRefs, tsfnClosing, closePhase, bg>>
  BY <1>1, <1>2, <1>3 DEF Inside
<1>4. CASE CloseRuntime \/ CloseAbort \/ CloseRelease
  <2>1. Inside' = Inside
    BY <1>4 DEF CloseRuntime, CloseAbort, CloseRelease, Inside
  <2> QED
    BY <1>1, <1>2, <1>4, <2>1 DEF CloseRuntime, CloseAbort, CloseRelease, DropRef, tsfnVars, TypeOK
<1>5. ASSUME NEW b \in Threads, ThreadStep(b)
      PROVE  TsfnCounted'
  <2>1. CASE \/ EndWait(b)
             \/ \E t \in Tasks : QueueTask(b, t) \/ StartWait(b, t)
    <3>1. Inside' = Inside
      <4>1. \/ bg' = bg
            \/ /\ bg[b].pc \in {"idle", "wait"}
               /\ \E r \in [pc : {"idle", "signal", "wait"}, task : Tasks \cup {NoTask}] :
                    bg' = [bg EXCEPT ![b] = r]
        BY <2>1 DEF EndWait, QueueTask, StartWait, Idle
      <4> QED
        BY <4>1 DEF Inside, TypeOK
    <3> QED
      BY <1>1, <1>2, <2>1, <3>1 DEF EndWait, QueueTask, StartWait, tsfnVars
  <2>2. CASE SignalAcquire(b)
    <3>1. CASE tsfnClosing
      BY <1>1, <1>2, <2>2, <3>1 DEF SignalAcquire
    <3>2. CASE ~tsfnClosing
      <4>1. Inside' = Inside \cup {b} /\ b \notin Inside
        BY <2>2, <3>2 DEF SignalAcquire, Inside, TypeOK
      <4>2. Cardinality(Inside') = Cardinality(Inside) + 1
        BY <4>1, InsideFinite, FS_AddElement
      <4> QED
        BY <1>1, <1>2, <2>2, <3>2, <4>2, InsideFinite DEF SignalAcquire
    <3> QED
      BY <3>1, <3>2
  <2>3. CASE SignalCall(b)
    <3>1. Inside' = Inside
      BY <2>3 DEF SignalCall, Inside, TypeOK
    <3> QED
      BY <1>1, <1>2, <2>3, <3>1 DEF SignalCall, DropRef, TypeOK
  <2>4. CASE SignalRelease(b)
    <3>1. Inside' = Inside \ {b} /\ b \in Inside
      BY <2>4 DEF SignalRelease, Inside, Idle, TypeOK
    <3>2. Cardinality(Inside') = Cardinality(Inside) - 1
      BY <3>1, InsideFinite, FS_RemoveElement
    <3> QED
      BY <1>1, <1>2, <2>4, <3>2, InsideFinite DEF SignalRelease, DropRef, TypeOK
  <2> QED
    BY <1>5, <2>1, <2>2, <2>3, <2>4 DEF ThreadStep, SignalStep
<1> QED
  BY <1>3, <1>4, <1>5
  DEF Next, JsStep, DotnetStep, CloseStep, vars, tsfnVars,
      JsTurn, JsMicrotask, JsQueuesMicrotask, JsReturns, RunCallbackSynchronously, Invoke,
      DotnetReturns, OnProcessMicroTask, OnProcessJSEventLoopEntry, TryExecuteTaskInline,
      QueueTaskClosed, QueueMicroTask, QueueTaskOutsideContext, TsfnFinalize

(* No thread's Release closes the thread safe function: it stays open, with *)
(* the context's own reference, until Context::Close aborts it.            *)
THEOREM TsfnStaysOpen == Spec => []TsfnCounted
<1>1. Init => TsfnCounted
  <2> SUFFICES ASSUME Init PROVE TsfnCounted
    OBVIOUS
  <2>1. Inside = {}
    BY DEF Init, Idle, Inside
  <2>2. Cardinality(Inside) = 0
    BY <2>1, FS_EmptySet
  <2> QED
    BY <2>2 DEF Init, TsfnCounted, Inside
<1>2. TsfnCounted /\ QueueInv /\ [Next]_vars => TsfnCounted'
  BY CountStep
<1>3. Spec => []QueueInv
  BY QueuesInStep, PTL DEF QueueInv
<1> QED
  BY <1>1, <1>2, <1>3, PTL DEF Spec

-----------------------------------------------------------------------------
(* The GCHandles.                                                          *)

Carries(b, t) == bg[b].pc \in {"signal", "acquired"} /\ bg[b].task = t

(* A task is on its way to the node thread in one place at most: with one  *)
(* thread, at one place of the TSFN's queue, or in an event loop frame.    *)
OnePlace ==
  /\ \A t \in Tasks, b \in Threads : Carries(b, t) =>
       /\ status[t] # "new"
       /\ ~Queued(tsfnQueue, t) /\ ~InMacroFrame(t)
       /\ \A c \in Threads : Carries(c, t) => c = b
  /\ \A i \in 1..Len(tsfnQueue) :
       /\ status[tsfnQueue[i]] # "new"
       /\ ~InMacroFrame(tsfnQueue[i])
       /\ \A j \in 1..Len(tsfnQueue) : tsfnQueue[i] = tsfnQueue[j] => i = j
  /\ \A t \in Tasks : InMacroFrame(t) => status[t] # "new"

HandleInv == QueueInv /\ ContextMatchesStack /\ TaskFramesMatch /\ TsfnCounted
             /\ OnePlace /\ HandlesAccounted

(* A task is queued in front, or behind.                                   *)
LEMMA QueuedTail ==
  ASSUME NEW S, NEW s \in Seq(S), s # <<>>, NEW t
  PROVE  Queued(s, t) <=> t = Head(s) \/ Queued(Tail(s), t)
<1> DEFINE n == Len(s)
           r == Tail(s)
<1>1. /\ n \in Nat \ {0}
      /\ Len(r) = n - 1
      /\ \A i \in 1..(n - 1) : r[i] = s[i + 1]
      /\ Head(s) = s[1]
  BY TailFacts
<1> HIDE DEF n, r
<1>2. ASSUME NEW i \in 1..n, s[i] = t, t # Head(s)
      PROVE  \E j \in 1..(n - 1) : r[j] = t
  <2>1. i - 1 \in 1..(n - 1) /\ (i - 1) + 1 = i
    BY <1>1, <1>2
  <2> QED
    BY <1>1, <1>2, <2>1
<1>3. ASSUME NEW j \in 1..(n - 1), r[j] = t
      PROVE  \E i \in 1..n : s[i] = t
  <2>1. j + 1 \in 1..n /\ s[j + 1] = t
    BY <1>1, <1>3
  <2> QED
    BY <2>1
<1> QED
  BY <1>1, <1>2, <1>3 DEF Queued, n, r

(* An appended task is queued, with all that were.                         *)
LEMMA QueuedAppend ==
  ASSUME NEW S, NEW s \in Seq(S), NEW x \in S, NEW t
  PROVE  Queued(Append(s, x), t) <=> t = x \/ Queued(s, t)
<1>1. PICK r : r = Append(s, x)
  OBVIOUS
<1>2. /\ Len(s) \in Nat
      /\ Len(r) = Len(s) + 1
      /\ \A i \in 1..Len(s) : r[i] = s[i]
      /\ r[Len(s) + 1] = x
  BY <1>1, AppendFacts
<1>3. Queued(r, t) <=> t = x \/ Queued(s, t)
  BY <1>2 DEF Queued
<1> QED
  BY <1>1, <1>3

(* Pushing a frame: the event loop frames are the old ones and perhaps it. *)
LEMMA MacroPush ==
  ASSUME TypeOK, NEW kind \in Kinds, NEW t \in Tasks \cup {NoTask}, Push(kind, t), NEW u
  PROVE  InMacroFrame(u)' <=> InMacroFrame(u) \/ (kind = "macro" /\ u = t)
<1>1. /\ Len(stack) \in Nat
      /\ Len(stack') = Len(stack) + 1
      /\ \A i \in 1..Len(stack) : stack'[i] = stack[i]
      /\ stack'[Len(stack) + 1] = Frame(kind, t)
  BY PushFacts
<1>2. Frame(kind, t) = Frame("macro", u) <=> kind = "macro" /\ u = t
  BY DEF Frame
<1> QED
  BY <1>1, <1>2 DEF InMacroFrame

(* Popping a frame: the event loop frames are the others.                  *)
LEMMA MacroPop ==
  ASSUME TypeOK, TaskFramesMatch, Pop, stack # <<>>, NEW u
  PROVE  InMacroFrame(u)' <=> InMacroFrame(u) /\ Top # Frame("macro", u)
<1>1. /\ Len(stack) \in Nat \ {0}
      /\ Len(stack') = Len(stack) - 1
      /\ \A i \in 1..(Len(stack) - 1) : stack'[i] = stack[i]
      /\ Top = stack[Len(stack)]
  BY PopFacts
<1>2. ASSUME NEW i \in 1..(Len(stack) - 1), stack[i] = Frame("macro", u)
      PROVE  Top # Frame("macro", u)
  <2>1. Frame("macro", u).kind \in TaskKinds
    BY DEF Frame, TaskKinds
  <2> QED
    BY <1>1, <1>2, <2>1 DEF TaskFramesMatch
<1> QED
  BY <1>1, <1>2 DEF InMacroFrame

(* Steps that move no task on its way to the event loop.                   *)
LEMMA NothingMoves ==
  ASSUME TypeOK, OnePlace, HandlesAccounted,
         tsfnQueue' = tsfnQueue, handles' = handles, Closed => Closed',
         \A t \in Tasks : InMacroFrame(t)' <=> InMacroFrame(t),
         \A t \in Tasks, b \in Threads : Carries(b, t)' <=> Carries(b, t),
         \A t \in Tasks : status[t] # "new" => status'[t] # "new"
  PROVE  OnePlace' /\ HandlesAccounted'
<1>1. \A t : Queued(tsfnQueue, t)' <=> Queued(tsfnQueue, t)
  BY DEF Queued
<1>2. \A t \in Tasks : InFlight(t)' <=> InFlight(t)
  BY DEF InFlight, Carries
<1>3. \A t \in Tasks : HoldsHandle(t)' <=> HoldsHandle(t)
  BY <1>1, <1>2 DEF HoldsHandle
<1>4. HandlesAccounted'
  BY <1>3 DEF HandlesAccounted, TypeOK
<1>5. \A i \in 1..Len(tsfnQueue) : tsfnQueue[i] \in Tasks
  BY ElementOfSeq DEF TypeOK
<1> QED
  BY <1>1, <1>4, <1>5 DEF OnePlace

(* An event loop frame returns and frees its GCHandle.                     *)
LEMMA MacroReturns ==
  ASSUME HandleInv, DotnetReturns, Top.kind = "macro"
  PROVE  OnePlace' /\ HandlesAccounted'
<1> USE DEF HandleInv, QueueInv
<1>1. stack # <<>> /\ Pop
  BY DEF DotnetReturns, TopIs
<1>2. /\ Top \in Frames
      /\ Top.task \in Tasks
      /\ Top = Frame("macro", Top.task)
  <2>1. Top = stack[Len(stack)] /\ Len(stack) \in 1..Len(stack)
    BY <1>1, PopFacts
  <2>2. Top \in Frames
    BY <1>1, TopType
  <2>3. Top.task \in Tasks
    BY <2>1 DEF TaskFramesMatch, TaskKinds
  <2> QED
    BY <2>2, <2>3 DEF Frame, Frames
<1>3. PICK d \in Tasks : d = Top.task /\ Top = Frame("macro", d)
  BY <1>2
<1>4. \A u \in Tasks : InMacroFrame(u)' <=> InMacroFrame(u) /\ u # d
  <2> TAKE u \in Tasks
  <2>1. Frame("macro", d) # Frame("macro", u) <=> u # d
    BY DEF Frame
  <2>2. InMacroFrame(u)' <=> InMacroFrame(u) /\ Top # Frame("macro", u)
    BY <1>1, MacroPop
  <2> QED
    BY <1>3, <2>1, <2>2
<1>5. InMacroFrame(d)
  BY <1>1, <1>3, PopFacts DEF InMacroFrame
<1>6. /\ bg' = bg /\ tsfnQueue' = tsfnQueue /\ closePhase' = closePhase
      /\ handles' = handles \ {d}
      /\ status' = [status EXCEPT ![d] = "done"]
  BY <1>3 DEF DotnetReturns, FreeHandle, tsfnVars, TaskKinds
<1>7. \A u \in Tasks : status[u] # "new" => status'[u] # "new"
  BY <1>6 DEF TypeOK
<1>8. \A u \in Tasks : (InFlight(u)' <=> InFlight(u)) /\ (Queued(tsfnQueue, u)' <=> Queued(tsfnQueue, u))
  BY <1>6 DEF InFlight, Queued
<1>9. ~InFlight(d) /\ ~Queued(tsfnQueue, d)
  BY <1>5 DEF OnePlace, InFlight, Carries, Queued
<1>10. \A u \in Tasks : HoldsHandle(u)' <=> HoldsHandle(u) /\ u # d
  BY <1>4, <1>8, <1>9 DEF HoldsHandle
<1>11. HandlesAccounted'
  BY <1>6, <1>10 DEF HandlesAccounted, TypeOK, Closed
<1>12. \A i \in 1..Len(tsfnQueue) : tsfnQueue[i] \in Tasks
  BY ElementOfSeq DEF TypeOK
<1> QED
  BY <1>4, <1>6, <1>7, <1>8, <1>11, <1>12 DEF OnePlace, Carries

(* The event loop takes an entry: its task moves into a frame, or its      *)
(* GCHandle is freed at once.                                              *)
LEMMA EntryTaken ==
  ASSUME HandleInv, OnProcessJSEventLoopEntry
  PROVE  OnePlace' /\ HandlesAccounted'
<1> USE DEF HandleInv, QueueInv
<1>1. PICK d \in Tasks : d = Head(tsfnQueue)
  BY TailFacts DEF OnProcessJSEventLoopEntry, TypeOK
<1>2. /\ tsfnQueue # <<>> /\ tsfnQueue' = Tail(tsfnQueue)
      /\ bg' = bg /\ closePhase' = closePhase
      /\ stack = <<>>
  BY DEF OnProcessJSEventLoopEntry
<1> DEFINE n == Len(tsfnQueue) - 1
<1>3. /\ n \in Nat /\ Len(tsfnQueue) = n + 1 /\ Len(tsfnQueue') = n
      /\ \A i \in 1..n : tsfnQueue'[i] = tsfnQueue[i + 1]
      /\ tsfnQueue[1] = d
  BY <1>1, <1>2, TailFacts DEF TypeOK
<1> HIDE DEF n
<1>4. \A u \in Tasks : ~InMacroFrame(u)
  BY <1>2 DEF InMacroFrame
<1>5. ASSUME NEW u \in Tasks
      PROVE  Queued(tsfnQueue, u)' <=> Queued(tsfnQueue, u) /\ u # d
  <2>1. Queued(tsfnQueue, u) <=> u = d \/ Queued(Tail(tsfnQueue), u)
    BY <1>1, <1>2, QueuedTail DEF TypeOK
  <2>2. Queued(tsfnQueue, u)' <=> Queued(Tail(tsfnQueue), u)
    BY <1>2 DEF Queued
  <2>3. ~Queued(tsfnQueue, d)'
    BY <1>3 DEF Queued, OnePlace
  <2> QED
    BY <2>1, <2>2, <2>3
<1>6. Queued(tsfnQueue, d)
  BY <1>3 DEF Queued
<1>7. \A u \in Tasks : InFlight(u)' <=> InFlight(u)
  BY <1>2 DEF InFlight
<1>8. ~InFlight(d)
  BY <1>6 DEF OnePlace, InFlight, Carries
<1>9. \A i \in 1..n : tsfnQueue'[i] \in Tasks \ {d}
  <2> TAKE i \in 1..n
  <2>1. i + 1 \in 1..Len(tsfnQueue) /\ 1 \in 1..Len(tsfnQueue) /\ i + 1 # 1
    BY <1>3
  <2>2. tsfnQueue[i + 1] \in Tasks
    BY <2>1, ElementOfSeq DEF TypeOK
  <2> QED
    BY <1>3, <2>1, <2>2 DEF OnePlace
<1>10. CASE status[d] = "started"
  <2>1. /\ Push("macro", d)
        /\ handles' = handles
        /\ status' = [status EXCEPT ![d] = "running"]
    BY <1>1, <1>10 DEF OnProcessJSEventLoopEntry, TryExecuteTask
  <2>2. \A u \in Tasks : InMacroFrame(u)' <=> u = d
    BY <1>4, <2>1, MacroPush DEF Kinds, DotnetKinds, OutermostKinds
  <2>3. \A u \in Tasks : HoldsHandle(u)' <=> HoldsHandle(u)
    BY <1>4, <1>5, <1>6, <1>7, <2>2 DEF HoldsHandle
  <2>4. HandlesAccounted'
    BY <1>2, <2>1, <2>3 DEF HandlesAccounted, TypeOK, Closed
  <2>5. \A u \in Tasks : status[u] # "new" => status'[u] # "new"
    BY <2>1 DEF TypeOK
  <2>6. status'[d] # "new"
    BY <2>1 DEF TypeOK
  <2> QED
    BY <1>2, <1>3, <1>5, <1>8, <1>9, <2>2, <2>4, <2>5, <2>6 DEF OnePlace, Carries, InFlight
<1>11. CASE status[d] # "started"
  <2>1. /\ stack' = stack
        /\ handles' = handles \ {d}
        /\ status' = status
    BY <1>1, <1>11 DEF OnProcessJSEventLoopEntry, TryExecuteTask
  <2>2. \A u \in Tasks : ~InMacroFrame(u)'
    BY <1>2, <2>1 DEF InMacroFrame
  <2>3. \A u \in Tasks : HoldsHandle(u)' <=> HoldsHandle(u) /\ u # d
    BY <1>4, <1>5, <1>7, <1>8, <2>2 DEF HoldsHandle
  <2>4. HandlesAccounted'
    BY <1>2, <2>1, <2>3 DEF HandlesAccounted, TypeOK, Closed
  <2> QED
    BY <1>2, <1>3, <1>5, <1>9, <2>1, <2>2, <2>4 DEF OnePlace, Carries
<1> QED
  BY <1>10, <1>11

(* A new task is in no place yet.                                          *)
LEMMA NewIsNowhere ==
  ASSUME OnePlace, NEW t \in Tasks, status[t] = "new"
  PROVE  ~InFlight(t) /\ ~Queued(tsfnQueue, t) /\ ~InMacroFrame(t)
BY DEF OnePlace, InFlight, Carries, Queued

(* A task arrives at the TSFN's queue, out of nowhere or from thread b.    *)
LEMMA Arrives ==
  ASSUME HandleInv, NEW t \in Tasks,
         tsfnQueue' = Append(tsfnQueue, t),
         handles' = handles \cup {t},
         closePhase' = closePhase, stack' = stack,
         ~InMacroFrame(t), ~Queued(tsfnQueue, t),
         \A u \in Tasks, b \in Threads : Carries(b, u)' <=> Carries(b, u) /\ u # t,
         \A u \in Tasks : status[u] # "new" => status'[u] # "new",
         status'[t] # "new"
  PROVE  OnePlace' /\ HandlesAccounted'
<1> USE DEF HandleInv, QueueInv
<1> DEFINE n == Len(tsfnQueue)
<1>1. /\ n \in Nat /\ Len(tsfnQueue') = n + 1
      /\ \A i \in 1..n : tsfnQueue'[i] = tsfnQueue[i]
      /\ tsfnQueue'[n + 1] = t
  BY AppendFacts DEF TypeOK
<1>2. \A i \in 1..n : tsfnQueue[i] \in Tasks /\ tsfnQueue[i] # t
  BY ElementOfSeq DEF TypeOK, Queued
<1>3. \A u \in Tasks : Queued(tsfnQueue, u)' <=> Queued(tsfnQueue, u) \/ u = t
  BY <1>1 DEF Queued
<1>4. \A u \in Tasks : InFlight(u)' <=> InFlight(u) /\ u # t
  BY DEF InFlight, Carries
<1>5. \A u : InMacroFrame(u)' <=> InMacroFrame(u)
  BY DEF InMacroFrame
<1>6. \A u \in Tasks : HoldsHandle(u)' <=> HoldsHandle(u) \/ u = t
  BY <1>3, <1>4, <1>5 DEF HoldsHandle
<1>7. HandlesAccounted'
  BY <1>6 DEF HandlesAccounted, TypeOK, Closed
<1> HIDE DEF n
<1>8. ASSUME NEW i \in 1..(n + 1)
      PROVE  /\ status'[tsfnQueue'[i]] # "new"
             /\ ~InMacroFrame(tsfnQueue'[i])
             /\ \A j \in 1..(n + 1) : tsfnQueue'[i] = tsfnQueue'[j] => i = j
  <2>1. CASE i = n + 1
    BY <1>1, <1>2, <2>1
  <2>2. CASE i \in 1..n
    BY <1>1, <1>2, <2>2 DEF OnePlace, n
  <2> QED
    BY <1>1, <2>1, <2>2
<1>9. \A u \in Tasks, b \in Threads : Carries(b, u)' =>
        /\ status'[u] # "new"
        /\ ~Queued(tsfnQueue, u)' /\ ~InMacroFrame(u)'
        /\ \A c \in Threads : Carries(c, u)' => c = b
  BY <1>3, <1>5 DEF OnePlace
<1> QED
  BY <1>1, <1>5, <1>7, <1>8, <1>9 DEF OnePlace

(* A thread takes a new task on its way.                                   *)
LEMMA Departs ==
  ASSUME HandleInv, NEW b \in Threads, NEW t \in Tasks, QueueTask(b, t), ~Closed
  PROVE  OnePlace' /\ HandlesAccounted'
<1> USE DEF HandleInv, QueueInv
<1>1. /\ bg[b] = Idle /\ bg' = [bg EXCEPT ![b] = [pc |-> "signal", task |-> t]]
      /\ handles' = handles \cup {t}
      /\ status[t] = "new" /\ status' = [status EXCEPT ![t] = "started"]
      /\ tsfnQueue' = tsfnQueue /\ stack' = stack /\ closePhase' = closePhase
  BY DEF QueueTask, tsfnVars, nodeVars
<1>2. ~InFlight(t) /\ ~Queued(tsfnQueue, t) /\ ~InMacroFrame(t)
  BY <1>1, NewIsNowhere
<1>3. \A u \in Tasks, c \in Threads :
        Carries(c, u)' <=> IF c = b THEN u = t ELSE Carries(c, u)
  BY <1>1 DEF Carries, Idle, TypeOK
<1>4. \A u \in Tasks : ~Carries(b, u)
  BY <1>1 DEF Carries, Idle
<1>5. \A u \in Tasks : InFlight(u)' <=> InFlight(u) \/ u = t
  BY <1>3, <1>4 DEF InFlight, Carries
<1>6. \A u : (InMacroFrame(u)' <=> InMacroFrame(u)) /\ (Queued(tsfnQueue, u)' <=> Queued(tsfnQueue, u))
  BY <1>1 DEF InMacroFrame, Queued
<1>7. \A u \in Tasks : HoldsHandle(u)' <=> HoldsHandle(u) \/ u = t
  BY <1>5, <1>6 DEF HoldsHandle
<1>8. HandlesAccounted'
  BY <1>1, <1>7 DEF HandlesAccounted, TypeOK, Closed
<1>9. \A u \in Tasks : status[u] # "new" \/ u = t => status'[u] # "new"
  BY <1>1 DEF TypeOK
<1>10. \A i \in 1..Len(tsfnQueue) : tsfnQueue[i] \in Tasks
  BY ElementOfSeq DEF TypeOK
<1>11. \A u \in Tasks, c \in Threads : Carries(c, u)' =>
         /\ status'[u] # "new"
         /\ ~Queued(tsfnQueue, u)' /\ ~InMacroFrame(u)'
         /\ \A d \in Threads : Carries(d, u)' => d = c
  BY <1>2, <1>3, <1>6, <1>9 DEF OnePlace, InFlight, Carries
<1> QED
  BY <1>1, <1>6, <1>8, <1>9, <1>10, <1>11 DEF OnePlace

(* The TSFN is closing: tasks on their way are given up.                   *)
LEMMA GivesUp ==
  ASSUME HandleInv, tsfnClosing, closePhase' = closePhase, handles' = handles,
         stack' = stack, status' = status,
         tsfnQueue' \in {tsfnQueue, <<>>},
         \A u \in Tasks, b \in Threads : Carries(b, u)' => Carries(b, u)
  PROVE  OnePlace' /\ HandlesAccounted'
<1> USE DEF HandleInv, QueueInv
<1>1. Closed'
  BY DEF Closed, TsfnCounted
<1>2. \A u : InMacroFrame(u)' <=> InMacroFrame(u)
  BY DEF InMacroFrame
<1>3. \A u : Queued(tsfnQueue, u)' => Queued(tsfnQueue, u)
  BY DEF Queued
<1>4. \A u \in Tasks : InFlight(u)' => InFlight(u)
  BY DEF InFlight, Carries
<1>5. \A u \in Tasks : HoldsHandle(u)' => HoldsHandle(u)
  BY <1>2, <1>3, <1>4 DEF HoldsHandle
<1>6. HandlesAccounted'
  BY <1>1, <1>5 DEF HandlesAccounted
<1>7. CASE tsfnQueue' = <<>>
  BY <1>2, <1>3, <1>6, <1>7 DEF OnePlace
<1>8. CASE tsfnQueue' = tsfnQueue
  BY <1>2, <1>3, <1>6, <1>8 DEF OnePlace
<1> QED
  BY <1>7, <1>8

(* Every step keeps the GCHandles accounted for.                           *)
LEMMA HandleStep ==
  ASSUME HandleInv, [Next]_vars
  PROVE  OnePlace' /\ HandlesAccounted'
<1> USE DEF HandleInv, QueueInv
<1>1. ASSUME tsfnQueue' = tsfnQueue, handles' = handles, Closed => Closed',
             \A t \in Tasks : InMacroFrame(t)' <=> InMacroFrame(t),
             \A t \in Tasks, b \in Threads : Carries(b, t)' <=> Carries(b, t),
             \A t \in Tasks : status[t] # "new" => status'[t] # "new"
      PROVE  OnePlace' /\ HandlesAccounted'
  BY <1>1, NothingMoves
<1>2. ASSUME NEW kind \in Kinds \ {"macro"}, NEW t \in Tasks \cup {NoTask}, Push(kind, t),
             tsfnQueue' = tsfnQueue, handles' = handles, Closed => Closed', bg' = bg,
             \A u \in Tasks : status[u] # "new" => status'[u] # "new"
      PROVE  OnePlace' /\ HandlesAccounted'
  <2>1. \A u \in Tasks : InMacroFrame(u)' <=> InMacroFrame(u)
    BY <1>2, MacroPush
  <2> QED
    BY <1>1, <1>2, <2>1 DEF Carries
<1>3. ASSUME stack # <<>>, Pop, Top.kind # "macro",
             tsfnQueue' = tsfnQueue, handles' = handles, Closed => Closed', bg' = bg,
             \A u \in Tasks : status[u] # "new" => status'[u] # "new"
      PROVE  OnePlace' /\ HandlesAccounted'
  <2>1. \A u \in Tasks : InMacroFrame(u)' <=> InMacroFrame(u)
    BY <1>3, MacroPop DEF Frame
  <2> QED
    BY <1>1, <1>3, <2>1 DEF Carries
<1>4. ASSUME stack' = stack, tsfnQueue' = tsfnQueue, handles' = handles,
             Closed => Closed',
             \A t \in Tasks, b \in Threads : Carries(b, t)' <=> Carries(b, t),
             \A t \in Tasks : status[t] # "new" => status'[t] # "new"
      PROVE  OnePlace' /\ HandlesAccounted'
  <2>1. \A u \in Tasks : InMacroFrame(u)' <=> InMacroFrame(u)
    BY <1>4 DEF InMacroFrame
  <2> QED
    BY <1>1, <1>4, <2>1
<1> USE DEF Kinds, DotnetKinds, OutermostKinds, InnerKinds
<1>5. CASE JsTurn \/ JsMicrotask \/ Invoke \/ RunCallbackSynchronously \/ CloseRuntime
  <2>1. \E kind \in {"js", "nested", "callback", "close"} : Push(kind, NoTask)
    BY <1>5 DEF JsTurn, JsMicrotask, Invoke, RunCallbackSynchronously, CallbackKind, CloseRuntime
  <2>2. /\ status' = status /\ tsfnQueue' = tsfnQueue /\ handles' = handles /\ bg' = bg
        /\ Closed => Closed'
    BY <1>5 DEF JsTurn, JsMicrotask, Invoke, RunCallbackSynchronously, CloseRuntime, tsfnVars, Closed
  <2> QED
    BY <1>2, <2>1, <2>2
<1>6. CASE JsReturns \/ CloseRelease
  <2>1. stack # <<>> /\ Pop /\ Top.kind # "macro"
    BY <1>6 DEF JsReturns, CloseRelease, ContextMatchesStack, StackShape, TopIs, Top
  <2>2. /\ status' = status /\ tsfnQueue' = tsfnQueue /\ handles' = handles /\ bg' = bg
        /\ Closed => Closed'
    BY <1>6 DEF JsReturns, CloseRelease, tsfnVars, Closed
  <2> QED
    BY <1>3, <2>1, <2>2
<1>7. CASE DotnetReturns
  <2>1. CASE Top.kind = "macro"
    BY <1>7, <2>1, MacroReturns
  <2>2. CASE Top.kind # "macro"
    <3>1. \A u \in Tasks : status[u] # "new" => status'[u] # "new"
      BY <1>7 DEF DotnetReturns, TypeOK
    <3>2. /\ stack # <<>> /\ Pop /\ tsfnQueue' = tsfnQueue /\ handles' = handles /\ bg' = bg
          /\ Closed => Closed'
      BY <1>7, <2>2 DEF DotnetReturns, TopIs, FreeHandle, tsfnVars, Closed
    <3> QED
      BY <1>3, <2>2, <3>1, <3>2
  <2> QED
    BY <2>1, <2>2
<1>8. CASE OnProcessMicroTask
  <2>1. Head(microTasks) \in Tasks
    BY <1>8, DequeueFinds DEF OnProcessMicroTask
  <2>2. tsfnQueue' = tsfnQueue /\ handles' = handles /\ bg' = bg /\ (Closed => Closed')
    BY <1>8 DEF OnProcessMicroTask, tsfnVars, Closed
  <2>3. \A u \in Tasks : status[u] # "new" => status'[u] # "new"
    BY <1>8 DEF OnProcessMicroTask, TryExecuteTask, TypeOK
  <2>4. Push("micro", Head(microTasks)) \/ stack' = stack
    BY <1>8 DEF OnProcessMicroTask, TryExecuteTask
  <2>5. CASE Push("micro", Head(microTasks))
    BY <1>2, <2>1, <2>2, <2>3, <2>5
  <2>6. CASE stack' = stack
    BY <1>4, <2>2, <2>3, <2>6 DEF Carries
  <2> QED
    BY <2>4, <2>5, <2>6
<1>9. ASSUME NEW t \in Tasks, TryExecuteTaskInline(t)
      PROVE  OnePlace' /\ HandlesAccounted'
  <2>1. \A u \in Tasks : status[u] # "new" => status'[u] # "new"
    BY <1>9 DEF TryExecuteTaskInline, TypeOK
  <2> QED
    BY <1>2, <1>9, <2>1 DEF TryExecuteTaskInline, tsfnVars, Closed
<1>10. ASSUME NEW t \in Tasks, QueueTaskClosed(t) \/ QueueMicroTask(t)
       PROVE  OnePlace' /\ HandlesAccounted'
  <2>1. \A u \in Tasks : status[u] # "new" => status'[u] # "new"
    BY <1>10 DEF QueueTaskClosed, QueueMicroTask, TypeOK
  <2> QED
    BY <1>4, <1>10, <2>1 DEF QueueTaskClosed, QueueMicroTask, tsfnVars, nodeVars, Closed, Carries
<1>11. ASSUME NEW t \in Tasks, QueueTaskOutsideContext(t)
       PROVE  OnePlace' /\ HandlesAccounted'
  <2>1. /\ tsfnQueue' = Append(tsfnQueue, t) /\ handles' = handles \cup {t}
        /\ stack' = stack /\ bg' = bg /\ closePhase' = closePhase
        /\ status[t] = "new" /\ status' = [status EXCEPT ![t] = "started"]
    BY <1>11 DEF QueueTaskOutsideContext, nodeVars, TsfnCounted, Closed
  <2>2. ~InFlight(t) /\ ~Queued(tsfnQueue, t) /\ ~InMacroFrame(t)
    BY <2>1, NewIsNowhere
  <2>3. \A u \in Tasks, b \in Threads : Carries(b, u)' <=> Carries(b, u) /\ u # t
    BY <2>1, <2>2 DEF Carries, InFlight
  <2>4. /\ status'[t] # "new"
        /\ \A u \in Tasks : status[u] # "new" => status'[u] # "new"
    BY <2>1 DEF TypeOK
  <2> QED
    BY <2>1, <2>2, <2>3, <2>4, Arrives
<1>12. ASSUME NEW b \in Threads, NEW t \in Tasks, QueueTask(b, t)
       PROVE  OnePlace' /\ HandlesAccounted'
  <2>1. CASE ~Closed
    BY <1>12, <2>1, Departs
  <2>2. CASE Closed
    <3>1. \A u \in Tasks : status[u] # "new" => status'[u] # "new"
      BY <1>12 DEF QueueTask, TypeOK
    <3> QED
      BY <1>4, <1>12, <2>2, <3>1 DEF QueueTask, tsfnVars, nodeVars, Closed, Carries
  <2> QED
    BY <2>1, <2>2
<1>13. ASSUME NEW b \in Threads, SignalAcquire(b)
       PROVE  OnePlace' /\ HandlesAccounted'
  <2>1. /\ stack' = stack /\ status' = status /\ handles' = handles
        /\ tsfnQueue' = tsfnQueue /\ closePhase' = closePhase
    BY <1>13 DEF SignalAcquire, nodeVars
  <2>2. CASE tsfnClosing
    <3>1. \A u \in Tasks, c \in Threads : Carries(c, u)' => Carries(c, u)
      BY <1>13, <2>2 DEF SignalAcquire, Carries, Idle, TypeOK
    <3> QED
      BY <2>1, <2>2, <3>1, GivesUp
  <2>3. CASE ~tsfnClosing
    <3>1. \A u \in Tasks, c \in Threads : Carries(c, u)' <=> Carries(c, u)
      <4>1. bg[b].pc = "signal" /\ bg' = [bg EXCEPT ![b].pc = "acquired"]
        BY <1>13, <2>3 DEF SignalAcquire
      <4> QED
        BY <4>1 DEF Carries, TypeOK
    <3> QED
      BY <1>4, <2>1, <3>1 DEF Closed
  <2> QED
    BY <2>2, <2>3
<1>14. ASSUME NEW b \in Threads, SignalCall(b)
       PROVE  OnePlace' /\ HandlesAccounted'
  <2>1. /\ stack' = stack /\ status' = status /\ handles' = handles /\ closePhase' = closePhase
        /\ bg[b].pc = "acquired" /\ bg' = [bg EXCEPT ![b].pc = "called"]
    BY <1>14 DEF SignalCall, nodeVars
  <2>2. PICK t \in Tasks : t = bg[b].task
    BY <2>1 DEF TypeOK
  <2>3. \A u \in Tasks, c \in Threads : Carries(c, u)' <=> Carries(c, u) /\ c # b
    BY <2>1 DEF Carries, TypeOK
  <2>4. CASE tsfnClosing
    BY <1>14, <2>1, <2>3, <2>4, GivesUp DEF SignalCall
  <2>5. CASE ~tsfnClosing
    <3>1. tsfnQueue' = Append(tsfnQueue, t)
      BY <1>14, <2>2, <2>5 DEF SignalCall
    <3>2. Carries(b, t) /\ InFlight(t)
      BY <2>1, <2>2 DEF Carries, InFlight
    <3>3. t \in handles /\ handles' = handles \cup {t}
      BY <2>1, <3>2 DEF HandlesAccounted, HoldsHandle
    <3>4. /\ status[t] # "new" /\ ~Queued(tsfnQueue, t) /\ ~InMacroFrame(t)
          /\ \A c \in Threads : Carries(c, t) => c = b
      BY <3>2 DEF OnePlace
    <3>5. \A u \in Tasks, c \in Threads : Carries(c, u)' <=> Carries(c, u) /\ u # t
      BY <2>2, <2>3, <3>4 DEF Carries
    <3> QED
      BY <2>1, <3>1, <3>3, <3>4, <3>5, Arrives
  <2> QED
    BY <2>4, <2>5
<1>15. ASSUME NEW b \in Threads,
              SignalRelease(b) \/ EndWait(b) \/ \E t \in Tasks : StartWait(b, t)
       PROVE  OnePlace' /\ HandlesAccounted'
  <2>1. /\ bg[b].pc \in {"called", "wait", "idle"}
        /\ \E r \in [pc : {"idle", "wait"}, task : Tasks \cup {NoTask}] :
             bg' = [bg EXCEPT ![b] = r]
    BY <1>15 DEF SignalRelease, EndWait, StartWait, Idle
  <2>2. \A u \in Tasks, c \in Threads : Carries(c, u)' <=> Carries(c, u)
    BY <2>1 DEF Carries, TypeOK
  <2> QED
    BY <1>4, <1>15, <2>2 DEF SignalRelease, EndWait, StartWait, nodeVars, tsfnVars, Closed
<1>16. CASE OnProcessJSEventLoopEntry
  BY <1>16, EntryTaken
<1>17. CASE TsfnFinalize
  BY <1>17, GivesUp DEF TsfnFinalize, nodeVars, Carries
<1>18. CASE CloseAbort \/ JsQueuesMicrotask \/ UNCHANGED vars
  BY <1>4, <1>18 DEF CloseAbort, JsQueuesMicrotask, vars, nodeVars, tsfnVars, Closed, Carries
<1> QED
  BY <1>5, <1>6, <1>7, <1>8, <1>9, <1>10, <1>11, <1>12, <1>13, <1>14, <1>15, <1>16,
     <1>17, <1>18
  DEF Next, JsStep, DotnetStep, CloseStep, ThreadStep, SignalStep

(* The initial state has no GCHandle and no task on its way.               *)
LEMMA InitHandleInv ==
  ASSUME Init
  PROVE  OnePlace /\ HandlesAccounted
<1>1. /\ Len(tsfnQueue) = 0 /\ handles = {} /\ Len(stack) = 2
      /\ \A b \in Threads : bg[b] = Idle
      /\ stack[1].kind # "macro" /\ stack[2].kind # "macro"
  BY DEF Init, Frame
<1>2. \A t : ~InMacroFrame(t)
  BY <1>1 DEF InMacroFrame, Frame
<1>3. \A t : ~InFlight(t) /\ \A b \in Threads : ~Carries(b, t)
  BY <1>1 DEF InFlight, Carries, Idle
<1>4. \A t : ~Queued(tsfnQueue, t)
  BY <1>1 DEF Queued
<1> QED
  BY <1>1, <1>2, <1>3, <1>4 DEF OnePlace, HandlesAccounted, HoldsHandle

(* In every behaviour a task is on its way to the event loop in one place  *)
(* at most, and the GCHandles are those of the tasks on their way.         *)
LEMMA HandleInvHolds == Spec => []HandleInv
<1> DEFINE J == QueueInv /\ ContextMatchesStack /\ TaskFramesMatch /\ TsfnCounted
           I == OnePlace /\ HandlesAccounted
<1>1. Init => I
  BY InitHandleInv
<1>2. I /\ J /\ [Next]_vars => I'
  BY HandleStep DEF HandleInv
<1>3. Spec => []J
  BY QueuesInStep, ContextIsTrue, TsfnStaysOpen, PTL DEF QueueInv
<1>4. I /\ J => HandleInv
  BY DEF HandleInv
<1> QED
  BY <1>1, <1>2, <1>3, <1>4, PTL DEF Spec

(* Whoever uses a GCHandle finds it live, and until Close begins none is   *)
(* leaked.                                                                 *)
THEOREM HandlesAreAccounted == Spec => []HandlesAccounted
<1>1. HandleInv => HandlesAccounted
  BY DEF HandleInv
<1> QED
  BY <1>1, HandleInvHolds, PTL

-----------------------------------------------------------------------------
(* No task is lost.                                                        *)

Held(t) == InFlight(t) \/ Queued(microTasks, t) \/ Queued(tsfnQueue, t)

(* Every step keeps every started task held, while the runtime is open.    *)
LEMMA LostStep ==
  ASSUME QueueInv, TsfnCounted, NoTaskLostWhileOpen, [Next]_vars
  PROVE  NoTaskLostWhileOpen'
<1> USE DEF QueueInv
<1>1. NoTaskLostWhileOpen <=> (~Closed => \A t \in Tasks : status[t] = "started" => Held(t))
  BY DEF NoTaskLostWhileOpen, Held
<1>2. SUFFICES ASSUME ~Closed', NEW u \in Tasks, status'[u] = "started"
               PROVE  Held(u)'
  BY DEF NoTaskLostWhileOpen, Held
<1>3. CASE Closed
  <2>1. closePhase' = closePhase \/ CloseRuntime \/ CloseAbort \/ CloseRelease
    BY DEF Next, JsStep, DotnetStep, CloseStep, ThreadStep, SignalStep, vars,
       JsTurn, JsMicrotask, JsQueuesMicrotask, JsReturns, RunCallbackSynchronously, Invoke,
       DotnetReturns, OnProcessMicroTask, OnProcessJSEventLoopEntry, TryExecuteTaskInline,
       QueueTaskClosed, QueueMicroTask, QueueTaskOutsideContext, TsfnFinalize,
       SignalAcquire, SignalCall, SignalRelease, EndWait, QueueTask, StartWait
  <2> QED
    BY <1>2, <1>3, <2>1 DEF Closed, CloseRuntime, CloseAbort, CloseRelease
<1> SUFFICES ASSUME ~Closed PROVE Held(u)'
  BY <1>3
<1>4. ~tsfnClosing /\ (status[u] = "started" => Held(u))
  BY <1>1 DEF TsfnCounted, Closed
<1>5. CASE UNCHANGED <<microTasks, tsfnQueue, bg>> /\ (status'[u] = status[u] \/ status[u] = "started")
  BY <1>2, <1>4, <1>5 DEF Held, InFlight, Queued
<1>6. CASE DotnetReturns
  <2>1. status[u] = "started"
    BY <1>2, <1>6 DEF DotnetReturns, TypeOK
  <2> QED
    BY <1>5, <1>6, <2>1 DEF DotnetReturns, microVars, tsfnVars
<1>7. CASE OnProcessMicroTask
  <2>1. microTasks # <<>> /\ Head(microTasks) \in Tasks
    BY <1>7, DequeueFinds DEF OnProcessMicroTask
  <2>2. status[u] = "started" /\ u # Head(microTasks)
    BY <1>2, <1>7, <2>1 DEF OnProcessMicroTask, TryExecuteTask, TypeOK
  <2>3. microTasks' = Tail(microTasks) /\ tsfnQueue' = tsfnQueue /\ bg' = bg
    BY <1>7 DEF OnProcessMicroTask, tsfnVars
  <2>4. Queued(microTasks, u) <=> Queued(Tail(microTasks), u)
    BY <2>1, <2>2, QueuedTail DEF TypeOK
  <2> QED
    BY <1>4, <2>2, <2>3, <2>4 DEF Held, InFlight, Queued
<1>8. CASE OnProcessJSEventLoopEntry
  <2>1. tsfnQueue # <<>> /\ Head(tsfnQueue) \in Tasks
    BY <1>8, TailFacts DEF OnProcessJSEventLoopEntry, TypeOK
  <2>2. status[u] = "started" /\ u # Head(tsfnQueue)
    BY <1>2, <1>8, <2>1 DEF OnProcessJSEventLoopEntry, TryExecuteTask, TypeOK
  <2>3. tsfnQueue' = Tail(tsfnQueue) /\ microTasks' = microTasks /\ bg' = bg
    BY <1>8 DEF OnProcessJSEventLoopEntry, microVars
  <2>4. Queued(tsfnQueue, u) <=> Queued(Tail(tsfnQueue), u)
    BY <2>1, <2>2, QueuedTail DEF TypeOK
  <2> QED
    BY <1>4, <2>2, <2>3, <2>4 DEF Held, InFlight, Queued
<1>9. ASSUME NEW t \in Tasks, TryExecuteTaskInline(t)
      PROVE  Held(u)'
  <2>1. status[u] = "started"
    BY <1>2, <1>9 DEF TryExecuteTaskInline, TypeOK
  <2> QED
    BY <1>5, <1>9, <2>1 DEF TryExecuteTaskInline, microVars, tsfnVars
<1>10. ASSUME NEW t \in Tasks, QueueMicroTask(t)
       PROVE  Held(u)'
  <2>1. microTasks' = Append(microTasks, t) /\ tsfnQueue' = tsfnQueue /\ bg' = bg
    BY <1>10 DEF QueueMicroTask, tsfnVars
  <2>2. status[u] = "started" \/ u = t
    BY <1>2, <1>10 DEF QueueMicroTask, TypeOK
  <2>3. Queued(Append(microTasks, t), u) <=> u = t \/ Queued(microTasks, u)
    BY QueuedAppend DEF TypeOK
  <2> QED
    BY <1>4, <2>1, <2>2, <2>3 DEF Held, InFlight, Queued
<1>11. ASSUME NEW t \in Tasks, QueueTaskOutsideContext(t)
       PROVE  Held(u)'
  <2>1. tsfnQueue' = Append(tsfnQueue, t) /\ microTasks' = microTasks /\ bg' = bg
    BY <1>4, <1>11 DEF QueueTaskOutsideContext, microVars
  <2>2. status[u] = "started" \/ u = t
    BY <1>2, <1>11 DEF QueueTaskOutsideContext, TypeOK
  <2>3. Queued(Append(tsfnQueue, t), u) <=> u = t \/ Queued(tsfnQueue, u)
    BY QueuedAppend DEF TypeOK
  <2> QED
    BY <1>4, <2>1, <2>2, <2>3 DEF Held, InFlight, Queued
<1>12. ASSUME NEW b \in Threads, NEW t \in Tasks, QueueTask(b, t)
       PROVE  Held(u)'
  <2>1. /\ microTasks' = microTasks /\ tsfnQueue' = tsfnQueue
        /\ bg[b] = Idle /\ bg' = [bg EXCEPT ![b] = [pc |-> "signal", task |-> t]]
    BY <1>12 DEF QueueTask, microVars, tsfnVars
  <2>2. status[u] = "started" \/ u = t
    BY <1>2, <1>12 DEF QueueTask, TypeOK
  <2>3. \A c \in Threads : Carries(c, u)' <=> IF c = b THEN u = t ELSE Carries(c, u)
    BY <2>1 DEF Carries, TypeOK
  <2>4. ~Carries(b, u)
    BY <2>1 DEF Carries, Idle
  <2> QED
    BY <1>4, <2>1, <2>2, <2>3, <2>4 DEF Held, InFlight, Queued, Carries
<1>13. ASSUME NEW b \in Threads, SignalAcquire(b)
       PROVE  Held(u)'
  <2>1. /\ microTasks' = microTasks /\ tsfnQueue' = tsfnQueue /\ status' = status
        /\ bg[b].pc = "signal" /\ bg' = [bg EXCEPT ![b].pc = "acquired"]
    BY <1>4, <1>13 DEF SignalAcquire, microVars
  <2>2. \A c \in Threads : Carries(c, u)' <=> Carries(c, u)
    BY <2>1 DEF Carries, TypeOK
  <2> QED
    BY <1>2, <1>4, <2>1, <2>2 DEF Held, InFlight, Queued, Carries
<1>14. ASSUME NEW b \in Threads, SignalCall(b)
       PROVE  Held(u)'
  <2>1. PICK t \in Tasks : t = bg[b].task
    BY <1>14 DEF SignalCall, TypeOK
  <2>2. /\ microTasks' = microTasks /\ tsfnQueue' = Append(tsfnQueue, t) /\ status' = status
        /\ bg[b].pc = "acquired" /\ bg' = [bg EXCEPT ![b].pc = "called"]
    BY <1>4, <1>14, <2>1 DEF SignalCall, microVars
  <2>3. \A c \in Threads : Carries(c, u)' <=> Carries(c, u) /\ c # b
    BY <2>2 DEF Carries, TypeOK
  <2>4. Carries(b, u) => u = t
    BY <2>1 DEF Carries
  <2>5. Queued(Append(tsfnQueue, t), u) <=> u = t \/ Queued(tsfnQueue, u)
    BY QueuedAppend DEF TypeOK
  <2> QED
    BY <1>2, <1>4, <2>2, <2>3, <2>4, <2>5 DEF Held, InFlight, Queued, Carries
<1>15. ASSUME NEW b \in Threads,
              SignalRelease(b) \/ EndWait(b) \/ \E t \in Tasks : StartWait(b, t)
       PROVE  Held(u)'
  <2>1. /\ bg[b].pc \in {"called", "wait", "idle"}
        /\ \E r \in [pc : {"idle", "wait"}, task : Tasks \cup {NoTask}] :
             bg' = [bg EXCEPT ![b] = r]
        /\ microTasks' = microTasks /\ tsfnQueue' = tsfnQueue /\ status' = status
    BY <1>15 DEF SignalRelease, EndWait, StartWait, Idle, microVars, tsfnVars
  <2>2. \A c \in Threads : Carries(c, u)' <=> Carries(c, u)
    BY <2>1 DEF Carries, TypeOK
  <2> QED
    BY <1>2, <1>4, <2>1, <2>2 DEF Held, InFlight, Queued, Carries
<1> QED
  BY <1>2, <1>4, <1>5, <1>6, <1>7, <1>8, <1>9, <1>10, <1>11, <1>12, <1>13, <1>14, <1>15
  DEF Next, JsStep, DotnetStep, CloseStep, ThreadStep, SignalStep, vars, microVars, tsfnVars,
      JsTurn, JsMicrotask, JsQueuesMicrotask, JsReturns, RunCallbackSynchronously, Invoke,
      QueueTaskClosed, CloseRuntime, CloseAbort, CloseRelease, TsfnFinalize

(* Until Close begins, no queued task is forgotten by the two queues, an   *)
(* inlined execution and the signalling threads between them.              *)
THEOREM NoTaskIsLost == Spec => []NoTaskLostWhileOpen
<1>1. Init => NoTaskLostWhileOpen
  BY DEF Init, NoTaskLostWhileOpen
<1>2. NoTaskLostWhileOpen /\ QueueInv /\ TsfnCounted /\ [Next]_vars => NoTaskLostWhileOpen'
  BY LostStep
<1>3. Spec => [](QueueInv /\ TsfnCounted)
  BY QueuesInStep, TsfnStaysOpen, PTL DEF QueueInv
<1> QED
  BY <1>1, <1>2, <1>3, PTL DEF Spec

-----------------------------------------------------------------------------
(* NodeScheduler implements TaskService: every step of the scheduler is a  *)
(* step of the service it promises, or none.                               *)

InTransit == {t \in Tasks : InFlight(t)}

(* Outside every .NET frame no task is running.                            *)
LEMMA NoneRuns ==
  ASSUME TaskFramesMatch, \A i \in 1..Len(stack) : stack[i].kind \notin TaskKinds
  PROVE  Service!NoneRunning
BY DEF TaskFramesMatch, Service!NoneRunning

(* On an empty stack no task is running.                                   *)
LEMMA NoneRunsOnEmpty ==
  ASSUME TaskFramesMatch, stack = <<>>
  PROVE  Service!NoneRunning
<1>1. Len(stack) = 0
  OBVIOUS
<1> QED
  BY <1>1, NoneRuns

(* The scheduler's first state is the service's.                           *)
LEMMA ServiceInit ==
  ASSUME Init
  PROVE  Service!Init
<1>1. InTransit = {}
  BY DEF Init, Idle, InFlight, InTransit
<1> QED
  BY <1>1 DEF Init, Service!Init, InTransit, Closed

(* A step of the scheduler is a step of the service, or a stutter.         *)
LEMMA ServiceStep ==
  ASSUME HandleInv, [Next]_vars
  PROVE  [Service!Next]_(Service!vars)
<1> USE DEF HandleInv, QueueInv
<1>1. ASSUME bg' = bg
      PROVE  InTransit' = InTransit
  BY <1>1 DEF InTransit, InFlight
<1>2. CASE UNCHANGED <<status, jsMicro, bg, tsfnQueue>> /\ Closed' = Closed
  BY <1>1, <1>2 DEF Service!vars, InTransit
<1>3. CASE JsQueuesMicrotask
  BY <1>1, <1>3 DEF JsQueuesMicrotask, tsfnVars, Closed, Service!Next, Service!QueueJs, InTransit
<1>4. CASE JsMicrotask
  <2>1. Service!NoneRunning
    BY <1>4, NoneRunsOnEmpty DEF JsMicrotask
  <2> QED
    BY <1>1, <1>4, <2>1 DEF JsMicrotask, tsfnVars, Closed, Service!Next, Service!RunJs, InTransit
<1>5. CASE OnProcessMicroTask
  <2>1. Head(microTasks) = Head(jsMicro)
    BY <1>5, DequeueFinds DEF OnProcessMicroTask
  <2>2. Service!NoneRunning
    BY <1>5, NoneRunsOnEmpty DEF OnProcessMicroTask
  <2>3. Service!Execute(Head(jsMicro))
    BY <1>5, <2>1, <2>2 DEF OnProcessMicroTask, TryExecuteTask, Service!Execute
  <2> QED
    BY <1>1, <1>5, <2>3 DEF OnProcessMicroTask, tsfnVars, Closed, Service!Next,
       Service!RunMicro, InTransit
<1>6. CASE OnProcessJSEventLoopEntry
  <2>1. Service!NoneRunning
    BY <1>6, NoneRunsOnEmpty DEF OnProcessJSEventLoopEntry
  <2>2. Service!Execute(Head(tsfnQueue))
    BY <1>6, <2>1 DEF OnProcessJSEventLoopEntry, TryExecuteTask, Service!Execute
  <2> QED
    BY <1>1, <1>6, <2>2 DEF OnProcessJSEventLoopEntry, microVars, Closed, Service!Next,
       Service!RunMacro, InTransit
<1>7. ASSUME NEW t \in Tasks, TryExecuteTaskInline(t)
      PROVE  Service!Next
  BY <1>1, <1>7 DEF TryExecuteTaskInline, microVars, tsfnVars, Closed, Service!Next,
     Service!Inline, InTransit
<1>8. CASE DotnetReturns
  <2>1. CASE Top.kind \in TaskKinds
    <3>1. Top = stack[Len(stack)] /\ Len(stack) \in 1..Len(stack)
      BY <1>8, PopFacts DEF DotnetReturns, TopIs
    <3>2. Top.task \in Tasks /\ status[Top.task] = "running"
      BY <2>1, <3>1 DEF TaskFramesMatch
    <3>3. Service!Finish(Top.task)
      BY <1>1, <1>8, <2>1, <3>2 DEF DotnetReturns, microVars, tsfnVars, Closed,
         Service!Finish, InTransit
    <3> QED
      BY <3>2, <3>3 DEF Service!Next
  <2>2. CASE Top.kind \notin TaskKinds
    BY <1>2, <1>8, <2>2 DEF DotnetReturns, microVars, tsfnVars, Closed
  <2> QED
    BY <2>1, <2>2
<1>9. ASSUME NEW t \in Tasks, QueueTaskClosed(t)
      PROVE  Service!Next
  BY <1>1, <1>9 DEF QueueTaskClosed, microVars, tsfnVars, Closed, Service!Next,
     Service!QueueLate, Service!Accept, InTransit
<1>10. ASSUME NEW t \in Tasks, QueueMicroTask(t)
       PROVE  Service!Next
  BY <1>1, <1>10 DEF QueueMicroTask, tsfnVars, Closed, Service!Next,
     Service!QueueMicro, Service!Accept, InTransit
<1>11. ASSUME NEW t \in Tasks, QueueTaskOutsideContext(t)
       PROVE  Service!Next
  <2>1. tsfnQueue' = Append(tsfnQueue, t)
    BY <1>11 DEF QueueTaskOutsideContext, TsfnCounted, Closed
  <2> QED
    BY <1>1, <1>11, <2>1 DEF QueueTaskOutsideContext, microVars, Closed, Service!Next,
       Service!QueueMacro, Service!Accept, InTransit
<1>12. ASSUME NEW b \in Threads, NEW t \in Tasks, QueueTask(b, t)
       PROVE  Service!Next
  <2>1. CASE Closed
    BY <1>1, <1>12, <2>1 DEF QueueTask, microVars, tsfnVars, Closed, Service!Next,
       Service!QueueLate, Service!Accept, InTransit
  <2>2. CASE ~Closed
    <3>1. bg[b] = Idle /\ bg' = [bg EXCEPT ![b] = [pc |-> "signal", task |-> t]]
      BY <1>12, <2>2 DEF QueueTask
    <3>2. \A u \in Tasks, c \in Threads :
            Carries(c, u)' <=> IF c = b THEN u = t ELSE Carries(c, u)
      BY <3>1 DEF Carries, TypeOK
    <3>3. \A u \in Tasks : ~Carries(b, u)
      BY <3>1 DEF Carries, Idle
    <3>4. InTransit' = InTransit \cup {t}
      BY <3>2, <3>3 DEF InTransit, InFlight, Carries
    <3> QED
      BY <1>12, <2>2, <3>4 DEF QueueTask, microVars, tsfnVars, Closed, Service!Next,
         Service!QueueMacro, Service!Accept, InTransit
  <2> QED
    BY <2>1, <2>2
<1>13. ASSUME NEW b \in Threads, SignalAcquire(b)
       PROVE  [Service!Next]_(Service!vars)
  <2> DEFINE t == bg[b].task
  <2>1. bg[b].pc = "signal" /\ t \in Tasks /\ Carries(b, t)
    BY <1>13 DEF SignalAcquire, TypeOK, Carries
  <2>2. CASE ~tsfnClosing
    <3>1. bg' = [bg EXCEPT ![b].pc = "acquired"]
      BY <1>13, <2>2 DEF SignalAcquire
    <3>2. \A u \in Tasks, c \in Threads : Carries(c, u)' <=> Carries(c, u)
      BY <2>1, <3>1 DEF Carries, TypeOK
    <3>3. InTransit' = InTransit
      BY <3>2 DEF InTransit, InFlight, Carries
    <3> QED
      BY <1>13, <3>3 DEF SignalAcquire, microVars, Closed, Service!vars, InTransit
  <2>3. CASE tsfnClosing
    <3>1. bg' = [bg EXCEPT ![b] = Idle]
      BY <1>13, <2>3 DEF SignalAcquire
    <3>2. \A u \in Tasks, c \in Threads : Carries(c, u)' <=> Carries(c, u) /\ c # b
      BY <3>1 DEF Carries, Idle, TypeOK
    <3>3. t \in InTransit /\ InTransit' = InTransit \ {t}
      BY <2>1, <3>2 DEF InTransit, InFlight, Carries, OnePlace
    <3>4. Closed
      BY <2>3 DEF TsfnCounted, Closed
    <3>5. Service!Arrive(t)
      BY <1>13, <3>3, <3>4 DEF SignalAcquire, microVars, Closed, Service!Arrive, InTransit
    <3> QED
      BY <2>1, <3>5 DEF Service!Next
  <2> QED
    BY <2>2, <2>3
<1>14. ASSUME NEW b \in Threads, SignalCall(b)
       PROVE  Service!Next
  <2> DEFINE t == bg[b].task
  <2>1. /\ bg[b].pc = "acquired" /\ t \in Tasks /\ Carries(b, t)
        /\ bg' = [bg EXCEPT ![b].pc = "called"]
    BY <1>14 DEF SignalCall, TypeOK, Carries
  <2>2. \A u \in Tasks, c \in Threads : Carries(c, u)' <=> Carries(c, u) /\ c # b
    BY <2>1 DEF Carries, TypeOK
  <2>3. t \in InTransit /\ InTransit' = InTransit \ {t}
    BY <2>1, <2>2 DEF InTransit, InFlight, Carries, OnePlace
  <2>4. tsfnClosing => Closed
    BY DEF TsfnCounted, Closed
  <2>5. Service!Arrive(t)
    BY <1>14, <2>3, <2>4 DEF SignalCall, microVars, Closed, Service!Arrive, InTransit
  <2> QED
    BY <2>1, <2>5 DEF Service!Next
<1>15. ASSUME NEW b \in Threads,
              SignalRelease(b) \/ EndWait(b) \/ \E t \in Tasks : StartWait(b, t)
       PROVE  UNCHANGED Service!vars
  <2>1. /\ bg[b].pc \in {"called", "wait", "idle"}
        /\ \E r \in [pc : {"idle", "wait"}, task : Tasks \cup {NoTask}] :
             bg' = [bg EXCEPT ![b] = r]
    BY <1>15 DEF SignalRelease, EndWait, StartWait, Idle
  <2>2. \A u \in Tasks, c \in Threads : Carries(c, u)' <=> Carries(c, u)
    BY <2>1 DEF Carries, TypeOK
  <2>3. InTransit' = InTransit
    BY <2>2 DEF InTransit, InFlight, Carries
  <2> QED
    BY <1>15, <2>3 DEF SignalRelease, EndWait, StartWait, microVars, tsfnVars, Closed,
       Service!vars, InTransit
<1>16. CASE CloseRuntime
  <2>1. ~TopIs({"close"})
    BY <1>16 DEF CloseRuntime, TopIs
  <2>2. \A i \in 1..Len(stack) : stack[i].kind \notin TaskKinds
    BY <1>16, <2>1, OnlyJs DEF CloseRuntime, TaskKinds
  <2>3. Service!NoneRunning
    BY <2>2, NoneRuns
  <2> QED
    BY <1>1, <1>16, <2>3 DEF CloseRuntime, microVars, tsfnVars, Closed, Service!Next,
       Service!Close, InTransit
<1>17. CASE CloseAbort \/ CloseRelease
  BY <1>2, <1>17 DEF CloseAbort, CloseRelease, nodeVars, microVars, tsfnVars, Closed
<1>18. CASE TsfnFinalize
  <2>1. Service!NoneRunning
    BY <1>18, NoneRunsOnEmpty DEF TsfnFinalize
  <2>2. Closed
    BY <1>18 DEF TsfnFinalize, TsfnCounted, Closed
  <2> QED
    BY <1>1, <1>18, <2>1, <2>2 DEF TsfnFinalize, nodeVars, microVars, Closed, Service!Next,
       Service!Discard, InTransit
<1>19. CASE JsTurn \/ JsReturns \/ RunCallbackSynchronously \/ Invoke \/ UNCHANGED vars
  BY <1>2, <1>19 DEF JsTurn, JsReturns, RunCallbackSynchronously, Invoke, vars, nodeVars,
     microVars, tsfnVars, Closed
<1> QED
  BY <1>3, <1>4, <1>5, <1>6, <1>7, <1>8, <1>9, <1>10, <1>11, <1>12, <1>13, <1>14, <1>15,
     <1>16, <1>17, <1>18, <1>19
  DEF Next, JsStep, DotnetStep, CloseStep, ThreadStep, SignalStep

(* The scheduler keeps the promise of TaskService: one order of microtasks *)
(* for .NET and JavaScript, tasks of other threads in order of arrival, no *)
(* task on top of another unless it is waited for, none given up while the *)
(* runtime is open.                                                        *)
THEOREM SchedulerImplementsService == Spec => ServiceSpec
<1>1. Init => Service!Init
  BY ServiceInit
<1>2. HandleInv /\ [Next]_vars => [Service!Next]_(Service!vars)
  BY ServiceStep
<1> QED
  BY <1>1, <1>2, HandleInvHolds, PTL DEF Spec, ServiceSpec, Service!Spec
=============================================================================
