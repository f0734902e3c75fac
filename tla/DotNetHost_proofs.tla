-------------------------- MODULE DotNetHost_proofs --------------------------
(***************************************************************************)
(* Proofs about DotNetHost for every set of threads, paths and Impls.      *)
(* Neither OneRuntime nor ReadyBeforeUse is inductive: both need to know   *)
(* where each position of a thread puts the shared Impl (Positions), that  *)
(* no other Impl is ever touched (Untouched), and what an Impl has once it *)
(* is done or failed (Finished).                                           *)
(***************************************************************************)
EXTENDS DotNetHost, TLAPS

(* What a thread at each position knows of the shared Impl.                *)
Position(t) ==
  /\ pc[t] = "make" => shared = NoHost
  /\ pc[t] \in {"test", "sleep", "compare", "host"} \cup Creating =>
       impl[t] = shared /\ shared # NoHost
  /\ pc[t] \in {"compare", "host"} => shared \in isDone
  /\ pc[t] \in Creating => shared \notin isDone \cup failed
  /\ pc[t] \in Creating \cup {"host"} => path[t] = implPath[shared]
  /\ pc[t] \in Creating \ {"load"} => resources[shared] # {}
  /\ pc[t] = "publish" => shared \in hasFunctions

Positions == \A t \in Threads : Position(t)

(* One thread is in Create.                                                *)
OneCreator == \A t, u \in Threads : pc[t] \in Creating /\ pc[u] \in Creating => t = u

Untouched ==
  \A i \in Impls : i # shared =>
    implPath[i] = NoHost /\ resources[i] = {} /\ i \notin isDone \cup failed \cup hasFunctions

Finished ==
  /\ \A i \in isDone : i \in hasFunctions /\ resources[i] # {} /\ i \notin failed
  /\ \A i \in failed : resources[i] = {}
  /\ \A t \in Threads : contexts[t] \subseteq isDone

HostInv == HostTypeOK /\ Positions /\ OneCreator /\ Untouched /\ Finished

(* At the start nobody has called.                                         *)
LEMMA HostInvInit == HostInit => HostInv
  BY HostAssumption
     DEF HostAssumption, HostInit, HostInv, HostTypeOK, Positions, Position, OneCreator,
         Untouched, Finished, Labels, Locked, Creating

-----------------------------------------------------------------------------
(* Steps of Instance.                                                      *)
LEMMA HostCall ==
  ASSUME HostInv, NEW t \in Threads, NEW p \in Paths, RunCoreApp(t, p)
  PROVE  HostInv'
  BY HostAssumption
     DEF HostAssumption, RunCoreApp, Goto, staticVars, implVars, HostInv, HostTypeOK, Positions,
         Position, OneCreator, Untouched, Finished, Labels, Locked, Creating

(* A thread enters the mutex.                                              *)
LEMMA HostEnter ==
  ASSUME HostInv, NEW t \in Threads, Enter(t)
  PROVE  HostInv'
  BY HostAssumption
     DEF HostAssumption, Enter, Goto, threadVars, implVars, HostInv, HostTypeOK, Positions,
         Position, OneCreator, Untouched, Finished, Labels, Locked, Creating

(* It looks at the shared Impl.                                            *)
LEMMA HostLook ==
  ASSUME HostInv, NEW t \in Threads, Look(t)
  PROVE  HostInv'
  BY HostAssumption
     DEF HostAssumption, Look, Goto, staticVars, threadVars, implVars, HostInv, HostTypeOK,
         Positions, Position, OneCreator, Untouched, Finished, Labels, Locked, Creating

(* A thread that waits tests whether initialisation is done.               *)
LEMMA HostTest ==
  ASSUME HostInv, NEW t \in Threads, Test(t) \/ WakeUp(t)
  PROVE  HostInv'
  BY HostAssumption
     DEF HostAssumption, Test, WakeUp, Goto, staticVars, threadVars, implVars, HostInv, HostTypeOK,
         Positions, Position, OneCreator, Untouched, Finished, Labels, Locked, Creating

(* The creator makes the Impl.                                             *)
LEMMA HostMake ==
  ASSUME HostInv, NEW t \in Threads, Make(t)
  PROVE  HostInv'
  BY HostAssumption
     DEF HostAssumption, Make, Goto, threadVars, HostInv, HostTypeOK,
         Positions, Position, OneCreator, Untouched, Finished, Labels, Locked, Creating

(* A thread compares its path with that of the Impl.                       *)
LEMMA HostCompare ==
  ASSUME HostInv, NEW t \in Threads, ComparePath(t)
  PROVE  HostInv'
  BY HostAssumption
     DEF HostAssumption, ComparePath, Goto, staticVars, threadVars, implVars, HostInv, HostTypeOK,
         Positions, Position, OneCreator, Untouched, Finished, Labels, Locked, Creating

-----------------------------------------------------------------------------
(* Steps of Create, by the one thread that is in it.                       *)
LEMMA HostCreate ==
  ASSUME HostInv, NEW t \in Threads, CreateStep(t)
  PROVE  HostInv'
  <1> USE HostAssumption
      DEF HostAssumption, Goto, staticVars, threadVars, HostInv, HostTypeOK,
          Positions, Position, OneCreator, Untouched, Finished, Labels, Locked, Creating
  <1>1. CASE LoadHostfxr(t)
    BY <1>1 DEF LoadHostfxr, Obtain
  <1>2. CASE GetFunctions(t)
    BY <1>2 DEF GetFunctions, Obtain
  <1>3. CASE InitForRuntimeConfig(t)
    BY <1>3 DEF InitForRuntimeConfig, Obtain
  <1>4. CASE InitForCommandLine(t)
    BY <1>4 DEF InitForCommandLine, Obtain
  <1>5. CASE GetRuntimeDelegate(t)
    BY <1>5 DEF GetRuntimeDelegate, Obtain
  <1>6. CASE InitializeCoreClr(t)
    BY <1>6 DEF InitializeCoreClr, Obtain
  <1>7. CASE CreateFails(t)
    BY <1>7 DEF CreateFails, ReleaseAll
  <1>8. CASE Fill(t)
    BY <1>8 DEF Fill
  <1>9. CASE SetInitialized(t)
    BY <1>9 DEF SetInitialized
  <1> QED BY <1>1, <1>2, <1>3, <1>4, <1>5, <1>6, <1>7, <1>8, <1>9 DEF CreateStep

(* Steps of the thread outside of both.                                    *)
LEMMA HostContext ==
  ASSUME HostInv, NEW t \in Threads, NewContext(t) \/ ThreadEnds(t)
  PROVE  HostInv'
  BY HostAssumption
     DEF HostAssumption, NewContext, ThreadEnds, Goto, staticVars, implVars, HostInv, HostTypeOK,
         Positions, Position, OneCreator, Untouched, Finished, Labels, Locked, Creating

(* Every step keeps HostInv.                                               *)
LEMMA HostInvNext == HostInv /\ [HostNext]_hostVars => HostInv'
  <1> SUFFICES ASSUME HostInv, [HostNext]_hostVars PROVE HostInv'
    OBVIOUS
  <1>1. CASE UNCHANGED hostVars
    BY <1>1 DEF hostVars, staticVars, threadVars, implVars, HostInv, HostTypeOK,
                Positions, Position, OneCreator, Untouched, Finished
  <1>2. CASE HostNext
    <2>1. PICK t \in Threads :
            \/ CallStep(t)
            \/ WakeUp(t) \/ ThreadEnds(t)
            \/ \E p \in Paths : RunCoreApp(t, p)
      BY <1>2 DEF HostNext
    <2>2. CASE InstanceStep(t)
      BY <2>2, HostEnter, HostLook, HostTest, HostMake, HostCompare DEF InstanceStep
    <2>3. CASE CreateStep(t)
      BY <2>3, HostCreate
    <2>4. CASE NewContext(t) \/ ThreadEnds(t)
      BY <2>4, HostContext
    <2>5. CASE WakeUp(t)
      BY <2>5, HostTest
    <2>6. CASE \E p \in Paths : RunCoreApp(t, p)
      BY <2>6, HostCall
    <2> QED BY <2>1, <2>2, <2>3, <2>4, <2>5, <2>6 DEF CallStep
  <1> QED BY <1>1, <1>2

(* HostInv holds in every behaviour: where each thread is in Instance and  *)
(* Create tells what the shared Impl is.                                   *)
THEOREM HostInvariant == HostSpec => []HostInv
  BY HostInvInit, HostInvNext, PTL DEF HostSpec

-----------------------------------------------------------------------------
(* One thread starts the runtime, and only on the shared Impl (Instance,   *)
(* Create), for any number of threads and calls.                           *)
THEOREM RuntimeStartedOnce == HostSpec => []OneRuntime
  <1>1. HostInv => OneRuntime
    BY HostAssumption
       DEF HostAssumption, HostInv, Positions, Position, OneCreator, Untouched, OneRuntime, Creating
  <1> QED BY <1>1, HostInvariant, PTL

(* A host that a Context has or will have is ready, and a failed start     *)
(* leaves nothing behind (SetInitialized, the error paths of Create).      *)
THEOREM HostsAreReady == HostSpec => []ReadyBeforeUse
  <1>1. HostInv => ReadyBeforeUse
    <2> SUFFICES ASSUME HostInv PROVE ReadyBeforeUse
      OBVIOUS
    <2>1. ASSUME NEW t \in Threads, NEW i \in Impls,
                 i \in contexts[t] \/ (pc[t] = "host" /\ impl[t] = i)
          PROVE  i \in isDone
      BY <2>1 DEF HostInv, Positions, Position, Finished
    <2>2. \A i \in failed : resources[i] = {} /\ i \notin isDone
      BY DEF HostInv, Finished
    <2> QED BY <2>1, <2>2 DEF HostInv, Positions, Position, Finished, ReadyBeforeUse
  <1> QED BY <1>1, HostInvariant, PTL
=============================================================================
