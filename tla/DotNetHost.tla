----------------------------- MODULE DotNetHost -----------------------------
(***************************************************************************)
(* coreclr-hosting/cppsrc/dotnethost.cc: the .NET runtime of the process.  *)
(* Every JavaScript thread that calls runCoreApp gets a DotNetHost on the  *)
(* one shared Impl; the first caller makes it and starts the runtime while *)
(* the others wait. A returned host is kept by a Context until its thread  *)
(* ends (context.cc).                                                      *)
(*                                                                         *)
(* Paths are assemblies that exist: Create returns for others before it    *)
(* touches any state.                                                      *)
(***************************************************************************)
EXTENDS Naturals, FiniteSets

CONSTANTS
  Threads,    (* JavaScript threads: main, workers, renderers               *)
  Paths,      (* assembly paths they pass                                   *)
  Impls,      (* bound: objects of class Impl                               *)
  MaxCalls,   (* bound: calls of runCoreApp per thread                      *)
  NoHost

ASSUME HostAssumption == NoHost \notin Threads \cup Paths \cup Impls /\ MaxCalls \in Nat

VARIABLES
  lock,       (* holder of the static mutex of Instance                     *)
  shared,     (* the static shared_ptr                                      *)
  implPath,   (* assembly_path_t_ of each Impl, NoHost before construction  *)
  isDone,     (* initialization_done_                                       *)
  hasFunctions,  (* Impls whose function pointers are set                   *)
  resources,  (* what Create has loaded or opened for each Impl             *)
  failed,     (* Impls whose Create returned an error                       *)
  pc, impl, path,  (* per thread: position, the local impl, the argument    *)
  contexts,   (* per thread: the Impls its Contexts hold                    *)
  ended,      (* threads whose environment is torn down                     *)
  calls

implVars == <<implPath, isDone, hasFunctions, resources, failed>>
staticVars == <<lock, shared>>
threadVars == <<contexts, ended, calls>>
hostVars == <<staticVars, implVars, pc, impl, path, threadVars>>

Locked == {"look", "make", "test", "sleep"}
Creating == {"load", "functions", "init", "delegate", "coreclr", "fill", "publish"}
Labels == Locked \cup Creating \cup {"idle", "lock", "compare", "host"}

Goto(t, label) == pc' = [pc EXCEPT ![t] = label]

HostInit ==
  /\ lock = NoHost
  /\ shared = NoHost
  /\ implPath = [i \in Impls |-> NoHost]
  /\ isDone = {}
  /\ hasFunctions = {}
  /\ resources = [i \in Impls |-> {}]
  /\ failed = {}
  /\ pc = [t \in Threads |-> "idle"]
  /\ impl = [t \in Threads |-> NoHost]
  /\ path = [t \in Threads |-> NoHost]
  /\ contexts = [t \in Threads |-> {}]
  /\ ended = {}
  /\ calls = [t \in Threads |-> 0]

-----------------------------------------------------------------------------
(* JavaScript calls runCoreApp with the path of an existing assembly.      *)
RunCoreApp(t, p) ==
  /\ pc[t] = "idle"
  /\ t \notin ended
  /\ calls[t] < MaxCalls
  /\ calls' = [calls EXCEPT ![t] = @ + 1]
  /\ path' = [path EXCEPT ![t] = p]
  /\ Goto(t, "lock")
  /\ UNCHANGED <<staticVars, implVars, impl, contexts, ended>>

(* Mutant: Instance does not lock.                                         *)
EnterUnlocked(t) ==
  /\ pc[t] = "lock"
  /\ Goto(t, "look")
  /\ UNCHANGED <<staticVars, implVars, impl, path, threadVars>>

Enter(t) ==
  /\ pc[t] = "lock"
  /\ lock = NoHost
  /\ lock' = t
  /\ Goto(t, "look")
  /\ UNCHANGED <<shared, implVars, impl, path, threadVars>>

Look(t) ==
  /\ pc[t] = "look"
  /\ impl' = [impl EXCEPT ![t] = shared]
  /\ Goto(t, IF shared = NoHost THEN "make" ELSE "test")
  /\ UNCHANGED <<staticVars, implVars, path, threadVars>>

(* Mutant: the caller that finds an Impl does not wait for it.             *)
TestOnce(t) ==
  /\ pc[t] = "test"
  /\ lock' = NoHost
  /\ Goto(t, "compare")
  /\ UNCHANGED <<shared, implVars, impl, path, threadVars>>

(* The predicate of wait, under init_mutex_; the static lock is kept while *)
(* the thread sleeps.                                                      *)
Test(t) ==
  /\ pc[t] = "test"
  /\ IF impl[t] \in isDone
       THEN lock' = NoHost /\ Goto(t, "compare")
       ELSE UNCHANGED lock /\ Goto(t, "sleep")
  /\ UNCHANGED <<shared, implVars, impl, path, threadVars>>

(* A condition variable may wake a thread for no reason.                   *)
WakeUp(t) ==
  /\ pc[t] = "sleep"
  /\ Goto(t, "test")
  /\ UNCHANGED <<staticVars, implVars, impl, path, threadVars>>

Make(t) ==
  /\ pc[t] = "make"
  /\ \E i \in Impls :
       /\ implPath[i] = NoHost
       /\ implPath' = [implPath EXCEPT ![i] = path[t]]
       /\ impl' = [impl EXCEPT ![t] = i]
       /\ shared' = i
  /\ lock' = NoHost
  /\ Goto(t, "load")
  /\ UNCHANGED <<isDone, hasFunctions, resources, failed, path, threadVars>>

(* kReinitializationNotSupported for another path; the creator's own       *)
(* comparison cannot fail.                                                 *)
ComparePath(t) ==
  /\ pc[t] = "compare"
  /\ Goto(t, IF implPath[impl[t]] = path[t] THEN "host" ELSE "idle")
  /\ UNCHANGED <<staticVars, implVars, impl, path, threadVars>>

-----------------------------------------------------------------------------
(* The creator loads the host library, looks up its functions, opens a        *)
(* context and asks for a delegate; in a self-contained deployment it      *)
(* loads coreclr and starts it instead.                                    *)
Obtain(t, what, label) ==
  /\ resources' = [resources EXCEPT ![impl[t]] = @ \cup what]
  /\ Goto(t, label)
  /\ UNCHANGED <<staticVars, implPath, isDone, hasFunctions, failed, impl, path, threadVars>>

LoadHostfxr(t) == pc[t] = "load" /\ Obtain(t, {"hostfxr"}, "functions")
GetFunctions(t) == pc[t] = "functions" /\ Obtain(t, {}, "init")
InitForRuntimeConfig(t) == pc[t] = "init" /\ Obtain(t, {"context"}, "delegate")
InitForCommandLine(t) == pc[t] = "init" /\ Obtain(t, {"context"}, "coreclr")
GetRuntimeDelegate(t) == pc[t] = "delegate" /\ Obtain(t, {}, "fill")
InitializeCoreClr(t) == pc[t] = "coreclr" /\ Obtain(t, {"coreclr"}, "fill")

ReleaseAll(t) == resources' = [resources EXCEPT ![impl[t]] = {}]

(* Any stage may fail: what was obtained is given back, the Impl stays     *)
(* shared, and initialization_done_ stays false.                           *)
CreateFails(t) ==
  /\ pc[t] \in {"load", "functions", "init", "delegate", "coreclr"}
  /\ ReleaseAll(t)
  /\ failed' = failed \cup {impl[t]}
  /\ Goto(t, "idle")
  /\ UNCHANGED <<staticVars, implPath, isDone, hasFunctions, impl, path, threadVars>>

Fill(t) ==
  /\ pc[t] = "fill"
  /\ hasFunctions' = hasFunctions \cup {impl[t]}
  /\ Goto(t, "publish")
  /\ UNCHANGED <<staticVars, implPath, isDone, resources, failed, impl, path, threadVars>>

(* Mutant: nobody is notified.                                             *)
SetInitializedSilently(t) ==
  /\ pc[t] = "publish"
  /\ isDone' = isDone \cup {impl[t]}
  /\ Goto(t, "host")
  /\ UNCHANGED <<staticVars, implPath, hasFunctions, resources, failed, impl, path, threadVars>>

(* SetInitialized notifies every thread that sleeps.                       *)
SetInitialized(t) ==
  /\ pc[t] = "publish"
  /\ isDone' = isDone \cup {impl[t]}
  /\ pc' = [u \in Threads |->
              IF u = t THEN "host"
              ELSE IF pc[u] = "sleep" /\ impl[u] = impl[t] THEN "test"
              ELSE pc[u]]
  /\ UNCHANGED <<staticVars, implPath, hasFunctions, resources, failed, impl, path, threadVars>>

(* kOK: the Context keeps the host and calls the managed entry point.      *)
NewContext(t) ==
  /\ pc[t] = "host"
  /\ contexts' = [contexts EXCEPT ![t] = @ \cup {impl[t]}]
  /\ Goto(t, "idle")
  /\ UNCHANGED <<staticVars, implVars, impl, path, ended, calls>>

(* The environment of a thread is torn down: its Contexts are deleted.     *)
ThreadEnds(t) ==
  /\ pc[t] = "idle"
  /\ t \notin ended
  /\ ended' = ended \cup {t}
  /\ contexts' = [contexts EXCEPT ![t] = {}]
  /\ UNCHANGED <<staticVars, implVars, pc, impl, path, calls>>

-----------------------------------------------------------------------------
CreateStep(t) ==
  \/ LoadHostfxr(t) \/ GetFunctions(t)
  \/ InitForRuntimeConfig(t) \/ InitForCommandLine(t)
  \/ GetRuntimeDelegate(t) \/ InitializeCoreClr(t)
  \/ CreateFails(t) \/ Fill(t) \/ SetInitialized(t)

InstanceStep(t) == Enter(t) \/ Look(t) \/ Test(t) \/ Make(t) \/ ComparePath(t)

CallStep(t) == InstanceStep(t) \/ CreateStep(t) \/ NewContext(t)

HostNext ==
  \E t \in Threads :
    \/ CallStep(t)
    \/ WakeUp(t) \/ ThreadEnds(t)
    \/ \E p \in Paths : RunCoreApp(t, p)

(* A thread in a call runs on. Nobody has to call or to end.               *)
HostFairness == \A t \in Threads : WF_hostVars(CallStep(t))

HostSpec == HostInit /\ [][HostNext]_hostVars
HostFairSpec == HostSpec /\ HostFairness

-----------------------------------------------------------------------------
(* The types, and who holds the static mutex: a thread between the lock    *)
(* guard and the return of Instance, sleeping threads included.            *)
HostTypeOK ==
  /\ lock \in Threads \cup {NoHost}
  /\ shared \in Impls \cup {NoHost}
  /\ implPath \in [Impls -> Paths \cup {NoHost}]
  /\ isDone \subseteq Impls /\ hasFunctions \subseteq Impls /\ failed \subseteq Impls
  /\ resources \in [Impls -> SUBSET {"hostfxr", "context", "coreclr"}]
  /\ pc \in [Threads -> Labels]
  /\ impl \in [Threads -> Impls \cup {NoHost}]
  /\ path \in [Threads -> Paths \cup {NoHost}]
  /\ contexts \in [Threads -> SUBSET Impls]
  /\ ended \subseteq Threads
  /\ calls \in [Threads -> 0..MaxCalls]
  /\ \A t \in Threads : pc[t] \in Locked <=> lock = t

(* The runtime is started by one thread only, once per process: all work   *)
(* of Create, and what it leaves open, is on the shared Impl, and no two   *)
(* threads are in it. (Instance, Create.)                                  *)
OneRuntime ==
  /\ HostTypeOK
  /\ \A t \in Threads : pc[t] \in Creating => impl[t] = shared /\ shared \notin isDone \cup failed
  /\ \A t, u \in Threads : pc[t] \in Creating /\ pc[u] \in Creating => t = u
  /\ \A i \in Impls : resources[i] # {} => i = shared

(* Whoever has a host, in a Context or about to make one, has an Impl with *)
(* a running runtime and its function pointers set (GetManagedFunction     *)
(* reads them without a lock), and the assembly it asked for is the one of *)
(* the process (Create's comparison of paths). A failed start keeps        *)
(* nothing loaded or open, and is never taken for a good one (the error    *)
(* paths of Create).                                                       *)
ReadyBeforeUse ==
  /\ \A t \in Threads, i \in Impls :
       i \in contexts[t] \/ (pc[t] = "host" /\ impl[t] = i) =>
         i \in isDone /\ i \in hasFunctions /\ resources[i] # {}
  /\ \A t \in Threads : pc[t] = "host" => path[t] = implPath[shared]
  /\ \A i \in failed : resources[i] = {} /\ i \notin isDone

(* Every call of runCoreApp returns, as long as no start has failed.       *)
(* (Instance's wait and SetInitialized.)                                   *)
EveryCallReturns ==
  \A t \in Threads : pc[t] # "idle" ~> (pc[t] = "idle" \/ failed # {})

=============================================================================
