------------------------------ MODULE MCObjects ------------------------------
(* Small instances, for TLC, of what .NET keeps for JavaScript: promises   *)
(* made of tasks and native memory. They share no state, so a behaviour    *)
(* follows one of them.                                                    *)
EXTENDS TaskPromise, NativeMemory, TLC

VARIABLE part

ObjectsInit == PromiseInit /\ Init /\ part \in {"promises", "memory"}

ObjectsNext ==
  /\ UNCHANGED part
  /\ \/ part = "promises" /\ PromiseNext /\ UNCHANGED vars
     \/ part = "memory" /\ Next /\ UNCHANGED promiseVars

(* Nothing that the fairness of a part speaks of is enabled in its initial *)
(* states, where it stays when the behaviour follows the other part.       *)
ObjectsSpec ==
  /\ ObjectsInit /\ [][ObjectsNext]_<<promiseVars, vars, part>>
  /\ PromiseFairness /\ Fairness
=============================================================================
