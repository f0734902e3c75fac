------------------------------ MODULE MCHandles ------------------------------
(* Small instances, for TLC, of the two directions in which values cross   *)
(* the boundary. They share no state, so a behaviour follows one of them.  *)
EXTENDS JsHandles, DotNetValues, TLC

VARIABLE direction

HandlesInit == Init /\ ValuesInit /\ direction \in {"to .NET", "to JavaScript"}

HandlesNext ==
  /\ UNCHANGED direction
  /\ \/ direction = "to .NET" /\ Next /\ UNCHANGED valuesVars
     \/ direction = "to JavaScript" /\ ValuesNext /\ UNCHANGED vars

(* Nothing that JsHandles' fairness speaks of is enabled in the other      *)
(* direction.                                                              *)
HandlesSpec ==
  HandlesInit /\ [][HandlesNext]_<<vars, valuesVars, direction>> /\ Fairness
=============================================================================
