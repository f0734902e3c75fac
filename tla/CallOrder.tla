----------------------------- MODULE CallOrder -----------------------------
(***************************************************************************)
(* What ElectronCallQueue promises (ElectronCallQueue.cs:10): calls from   *)
(* JavaScript and renderings are handled one at a time, never one inside   *)
(* another, each once, in the order in which they came, and no further one *)
(* after one that fails (ElectronCallQueue.cs:40).                         *)
(***************************************************************************)
EXTENDS Naturals, Sequences

VARIABLES
  arrived,    (* how many work items have come                              *)
  waiting,    (* the ones that have not been started, in order              *)
  current,    (* the one being handled, 0 for none                          *)
  failed      (* an item has failed                                         *)

vars == <<arrived, waiting, current, failed>>

Init == arrived = 0 /\ waiting = <<>> /\ current = 0 /\ failed = FALSE

(* An item comes; it is handled at once if nothing else is, and nothing has*)
(* failed.                                                                 *)
Arrive ==
  /\ arrived' = arrived + 1
  /\ UNCHANGED failed
  /\ \/ /\ current = 0 /\ ~failed
        /\ current' = arrived'
        /\ UNCHANGED waiting
     \/ /\ current # 0 \/ failed
        /\ waiting' = Append(waiting, arrived')
        /\ UNCHANGED current

(* The item is done; the next one is started at once.                      *)
Finish ==
  /\ current # 0
  /\ UNCHANGED <<arrived, failed>>
  /\ \/ /\ waiting = <<>>
        /\ current' = 0
        /\ UNCHANGED waiting
     \/ /\ waiting # <<>>
        /\ current' = Head(waiting)
        /\ waiting' = Tail(waiting)

(* The item throws, and what waits will not be started.                    *)
Fail ==
  /\ current # 0
  /\ current' = 0
  /\ failed' = TRUE
  /\ UNCHANGED <<arrived, waiting>>

Next == Arrive \/ Finish \/ Fail

(* Work that has been started is finished, or fails.                       *)
Spec == Init /\ [][Next]_vars /\ WF_vars(Finish)
=============================================================================
