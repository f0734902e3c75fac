--------------------------- MODULE MCNodeScheduler ---------------------------
(* A small instance of NodeScheduler for TLC.                              *)
EXTENDS NodeScheduler, TLC
=============================================================================
