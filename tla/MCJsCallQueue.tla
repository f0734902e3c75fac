--------------------------- MODULE MCJsCallQueue ---------------------------
(* Small instances of JsCallQueue for TLC.                                 *)
EXTENDS JsCallQueue, TLC
=============================================================================
