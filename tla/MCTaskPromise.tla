---------------------------- MODULE MCTaskPromise ----------------------------
(* Small instances of TaskPromise for TLC.                                 *)
EXTENDS TaskPromise, TLC

(* All holders but Main's are interchangeable: safety runs only.           *)
Symmetry == Permutations(Holders \ {Main})
=============================================================================
