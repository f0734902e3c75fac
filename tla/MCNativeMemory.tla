--------------------------- MODULE MCNativeMemory ---------------------------
(* Small instances of NativeMemory for TLC.                                *)
EXTENDS NativeMemory, TLC

(* Handles, threads and blocks are interchangeable: safety runs only.      *)
Symmetry == Permutations(Handles) \cup Permutations(Threads) \cup Permutations(Blocks)
=============================================================================
