---------------------------- MODULE MCDotNetHost ----------------------------
(* Small instances of DotNetHost for TLC.                                  *)
EXTENDS DotNetHost, TLC
=============================================================================
