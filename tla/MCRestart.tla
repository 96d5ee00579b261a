----------------------------- MODULE MCRestart -----------------------------
(***************************************************************************)
(* The burst buffer with crashes and restarts for TLC.  The bounds are in  *)
(* the configurations.                                                     *)
(***************************************************************************)
EXTENDS Restart
=============================================================================
