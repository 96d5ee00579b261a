--------------------------- MODULE MCBurstBuffer ---------------------------
(***************************************************************************)
(* The burst buffer for TLC.  The bounds are in the configurations.        *)
(***************************************************************************)
EXTENDS BurstBuffer
=============================================================================
