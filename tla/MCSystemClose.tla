--------------------------- MODULE MCSystemClose ---------------------------
(***************************************************************************)
(* The closing burst buffer for TLC.  The bounds are in the configuration. *)
(***************************************************************************)
EXTENDS SystemClose
=============================================================================
