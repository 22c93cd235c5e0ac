------------------------------ MODULE MCQueue ------------------------------
(***************************************************************************)
(* Two heads and three elements, in builds with and without NGX_DEBUG.     *)
(***************************************************************************)
EXTENDS Queue

BothBuilds == BOOLEAN

=============================================================================
