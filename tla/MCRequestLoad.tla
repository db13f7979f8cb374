--------------------------- MODULE MCRequestLoad ---------------------------
(***************************************************************************)
(* RequestLoad for TLC, without the gate in front of it: two requests, a   *)
(* timeout of two check intervals and two ticks per interval.              *)
(***************************************************************************)
EXTENDS RequestLoad, TLC
=============================================================================
