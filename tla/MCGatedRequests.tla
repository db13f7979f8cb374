--------------------------- MODULE MCGatedRequests ---------------------------
(***************************************************************************)
(* GatedRequests for TLC: two requests; a timeout of two check intervals   *)
(* of two ticks, so that requests begin and end between two checks and more*)
(* than one check finds the worker not idle; clocks that are right, ahead  *)
(* by as much as the window and behind by more.                            *)
(***************************************************************************)
EXTENDS GatedRequests, TLC

MCSkews == {-2, 0, 1}
=============================================================================
