---------------------------- MODULE MCEngineInit ----------------------------
(***************************************************************************)
(* EngineInit for TLC: four first requests, so that three initialisations  *)
(* overlap while a fourth request arrives between any of their steps.      *)
(***************************************************************************)
EXTENDS EngineInit, TLC

\* Requests differ in nothing but their names.
RequestSymmetry == Permutations(Requests)
=============================================================================
