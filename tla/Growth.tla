------------------------------- MODULE Growth -------------------------------
(***************************************************************************)
(* The numbers that batch sizes are documented to follow: the smallest     *)
(* one, and each time a fixed factor more (configuration.md:114).          *)
(***************************************************************************)
EXTENDS Integers

\* Grown(first, factor)[n] is first * factor^n.
Grown(first, factor) ==
  LET g[n \in Nat] == IF n = 0 THEN first ELSE g[n - 1] * factor IN g
=============================================================================
