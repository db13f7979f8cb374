---------------------------- MODULE MCTokenStream ----------------------------
(***************************************************************************)
(* TokenStream for TLC: one or two choices, streamed or not, and settings  *)
(* that leave fields out, set them to zero, grow by 1.5 and by 3, do not   *)
(* grow, and have their bounds the wrong way round.                        *)
(***************************************************************************)
EXTENDS TokenStream

Sizes == {[max |-> None, min |-> None, factor |-> None], [max |-> 0, min |-> 0, factor |-> 0],
          [max |-> 4, min |-> 1, factor |-> 3],          [max |-> 3, min |-> 2, factor |-> 3],
          [max |-> 2, min |-> None, factor |-> 2],       [max |-> 1, min |-> 3, factor |-> 6],
          [max |-> -1, min |-> -2, factor |-> 6]}

MCDefaults == [max |-> 5, min |-> 1, factor |-> 6]

MCJobs ==
  {[route |-> "native", stream |-> b, n |-> n, max |-> s.max, min |-> s.min, factor |-> s.factor] :
     b \in BOOLEAN, n \in {1, 2}, s \in Sizes}
  \cup {[route |-> "openai", stream |-> TRUE, n |-> 1, max |-> None, min |-> None, factor |-> None]}
=============================================================================
