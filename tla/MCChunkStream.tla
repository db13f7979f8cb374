--------------------------- MODULE MCChunkStream ---------------------------
(***************************************************************************)
(* ChunkStream for TLC: both output modes, answers of up to eight chunks   *)
(* and settings on both sides of every test of BatchSize.                  *)
(***************************************************************************)
EXTENDS ChunkStream

\* Growth that hits the maximum exactly, growth that is cut by it, growth from a
\* minimum above one, a minimum equal to the maximum, a factor of one, no minimum,
\* a maximum of zero and one below it.
MCSettings ==
  {[max |-> 4, min |-> 1, factor |-> 2], [max |-> 5, min |-> 1, factor |-> 3],
   [max |-> 3, min |-> 2, factor |-> 2], [max |-> 2, min |-> 2, factor |-> 2],
   [max |-> 3, min |-> 1, factor |-> 1], [max |-> 3, min |-> 0, factor |-> 3],
   [max |-> 0, min |-> 1, factor |-> 3], [max |-> -1, min |-> -2, factor |-> 3]}
=============================================================================
