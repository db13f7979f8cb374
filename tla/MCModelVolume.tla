--------------------------- MODULE MCModelVolume ---------------------------
(***************************************************************************)
(* ModelVolume for TLC: pods on one volume, kills and failed downloads,    *)
(* and repositories that take the download through every pattern set.      *)
(***************************************************************************)
EXTENDS ModelVolume, TLC

\* The usual repository; one with an old weight format, whose metadata match the
\* first set; one without metadata, which reaches the last set; an empty one.
MCRepos == {{"safetensors", "config", "tokenizer"}, {"bin", "config"}, {"pt"}, {}}

\* The usual repository alone, which the image's tokenizer configuration fits.
UsualRepos == {{"safetensors", "config", "tokenizer"}}
=============================================================================
