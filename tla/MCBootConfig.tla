---------------------------- MODULE MCBootConfig ----------------------------
(***************************************************************************)
(* BootConfig for TLC.  Variables that the code looks at together are      *)
(* varied together, every group with the rest unset: lengths, loading,     *)
(* GPUs and deprecated names, sequences, dictionaries, speculation, names. *)
(***************************************************************************)
EXTENDS BootConfig

MCKnown    == Fields \ {"max_seq_len_to_capture"}
MCNumerals == {"0", "1", "2", "5", "256", "4096", "8192"}
MCJson     == {"rejected", "mixed", "fine"}
MCPairs    == {"image=1,video=0"}
MCTexts    == MCNumerals \cup MCJson \cup MCPairs \cup
  {"", "None", "a", "b", "/default", "/a", "/b", "/baked", "default", "main", "v2", "awq", "x",
   "bitsandbytes", "fp8_e5m2", "old", "new", "true", "garbage", "mlp", "small", "eagle",
   "eagle3", "medusa", "both"}
MCMentions == [small |-> {}, eagle |-> {"eagle"}, eagle3 |-> {"eagle", "eagle3"},
               medusa |-> {"medusa"}, both |-> {"medusa", "eagle"}]

\* One model's configuration states a length; another's nests it where nobody looks.
MCPathOf   == [default |-> "/default", a |-> "/a", b |-> "/b"]
MCLengthOf == [p \in {"/default", "/a", "/baked", "a"} |-> "8192"]

Names(m, t, r) == [f \in Aliased |-> CASE f = "model" -> m [] f = "tokenizer" -> t [] OTHER -> r]

Plain ==
  [vars |-> [f \in Fields |-> None], alias |-> Names("a", "", ""),
   spec |-> [v \in SpecVariables |-> None], gpus |-> "1",
   old_backend |-> None, old_disable_log |-> None, old_capture |-> None]

With(group) == {[Plain EXCEPT !.vars = [f \in Fields |-> IF f \in DOMAIN g THEN g[f] ELSE None]] : g \in group}

Lengths ==
  {[p EXCEPT !.alias = Names(m, "", "")] :
     m \in {"a", "b", None},
     p \in With([max_model_len : {None, "", "0", "4096"},
                 max_num_batched_tokens : {None, "None", "0", "8192", "x"}])}

Loading == With([load_format : {None, "", "bitsandbytes"}, quantization : {None, "None", "awq"},
                 kv_cache_dtype : {None, "fp8_e5m2"}])

Machines ==
  {[p EXCEPT !.gpus = g, !.old_backend = b, !.old_disable_log = l, !.old_capture = c] :
     g \in {"1", "2"}, b \in {None, "old"}, l \in {None, "true"}, c \in {None, "x", "8192"},
     p \in With([tensor_parallel_size : {None, "x"}, max_parallel_loading_workers : {None, "2"},
                 attention_backend : {None, "new"}, enable_log_requests : {None, "true"}])}

\* A field that may be None and has a default.
Sequences == With([max_num_seqs : {None, "", "None", "x", "2"}])

Dictionaries == With([limit_mm_per_prompt : {None, "", "image=1,video=0"},
                      hf_overrides : {None, "rejected", "mixed", "fine"},
                      speculative_config : {None, "", "fine", "garbage"}])

Speculation ==
  {[Plain EXCEPT !.spec = s] :
     s \in [method : {None, "mlp"}, model : {None, "", "small", "eagle", "eagle3", "medusa", "both"},
            tokens : {None, "0", "5", "x"}, ngram_max : {None, "0", "4096"}, ngram_min : {None, "0"},
            draft_tp : {None, "x"}, draft_revision : {None}]}

MCDeployments == {Names("a", "", ""), Names("a", "b", "main"), Names("b", "", "main")}

Named == {[p EXCEPT !.alias = d] : d \in MCDeployments, p \in With([tokenizer_revision : {None, "v2"}])}

MCPods == Lengths \cup Loading \cup Machines \cup Sequences \cup Dictionaries \cup Speculation \cup Named

\* An image with a model, and one that was told to bake the quantization "None".
MCBakedRecords == {[NoRecord EXCEPT !["model"] = "/baked", !["tokenizer"] = "/baked",
                                    !["quantization"] = q, !["revision"] = "main"] :
                     q \in {"awq", "None"}}
=============================================================================
