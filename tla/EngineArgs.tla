------------------------------ MODULE EngineArgs ------------------------------
(***************************************************************************)
(* get_engine_args: how the pod's environment variables, the model record  *)
(* and the GPUs become the arguments of the vLLM engine.  Layers are laid  *)
(* over each other, filtered, and then adjusted one field after another.   *)
(* Fields that the code treats alike are represented by one of them.  Text *)
(* stays text; what a conversion makes of it carries its type.             *)
(***************************************************************************)
CONSTANTS
  None,      \* Python's None: of a field, that vLLM decides
  Skip,      \* a layer does not mention the field
  Texts,     \* the texts that variables and records may hold
  Known,     \* the fields of Types that this vLLM's AsyncEngineArgs still has
  Numerals,  \* the texts that int() accepts
  Json,      \* the texts that json.loads accepts as a dictionary
  Pairs,     \* the texts of the form "image=1,video=0"
  Mentions,  \* for each draft model's name, the speculation families in it
  LengthOf   \* for the models whose configuration states a context length, that length

\* What is unset or not mentioned is told apart from every text and every value.
ASSUME SentinelsAssumption ==
  /\ None # Skip
  /\ {None, Skip} \cap (Texts \cup [type : {"str", "int", "bool", "dict"}, text : Texts]) = {}
ASSUME LengthOfAssumption == \A p \in DOMAIN LengthOf : LengthOf[p] \in Texts

\* A field of AsyncEngineArgs has a type and may be None.
Types ==
  [model |-> "str", tokenizer |-> "str", revision |-> "str", tokenizer_revision |-> "str",
   quantization |-> "str", load_format |-> "str", kv_cache_dtype |-> "str",
   attention_backend |-> "str", enable_log_requests |-> "bool",
   tensor_parallel_size |-> "int", max_parallel_loading_workers |-> "int",
   max_model_len |-> "int", max_num_batched_tokens |-> "int", max_num_seqs |-> "int",
   max_seq_len_to_capture |-> "int",
   limit_mm_per_prompt |-> "dict", hf_overrides |-> "dict", speculative_config |-> "dict"]

Fields   == DOMAIN Types
Optional == Fields \ {"model", "load_format", "kv_cache_dtype", "enable_log_requests",
                      "tensor_parallel_size", "max_seq_len_to_capture", "limit_mm_per_prompt",
                      "hf_overrides"}

Val(type, text) == [type |-> type, text |-> text]

\* DEFAULT_ARGS, which also holds fields that newer vLLMs have dropped, and with
\* max_num_seqs one that may be None.
DEFAULT_ARGS ==
  [f \in Fields |->
     CASE f \in {"load_format", "kv_cache_dtype"} -> Val("str", "auto")
       [] f = "enable_log_requests"  -> Val("bool", "False")
       [] f = "tensor_parallel_size" -> Val("int", "1")
       [] f = "max_num_seqs"         -> Val("int", "256")
       [] f = "max_seq_len_to_capture" -> Val("int", "8192")
       [] OTHER                      -> Skip]

(***************************************************************************)
(* The layers.                                                             *)
(***************************************************************************)
Blank  == {"", "None", "none"}
IsTrue == {"true", "1", "yes", "on"}

\* Mutant: a text that is not of the field's type becomes None.
ConvertToNone(f, text) ==
  IF text = None THEN Skip
  ELSE IF text \in Blank THEN IF f \in Optional THEN None ELSE Skip
  ELSE CASE Types[f] = "int"  -> IF text \in Numerals THEN Val("int", text) ELSE None
         [] Types[f] = "bool" -> Val("bool", IF text \in IsTrue THEN "True" ELSE "False")
         [] Types[f] = "dict" -> Val(IF text \in Json THEN "dict" ELSE "str", text)
         [] OTHER             -> Val("str", text)

\* _convert_env_value_to_field_type.  What raises is skipped by its callers; a
\* dictionary that is no JSON stays the text it was.
Convert(f, text) ==
  IF text = None THEN Skip
  ELSE IF text \in Blank THEN IF f \in Optional THEN None ELSE Skip
  ELSE CASE Types[f] = "int"  -> IF text \in Numerals THEN Val("int", text) ELSE Skip
         [] Types[f] = "bool" -> Val("bool", IF text \in IsTrue THEN "True" ELSE "False")
         [] Types[f] = "dict" -> Val(IF text \in Json THEN "dict" ELSE "str", text)
         [] OTHER             -> Val("str", text)

\* Auto-discovery: each field from the variable with its name in upper case.
FromVariables(pod) == [f \in Fields |-> Convert(f, pod.vars[f])]

\* ENV_ALIASES: MODEL_NAME, TOKENIZER_NAME and MODEL_REVISION.
Aliased == {"model", "tokenizer", "revision"}
FromAliases(pod) == [f \in Fields |-> IF f \in Aliased THEN Convert(f, pod.alias[f]) ELSE Skip]

\* _local_args_to_engine_args: what the model record names, whatever its type.
FromRecord(record) ==
  [f \in Fields |-> IF record[f] \in {"", "None", None} THEN Skip ELSE Val("str", record[f])]

Over(top, under) == [f \in Fields |-> IF top[f] = Skip THEN under[f] ELSE top[f]]

\* Mutant: the record is applied before the aliases.
MergedAliasLast(pod, record) ==
  LET all == Over(FromAliases(pod), Over(FromRecord(record), Over(FromVariables(pod), DEFAULT_ARGS)))
  IN  [f \in Fields |-> IF f \notin Known \/ all[f] = Skip THEN None ELSE all[f]]

\* The layers in the order of get_engine_args; what is empty or unknown is dropped.
Merged(pod, record) ==
  LET all == Over(FromRecord(record), Over(FromAliases(pod), Over(FromVariables(pod), DEFAULT_ARGS)))
  IN  [f \in Fields |-> IF f \notin Known \/ all[f] = Skip THEN None ELSE all[f]]

(***************************************************************************)
(* Speculative decoding, configured by variables of its own.               *)
(***************************************************************************)
Given(text) == text \notin {None, ""}

SpecVariables == {"method", "model", "tokens", "ngram_max", "ngram_min", "draft_tp", "draft_revision"}

\* int(x) or None: a zero counts as unset.
Count(text) == IF Given(text) /\ text # "0" THEN text ELSE None

\* The first family, in the code's order, that the draft model's name mentions.
Family(name) ==
  IF "eagle3" \in Mentions[name] THEN "eagle3"
  ELSE IF "eagle" \in Mentions[name] THEN "eagle"
  ELSE IF "medusa" \in Mentions[name] THEN "medusa"
  ELSE "draft_model"

Requested(spec) == Given(spec.method) \/ Given(spec.model) \/ Count(spec.ngram_max) # None

\* Mutant: a window means ngram, with or without a draft model.
MethodByWindow(spec) ==
  IF Given(spec.method) THEN spec.method
  ELSE IF Count(spec.ngram_max) # None THEN "ngram"
  ELSE Family(spec.model)

Method(spec) ==
  IF Given(spec.method) THEN spec.method
  ELSE IF Given(spec.model) THEN Family(spec.model)
  ELSE "ngram"

\* The configuration built from the variables; draft_tp stands for the three numbers
\* and draft_revision for the texts that are passed on as they are, zero included.
Built(spec) ==
  [method |-> Method(spec),
   model |-> IF Given(spec.model) THEN spec.model ELSE None,
   num_speculative_tokens |-> Count(spec.tokens),
   prompt_lookup_max |-> Count(spec.ngram_max),
   prompt_lookup_min |-> Count(spec.ngram_min),
   draft_tensor_parallel_size |-> IF Given(spec.draft_tp) THEN spec.draft_tp ELSE None,
   revision |-> IF Given(spec.draft_revision) THEN spec.draft_revision ELSE None]

\* get_speculative_config.  SPECULATIVE_CONFIG, if given, silences the others.
SpeculativeConfig(pod) ==
  LET text == pod.vars["speculative_config"]
  IN  IF Given(text) THEN IF text \in Json THEN text ELSE None
      ELSE IF Requested(pod.spec) THEN Built(pod.spec) ELSE None

(***************************************************************************)
(* The adjustments after the filter, in the code's order.                  *)
(***************************************************************************)
Has(args, f, text) == args[f] # None /\ args[f].text = text

WithLimits(args, pod) ==
  LET text == pod.vars["limit_mm_per_prompt"]
  IN  IF text = None THEN args ELSE [args EXCEPT !["limit_mm_per_prompt"] = Val("dict", text)]

\* _sanitize_hf_overrides strips what vLLM rejects: all of it, or a part.
WithOverrides(args) ==
  CASE Has(args, "hf_overrides", "rejected") -> [args EXCEPT !["hf_overrides"] = None]
    [] Has(args, "hf_overrides", "mixed")    -> [args EXCEPT !["hf_overrides"] = Val("dict", "kept")]
    [] OTHER                                 -> args

WithQuantization(args) ==
  IF Has(args, "load_format", "bitsandbytes")
    THEN [args EXCEPT !["quantization"] = args["load_format"]]
    ELSE args

WithGpus(args, gpus) ==
  IF gpus \in {"0", "1"} THEN args
  ELSE [args EXCEPT !["tensor_parallel_size"] = Val("int", gpus),
                    !["max_parallel_loading_workers"] = None]

WithCache(args) ==
  IF Has(args, "kv_cache_dtype", "fp8_e5m2")
    THEN [args EXCEPT !["kv_cache_dtype"] = Val("str", "fp8")]
    ELSE args

\* MAX_CONTEXT_LEN_TO_CAPTURE, whether vLLM knows its field or not.
WithCapture(args, pod) ==
  IF Given(pod.old_capture)
    THEN [args EXCEPT !["max_seq_len_to_capture"] = Val("int", pod.old_capture)]
    ELSE args

ZeroCleared(args, f) == IF Has(args, f, "0") THEN [args EXCEPT ![f] = None] ELSE args

\* Mutant: only the configured length is looked at.
WithTokensConfigured(args) ==
  LET clear == ZeroCleared(ZeroCleared(args, "max_model_len"), "max_num_batched_tokens")
  IN  IF clear["max_num_batched_tokens"] # None THEN clear
      ELSE [clear EXCEPT !["max_num_batched_tokens"] = clear["max_model_len"]]

\* The length the operator set, else the one in the model's own configuration.
Length(args) ==
  IF args["max_model_len"] # None THEN args["max_model_len"]
  ELSE IF args["model"] = None \/ args["model"].text \notin DOMAIN LengthOf THEN None
  ELSE Val("int", LengthOf[args["model"].text])

WithTokens(args) ==
  LET clear == ZeroCleared(ZeroCleared(args, "max_model_len"), "max_num_batched_tokens")
  IN  IF clear["max_num_batched_tokens"] # None THEN clear
      ELSE [clear EXCEPT !["max_num_batched_tokens"] = Length(clear)]

WithBackend(args, pod) ==
  IF Given(pod.old_backend) /\ args["attention_backend"] = None
    THEN [args EXCEPT !["attention_backend"] = Val("str", pod.old_backend)]
    ELSE args

WithLogging(args, pod) ==
  IF pod.old_disable_log = "true"
    THEN [args EXCEPT !["enable_log_requests"] = Val("bool", "False")]
    ELSE args

\* What get_speculative_config returns replaces the field, unless it is None.
WithSpeculation(args, pod) ==
  IF SpeculativeConfig(pod) = None THEN args
  ELSE [args EXCEPT !["speculative_config"] = Val("dict", "configured")]

Malformed(text) == Given(text) /\ text \notin Numerals

\* The numbers and the limits that are converted with no handler around them, and
\* AsyncEngineArgs(**args) given a field that it does not have.
Raises(pod) ==
  \/ pod.vars["limit_mm_per_prompt"] \notin Pairs \cup {None}
  \/ Malformed(pod.old_capture)
  \/ Given(pod.old_capture) /\ "max_seq_len_to_capture" \notin Known
  \/ /\ ~Given(pod.vars["speculative_config"])
     /\ \/ \E v \in {"tokens", "ngram_max", "ngram_min"} : Malformed(pod.spec[v])
        \/ Requested(pod.spec) /\ Malformed(pod.spec["draft_tp"])

GetEngineArgs(pod, record, gpus) ==
  LET merged == Merged(pod, record)
      loaded == WithQuantization(WithOverrides(WithLimits(merged, pod)))
      sized  == WithTokens(WithCapture(WithCache(WithGpus(loaded, gpus)), pod))
  IN  WithSpeculation(WithLogging(WithBackend(sized, pod), pod), pod)
=============================================================================
