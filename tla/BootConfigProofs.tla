-------------------------- MODULE BootConfigProofs --------------------------
(***************************************************************************)
(* Proofs about BootConfig for every configuration, record and model, and  *)
(* whatever texts vLLM, json.loads or int() take: every boot of a          *)
(* deployment starts the same engine, the record has the last word, what   *)
(* counts as unset changes nothing, batches have room for the longest      *)
(* prompt, and a guessed speculation can run.                              *)
(***************************************************************************)
EXTENDS BootConfig, TLAPS

(***************************************************************************)
(* The arguments, field by field.                                          *)
(***************************************************************************)
FieldNames == {"model", "tokenizer", "revision", "tokenizer_revision", "quantization",
  "load_format", "kv_cache_dtype", "attention_backend", "enable_log_requests",
  "tensor_parallel_size", "max_parallel_loading_workers", "max_model_len",
  "max_num_batched_tokens", "max_num_seqs", "max_seq_len_to_capture",
  "limit_mm_per_prompt", "hf_overrides", "speculative_config"}

\* The fields, by name.
LEMMA FieldsNamed == Fields = FieldNames
  BY DEF Fields, Types, FieldNames

\* The fields that are numbers.
LEMMA IntFields ==
  \A f \in Fields : Types[f] = "int" =>
    f \in {"tensor_parallel_size", "max_parallel_loading_workers", "max_model_len",
           "max_num_batched_tokens", "max_num_seqs", "max_seq_len_to_capture"}
<1>1. Fields = DOMAIN Types
  BY DEF Fields
<1> QED
  BY <1>1, SMTT(30) DEF Types

\* A value is neither unset nor missing.
LEMMA ValuesAreSet ==
  /\ \A type \in {"str", "int", "bool", "dict"} : \A text \in Texts :
       Val(type, text) # None /\ Val(type, text) # Skip
  /\ None # Skip /\ None \notin Texts
  BY SentinelsAssumption DEF Val

\* Arguments have a value or None for every field.
IsArgs(a) == a = [f \in Fields |-> a[f]]

\* One set of arguments is another with nothing changed but some fields.
Only(b, a, changed) == IsArgs(b) /\ \A f \in Fields \ changed : b[f] = a[f]

\* What an assignment changes.
LEMMA Assigned ==
  ASSUME NEW a, IsArgs(a), NEW g \in Fields, NEW v
  PROVE  /\ Only([a EXCEPT ![g] = v], a, {g})
         /\ [a EXCEPT ![g] = v][g] = v
  BY DEF IsArgs, Only

\* Changes one after another.
LEMMA OnlyThen ==
  ASSUME NEW a, NEW b, NEW c, NEW F, NEW G, NEW H, Only(b, a, F), Only(c, b, G), F \cup G \subseteq H
  PROVE  Only(c, a, H)
  BY DEF Only

\* The layers give every field a value or None.
LEMMA MergedIsArgs == \A p, r : IsArgs(Merged(p, r))
  BY DEF IsArgs, Merged

\* Each adjustment changes its own fields.
LEMMA AdjustmentsOnly ==
  ASSUME NEW a, IsArgs(a), NEW p, NEW gpus
  PROVE  /\ Only(WithLimits(a, p), a, {"limit_mm_per_prompt"})
         /\ Only(WithOverrides(a), a, {"hf_overrides"})
         /\ Only(WithQuantization(a), a, {"quantization"})
         /\ Only(WithGpus(a, gpus), a, {"tensor_parallel_size", "max_parallel_loading_workers"})
         /\ Only(WithCache(a), a, {"kv_cache_dtype"})
         /\ Only(WithCapture(a, p), a, {"max_seq_len_to_capture"})
         /\ Only(WithTokens(a), a, {"max_model_len", "max_num_batched_tokens"})
         /\ Only(WithBackend(a, p), a, {"attention_backend"})
         /\ Only(WithLogging(a, p), a, {"enable_log_requests"})
         /\ Only(WithSpeculation(a, p), a, {"speculative_config"})
<1> USE FieldsNamed DEF FieldNames
<1>1. \A F : Only(a, a, F)
  BY DEF Only
<1>2. Only(WithLimits(a, p), a, {"limit_mm_per_prompt"})
  BY <1>1, Assigned DEF WithLimits
<1>3. Only(WithOverrides(a), a, {"hf_overrides"})
  <2>1. \/ WithOverrides(a) = a
        \/ \E v : WithOverrides(a) = [a EXCEPT !["hf_overrides"] = v]
    <3>1. CASE Has(a, "hf_overrides", "rejected") /\ ~Has(a, "hf_overrides", "mixed")
      BY <3>1, Zenon DEF WithOverrides
    <3>2. CASE ~Has(a, "hf_overrides", "rejected") /\ Has(a, "hf_overrides", "mixed")
      BY <3>2, Zenon DEF WithOverrides
    <3>3. CASE ~Has(a, "hf_overrides", "rejected") /\ ~Has(a, "hf_overrides", "mixed")
      BY <3>3, Zenon DEF WithOverrides
    <3>4. ~(Has(a, "hf_overrides", "rejected") /\ Has(a, "hf_overrides", "mixed"))
      BY DEF Has
    <3> QED
      BY <3>1, <3>2, <3>3, <3>4, Zenon
  <2> QED
    BY <1>1, <2>1, Assigned
<1>4. Only(WithQuantization(a), a, {"quantization"})
  BY <1>1, Assigned DEF WithQuantization
<1>5. Only(WithGpus(a, gpus), a, {"tensor_parallel_size", "max_parallel_loading_workers"})
  BY DEF WithGpus, Only, IsArgs
<1>6. Only(WithCache(a), a, {"kv_cache_dtype"})
  BY <1>1, Assigned DEF WithCache
<1>7. Only(WithCapture(a, p), a, {"max_seq_len_to_capture"})
  BY <1>1, Assigned DEF WithCapture
<1>8. Only(WithTokens(a), a, {"max_model_len", "max_num_batched_tokens"})
  <2> DEFINE b == ZeroCleared(a, "max_model_len")
             c == ZeroCleared(b, "max_num_batched_tokens")
  <2>1. \A d : IsArgs(d) => \A f \in Fields : Only(ZeroCleared(d, f), d, {f})
    <3> SUFFICES ASSUME NEW d, IsArgs(d), NEW f \in Fields
                 PROVE  Only(ZeroCleared(d, f), d, {f})
      OBVIOUS
    <3>1. Only(d, d, {f})
      BY DEF Only
    <3> QED
      BY <3>1, Assigned DEF ZeroCleared
  <2>2. "max_model_len" \in Fields /\ "max_num_batched_tokens" \in Fields
    OBVIOUS
  <2>3. Only(b, a, {"max_model_len"})
    BY <2>1, <2>2
  <2> HIDE DEF b
  <2>4. Only(c, b, {"max_num_batched_tokens"}) /\ IsArgs(c)
    BY <2>1, <2>2, <2>3 DEF Only
  <2> HIDE DEF c
  <2>5. \/ WithTokens(a) = c
        \/ WithTokens(a) = [c EXCEPT !["max_num_batched_tokens"] = Length(c)]
    BY DEF WithTokens, b, c
  <2>6. Only(WithTokens(a), c, {"max_num_batched_tokens"})
    <3>1. Only(c, c, {"max_num_batched_tokens"})
      BY <2>4 DEF Only
    <3>2. Only([c EXCEPT !["max_num_batched_tokens"] = Length(c)], c, {"max_num_batched_tokens"})
      BY <2>2, <2>4, Assigned
    <3> QED
      BY <2>5, <3>1, <3>2, Zenon
  <2>7. Only(c, a, {"max_model_len", "max_num_batched_tokens"})
    BY <2>3, <2>4, OnlyThen
  <2> QED
    BY <2>6, <2>7, OnlyThen
<1>9. Only(WithBackend(a, p), a, {"attention_backend"})
  BY <1>1, Assigned DEF WithBackend
<1>10. Only(WithLogging(a, p), a, {"enable_log_requests"})
  BY <1>1, Assigned DEF WithLogging
<1>11. Only(WithSpeculation(a, p), a, {"speculative_config"})
  BY <1>1, Assigned DEF WithSpeculation
<1> QED
  BY <1>2, <1>3, <1>4, <1>5, <1>6, <1>7, <1>8, <1>9, <1>10, <1>11

(***************************************************************************)
(* The steps of get_engine_args up to the numbers, and after them.         *)
(***************************************************************************)
Loaded(p, r) == WithQuantization(WithOverrides(WithLimits(Merged(p, r), p)))
Placed(p, r, gpus) == WithCapture(WithCache(WithGpus(Loaded(p, r), gpus)), p)
Finished(a, p) == WithSpeculation(WithLogging(WithBackend(a, p), p), p)

\* The arguments are those steps one after another.
LEMMA InSteps ==
  \A p, r, gpus : GetEngineArgs(p, r, gpus) = Finished(WithTokens(Placed(p, r, gpus)), p)
  BY DEF GetEngineArgs, Finished, Placed, Loaded

Machinery == {"tensor_parallel_size", "max_parallel_loading_workers", "kv_cache_dtype",
              "max_seq_len_to_capture"}
Loading   == {"limit_mm_per_prompt", "hf_overrides", "quantization"}
Lengths   == {"max_model_len", "max_num_batched_tokens"}
Late      == {"attention_backend", "enable_log_requests", "speculative_config"}

\* What the steps change.
LEMMA StepsOnly ==
  ASSUME NEW p, NEW r, NEW gpus
  PROVE  /\ Only(Loaded(p, r), Merged(p, r), Loading)
         /\ Only(Placed(p, r, gpus), Loaded(p, r), Machinery)
         /\ Only(WithTokens(Placed(p, r, gpus)), Placed(p, r, gpus), Lengths)
         /\ Only(GetEngineArgs(p, r, gpus), WithTokens(Placed(p, r, gpus)), Late)
<1>0. \A a, b, F : Only(b, a, F) => IsArgs(b)
  BY DEF Only
<1>1. Only(Loaded(p, r), Merged(p, r), Loading)
  <2> DEFINE m == Merged(p, r)
             l == WithLimits(m, p)
             o == WithOverrides(l)
             q == WithQuantization(o)
  <2> HIDE DEF m
  <2>1. IsArgs(m)
    BY MergedIsArgs DEF m
  <2>2. Only(l, m, {"limit_mm_per_prompt"})
    BY <2>1, AdjustmentsOnly
  <2> HIDE DEF l
  <2>3. Only(o, l, {"hf_overrides"})
    BY <1>0, <2>2, AdjustmentsOnly
  <2> HIDE DEF o
  <2>4. Only(q, o, {"quantization"})
    BY <1>0, <2>3, AdjustmentsOnly
  <2> HIDE DEF q
  <2>5. Only(q, m, Loading)
    BY <2>2, <2>3, <2>4 DEF Only, Loading
  <2> QED
    BY <2>5 DEF q, o, l, m, Loaded
<1>2. Only(Placed(p, r, gpus), Loaded(p, r), Machinery)
  <2> DEFINE m == Loaded(p, r)
             g == WithGpus(m, gpus)
             c == WithCache(g)
             q == WithCapture(c, p)
  <2> HIDE DEF m
  <2>1. IsArgs(m)
    BY <1>0, <1>1 DEF m
  <2>2. Only(g, m, {"tensor_parallel_size", "max_parallel_loading_workers"})
    BY <2>1, AdjustmentsOnly
  <2> HIDE DEF g
  <2>3. Only(c, g, {"kv_cache_dtype"})
    BY <1>0, <2>2, AdjustmentsOnly
  <2> HIDE DEF c
  <2>4. Only(q, c, {"max_seq_len_to_capture"})
    BY <1>0, <2>3, AdjustmentsOnly
  <2> HIDE DEF q
  <2>5. Only(q, m, Machinery)
    BY <2>2, <2>3, <2>4 DEF Only, Machinery
  <2> QED
    BY <2>5 DEF q, c, g, m, Placed
<1>3. Only(WithTokens(Placed(p, r, gpus)), Placed(p, r, gpus), Lengths)
  BY <1>0, <1>2, AdjustmentsOnly DEF Lengths
<1>4. Only(GetEngineArgs(p, r, gpus), WithTokens(Placed(p, r, gpus)), Late)
  <2> DEFINE m == WithTokens(Placed(p, r, gpus))
             b == WithBackend(m, p)
             l == WithLogging(b, p)
             q == WithSpeculation(l, p)
  <2>1. GetEngineArgs(p, r, gpus) = q
    BY InSteps DEF Finished
  <2> HIDE DEF m
  <2>2. IsArgs(m)
    BY <1>0, <1>3 DEF m
  <2>3. Only(b, m, {"attention_backend"})
    BY <2>2, AdjustmentsOnly
  <2> HIDE DEF b
  <2>4. Only(l, b, {"enable_log_requests"})
    BY <1>0, <2>3, AdjustmentsOnly
  <2> HIDE DEF l
  <2>5. Only(q, l, {"speculative_config"})
    BY <1>0, <2>4, AdjustmentsOnly
  <2> HIDE DEF q
  <2>6. Only(q, m, Late)
    BY <2>3, <2>4, <2>5 DEF Only, Late
  <2> QED
    BY <2>1, <2>6 DEF m
<1> QED
  BY <1>1, <1>2, <1>3, <1>4

\* What is not changed.
LEMMA Unchanged ==
  ASSUME NEW a, NEW b, NEW F, Only(b, a, F), NEW g \in Fields, g \notin F
  PROVE  b[g] = a[g]
  BY DEF Only

\* A field that nothing after some step changes stays as that step leaves it.
LEMMA FieldStays ==
  ASSUME NEW p, NEW r, NEW gpus, NEW g \in Fields, g \notin Late
  PROVE  /\ GetEngineArgs(p, r, gpus)[g] = WithTokens(Placed(p, r, gpus))[g]
         /\ g \notin Lengths => GetEngineArgs(p, r, gpus)[g] = Placed(p, r, gpus)[g]
         /\ g \notin Lengths /\ g \notin Machinery => GetEngineArgs(p, r, gpus)[g] = Loaded(p, r)[g]
         /\ g \notin Lengths /\ g \notin Machinery /\ g \notin Loading =>
              GetEngineArgs(p, r, gpus)[g] = Merged(p, r)[g]
<1>1. /\ Only(Loaded(p, r), Merged(p, r), Loading)
      /\ Only(Placed(p, r, gpus), Loaded(p, r), Machinery)
      /\ Only(WithTokens(Placed(p, r, gpus)), Placed(p, r, gpus), Lengths)
      /\ Only(GetEngineArgs(p, r, gpus), WithTokens(Placed(p, r, gpus)), Late)
  BY StepsOnly
<1>2. GetEngineArgs(p, r, gpus)[g] = WithTokens(Placed(p, r, gpus))[g]
  BY <1>1, Unchanged
<1>3. g \notin Lengths => WithTokens(Placed(p, r, gpus))[g] = Placed(p, r, gpus)[g]
  BY <1>1, Unchanged
<1>4. g \notin Machinery => Placed(p, r, gpus)[g] = Loaded(p, r)[g]
  BY <1>1, Unchanged
<1>5. g \notin Loading => Loaded(p, r)[g] = Merged(p, r)[g]
  BY <1>1, Unchanged
<1> QED
  BY <1>2, <1>3, <1>4, <1>5

(***************************************************************************)
(* The record has the last word.                                           *)
(***************************************************************************)
\* A record, as download_model.py and ensure_model write it.
Records == {r \in [Fields -> MaybeTexts] : \A f \in Fields \ RecordFields : r[f] = None}

\* What the record names comes out of the layers.
LEMMA RecordOnTop ==
  ASSUME NEW p, NEW r \in Records, NEW f \in RecordFields, r[f] \notin {"", "None", None}
  PROVE  Merged(p, r)[f] = Val("str", r[f])
<1>1. f \in Fields /\ f \in Known
  BY FieldsNamed, KnownAssumption DEF FieldNames, RecordFields
<1>2. r[f] \in Texts
  BY <1>1 DEF Records, MaybeTexts
<1>3. FromRecord(r)[f] = Val("str", r[f])
  BY <1>1 DEF FromRecord
<1>4. Val("str", r[f]) # Skip
  BY <1>2, ValuesAreSet
<1>5. \A a : Over(FromRecord(r), a)[f] = Val("str", r[f])
  BY <1>1, <1>3, <1>4 DEF Over
<1> QED
  BY <1>1, <1>4, <1>5 DEF Merged

\* Nothing that follows the layers changes what records name, but for the quantization;
\* and that, with the load format, stays as the loading steps leave it.
LEMMA NamedStays ==
  ASSUME NEW p, NEW r, NEW gpus, NEW g \in Fields, g \in RecordFields \cup {"load_format"}
  PROVE  /\ g # "quantization" => GetEngineArgs(p, r, gpus)[g] = Merged(p, r)[g]
         /\ GetEngineArgs(p, r, gpus)[g] = Loaded(p, r)[g]
<1>1. g \notin Machinery /\ g \notin Lengths /\ g \notin Late
  BY DEF RecordFields, Machinery, Lengths, Late
<1>2. g # "quantization" => g \notin Loading
  BY DEF RecordFields, Loading
<1> QED
  BY <1>1, <1>2, FieldStays

\* The quantization and the load format stay as the loading steps leave them.
LEMMA LoadedStays ==
  ASSUME NEW p, NEW r, NEW gpus
  PROVE  /\ GetEngineArgs(p, r, gpus)["quantization"] = Loaded(p, r)["quantization"]
         /\ GetEngineArgs(p, r, gpus)["load_format"] = Loaded(p, r)["load_format"]
<1>1. "quantization" \in Fields /\ "load_format" \in Fields
  BY FieldsNamed DEF FieldNames
<1>2. "quantization" \in RecordFields \cup {"load_format"} /\ "load_format" \in RecordFields \cup {"load_format"}
  BY DEF RecordFields
<1>3. \A g \in Fields : g \in RecordFields \cup {"load_format"} =>
         GetEngineArgs(p, r, gpus)[g] = Loaded(p, r)[g]
  BY NamedStays
<1> QED
  BY <1>1, <1>2, <1>3, Zenon

\* Nothing that follows changes it, but for a quantization that the load format implies.
LEMMA RecordStays ==
  ASSUME NEW p, NEW r \in Records, NEW gpus, NEW f \in Fields, r[f] \notin {"", "None", None}
  PROVE  \/ GetEngineArgs(p, r, gpus)[f] = Val("str", r[f])
         \/ f = "quantization" /\ Has(GetEngineArgs(p, r, gpus), "load_format", "bitsandbytes")
<1>1. f \in RecordFields
  BY DEF Records
<1>2. Merged(p, r)[f] = Val("str", r[f])
  BY <1>1, RecordOnTop
<1>3. CASE f # "quantization"
  BY <1>1, <1>2, <1>3, NamedStays
<1>4. CASE f = "quantization"
  <2> DEFINE a == GetEngineArgs(p, r, gpus)
             m == Merged(p, r)
             l == WithLimits(m, p)
             o == WithOverrides(l)
             q == WithQuantization(o)
  <2>0. "quantization" \in Fields /\ "load_format" \in Fields
    BY FieldsNamed DEF FieldNames
  <2>1. a["quantization"] = q["quantization"] /\ a["load_format"] = q["load_format"]
    <3>1. q = Loaded(p, r)
      BY DEF Loaded
    <3>2. a = GetEngineArgs(p, r, gpus)
      BY DEF a
    <3> HIDE DEF a, q
    <3> QED
      BY <3>1, <3>2, LoadedStays
  <2> HIDE DEF a
  <2>2. IsArgs(m) /\ m["quantization"] = Val("str", r[f])
    BY <1>2, <1>4, MergedIsArgs
  <2> HIDE DEF m
  <2>3. Only(l, m, {"limit_mm_per_prompt"})
    BY <2>2, AdjustmentsOnly
  <2> HIDE DEF l
  <2>4. Only(o, l, {"hf_overrides"})
    BY <2>3, AdjustmentsOnly DEF Only
  <2> HIDE DEF o
  <2>5. Only(q, o, {"quantization"})
    BY <2>4, AdjustmentsOnly DEF Only
  <2>6. o["quantization"] = Val("str", r[f]) /\ q["load_format"] = o["load_format"]
    BY <2>0, <2>2, <2>3, <2>4, <2>5 DEF Only
  <2>7. CASE Has(o, "load_format", "bitsandbytes")
    BY <1>4, <2>1, <2>6, <2>7 DEF Has, a
  <2>8. CASE ~Has(o, "load_format", "bitsandbytes")
    <3>1. q = o
      BY <2>8 DEF WithQuantization
    <3> QED
      BY <1>4, <2>1, <2>6, <3>1 DEF a
  <2> QED
    BY <2>7, <2>8
<1> QED
  BY <1>3, <1>4

(***************************************************************************)
(* The number of batched tokens.                                           *)
(***************************************************************************)
Tokens == "max_num_batched_tokens"

\* A variable that says nothing of the tokens.
SaysNothing(text) == ~Given(text) \/ text \in {"None", "none", "0"} \/ Malformed(text)

NothingOrZero(a, f) == a[f] = None \/ a[f] = Val("int", "0")

\* Only the variable decides what comes out of the layers.
LEMMA TokensMerged ==
  ASSUME NEW p, NEW r \in Records, p.vars[Tokens] \in MaybeTexts
  PROVE  IF SaysNothing(p.vars[Tokens]) THEN NothingOrZero(Merged(p, r), Tokens)
         ELSE /\ Merged(p, r)[Tokens] = Val("int", p.vars[Tokens])
              /\ Merged(p, r)[Tokens] # None /\ p.vars[Tokens] # "0"
<1> DEFINE text == p.vars[Tokens]
<1>1. Tokens \in Fields /\ Tokens \in Known /\ Tokens \notin Aliased /\ Tokens \in Optional
  BY FieldsNamed, KnownAssumption DEF FieldNames, Tokens, Aliased, Optional
<1>2. Types[Tokens] = "int" /\ DEFAULT_ARGS[Tokens] = Skip
  BY <1>1 DEF Types, Tokens, DEFAULT_ARGS
<1>3. r[Tokens] = None
  BY <1>1 DEF Records, Tokens, RecordFields
<1>4. FromRecord(r)[Tokens] = Skip /\ FromAliases(p)[Tokens] = Skip
  BY <1>1, <1>3 DEF FromRecord, FromAliases
<1>5. FromVariables(p)[Tokens] = Convert(Tokens, text)
  BY <1>1 DEF FromVariables
<1>6. Merged(p, r)[Tokens] = IF Convert(Tokens, text) = Skip THEN None ELSE Convert(Tokens, text)
  BY <1>1, <1>2, <1>4, <1>5 DEF Merged, Over
<1> HIDE DEF text
<1>7. Convert(Tokens, text) =
        IF text = None THEN Skip
        ELSE IF text \in Blank THEN None
        ELSE IF text \in Numerals THEN Val("int", text) ELSE Skip
  BY <1>1, <1>2 DEF Convert
<1>8. CASE SaysNothing(text)
  BY <1>6, <1>7, <1>8 DEF SaysNothing, NothingOrZero, Given, Malformed, Blank, text
<1>9. CASE ~SaysNothing(text)
  <2>1. text \in Texts /\ text \notin Blank /\ text \in Numerals /\ text # None /\ text # "0"
    BY <1>9 DEF SaysNothing, Given, Malformed, Blank, MaybeTexts, text
  <2>2. Val("int", text) # None /\ Val("int", text) # Skip
    BY <2>1, ValuesAreSet
  <2> QED
    BY <1>6, <1>7, <1>9, <2>1, <2>2 DEF text
<1> QED
  BY <1>8, <1>9 DEF text

\* How WithTokens fills in the number.
LEMMA TokensFilled ==
  ASSUME NEW t, IsArgs(t)
  PROVE  /\ NothingOrZero(t, Tokens) /\ WithTokens(t)["max_model_len"] # None
              => WithTokens(t)[Tokens] = WithTokens(t)["max_model_len"]
         /\ WithTokens(t)[Tokens] = None
              => /\ t[Tokens] = None \/ Has(t, Tokens, "0")
                 /\ t["model"] = None \/ t["model"].text \notin DOMAIN LengthOf
<1> DEFINE one   == ZeroCleared(t, "max_model_len")
           clear == ZeroCleared(one, Tokens)
<1>0. Tokens \in Fields /\ "max_model_len" \in Fields /\ "model" \in Fields
      /\ Tokens # "max_model_len" /\ Tokens # "model"
  BY FieldsNamed DEF FieldNames, Tokens
<1>1. IsArgs(one) /\ one["model"] = t["model"] /\ one[Tokens] = t[Tokens]
  BY <1>0, Assigned DEF ZeroCleared, Only
<1> HIDE DEF one
<1>2. /\ IsArgs(clear) /\ clear["model"] = t["model"]
      /\ clear[Tokens] = IF Has(t, Tokens, "0") THEN None ELSE t[Tokens]
  BY <1>0, <1>1, Assigned DEF ZeroCleared, Only, Has
<1> HIDE DEF clear
<1>3. WithTokens(t) = IF clear[Tokens] # None THEN clear
                      ELSE [clear EXCEPT ![Tokens] = Length(clear)]
  BY DEF WithTokens, clear, one, Tokens
<1>4. NothingOrZero(t, Tokens) => clear[Tokens] = None
  <2>1. Val("int", "0").text = "0"
    BY DEF Val
  <2> QED
    BY <1>2, <2>1 DEF NothingOrZero, Has
<1>5. CASE clear[Tokens] # None
  BY <1>3, <1>4, <1>5
<1>6. CASE clear[Tokens] = None
  <2>1. /\ WithTokens(t)[Tokens] = Length(clear)
        /\ WithTokens(t)["max_model_len"] = clear["max_model_len"]
    BY <1>0, <1>2, <1>3, <1>6, Assigned DEF Only
  <2>2. clear["max_model_len"] # None => Length(clear) = clear["max_model_len"]
    BY DEF Length
  <2>3. Length(clear) = None => t["model"] = None \/ t["model"].text \notin DOMAIN LengthOf
    <3> SUFFICES ASSUME Length(clear) = None, t["model"] # None, t["model"].text \in DOMAIN LengthOf
                 PROVE  FALSE
      OBVIOUS
    <3>1. Length(clear) = Val("int", LengthOf[t["model"].text])
      BY <1>2, <2>2 DEF Length
    <3>2. LengthOf[t["model"].text] \in Texts
      BY LengthOfAssumption
    <3> QED
      BY <3>1, <3>2, ValuesAreSet
  <2>4. t[Tokens] = None \/ Has(t, Tokens, "0")
    BY <1>2, <1>6
  <2> QED
    BY <2>1, <2>2, <2>3, <2>4
<1> QED
  BY <1>5, <1>6

\* The number of tokens in the arguments.
LEMMA ArgumentsFollow ==
  ASSUME NEW p, NEW r \in Records, NEW gpus, p.vars[Tokens] \in MaybeTexts
  PROVE  LET a == GetEngineArgs(p, r, gpus)
         IN  /\ a["max_model_len"] # None /\ SaysNothing(p.vars[Tokens])
                  => a[Tokens] = a["max_model_len"]
             /\ a[Tokens] = None
                  => /\ SaysNothing(p.vars[Tokens])
                     /\ a["model"] = None \/ a["model"].text \notin DOMAIN LengthOf
<1> DEFINE a == GetEngineArgs(p, r, gpus)
           t == Placed(p, r, gpus)
           m == Merged(p, r)
           w == WithTokens(t)
<1>0. Tokens \in Fields /\ "max_model_len" \in Fields /\ "model" \in Fields
  BY FieldsNamed DEF FieldNames, Tokens
<1>1. IsArgs(t)
  BY StepsOnly DEF Only
<1>2. Only(t, Loaded(p, r), Machinery) /\ Only(Loaded(p, r), m, Loading)
      /\ Only(w, t, {"max_model_len", Tokens})
  BY StepsOnly DEF Tokens, Lengths
<1>3. Only(a, w, Late)
  BY StepsOnly
<1> HIDE DEF a, t, m, w
<1>4. t[Tokens] = m[Tokens] /\ t["model"] = m["model"]
  BY <1>0, <1>2 DEF Only, Machinery, Loading, Tokens
<1>5. a[Tokens] = w[Tokens] /\ a["max_model_len"] = w["max_model_len"] /\ a["model"] = t["model"]
  BY <1>0, <1>2, <1>3 DEF Only, Late, Tokens
<1>6. IF SaysNothing(p.vars[Tokens]) THEN NothingOrZero(t, Tokens)
      ELSE t[Tokens] = Val("int", p.vars[Tokens]) /\ t[Tokens] # None /\ p.vars[Tokens] # "0"
  BY <1>4, TokensMerged DEF m, NothingOrZero
<1>7. ~SaysNothing(p.vars[Tokens]) => t[Tokens] # None /\ ~Has(t, Tokens, "0")
  BY <1>6 DEF Has, Val
<1>8. /\ NothingOrZero(t, Tokens) /\ w["max_model_len"] # None => w[Tokens] = w["max_model_len"]
      /\ w[Tokens] = None => /\ t[Tokens] = None \/ Has(t, Tokens, "0")
                             /\ t["model"] = None \/ t["model"].text \notin DOMAIN LengthOf
  BY <1>1, TokensFilled DEF w
<1> QED
  BY <1>5, <1>6, <1>7, <1>8 DEF a

(***************************************************************************)
(* What counts as unset.                                                   *)
(***************************************************************************)
PodType ==
  [vars : [Fields -> MaybeTexts], alias : [Aliased -> MaybeTexts],
   spec : [SpecVariables -> MaybeTexts], gpus : Texts,
   old_backend : MaybeTexts, old_disable_log : MaybeTexts, old_capture : MaybeTexts]

CleanText(v, text) == IF Unset(v, text) THEN None ELSE text

\* Cleaning changes nothing but the variables.
LEMMA CleanedIs ==
  ASSUME NEW p \in PodType
  PROVE  /\ Cleaned(p).vars = [v \in Fields |-> CleanText(v, p.vars[v])]
         /\ Cleaned(p).spec = [v \in SpecVariables |-> CleanText(v, p.spec[v])]
         /\ Cleaned(p).alias = p.alias
         /\ Cleaned(p).old_backend = p.old_backend
         /\ Cleaned(p).old_disable_log = p.old_disable_log
         /\ Cleaned(p).old_capture = p.old_capture
  BY DEF PodType, Cleaned, CleanText

\* The variables of speculation mean the same when cleaned.
LEMMA SpeculationSame ==
  ASSUME NEW p \in PodType
  PROVE  SpeculativeConfig(Cleaned(p)) = SpeculativeConfig(p)
<1> DEFINE q  == Cleaned(p)
           sp == p.spec
           sq == q.spec
           tq == q.vars["speculative_config"]
           tp == p.vars["speculative_config"]
<1>1. (Given(tq) <=> Given(tp)) /\ (Given(tp) => tq = tp)
  <2>1. "speculative_config" \in Fields /\ Types["speculative_config"] = "dict"
    BY FieldsNamed DEF FieldNames, Types
  <2>2. \A text : Unset("speculative_config", text) => text = ""
    BY <2>1 DEF Unset
  <2>3. tq = CleanText("speculative_config", tp)
    BY <2>1, CleanedIs
  <2> QED
    BY <2>2, <2>3 DEF CleanText, Given
<1>2. \A v \in SpecVariables : sq[v] = CleanText(v, sp[v])
  BY CleanedIs
<1> HIDE DEF sp, sq, tp, tq
<1>3. \A v \in SpecVariables \ {"model"} : v \notin Fields
  BY FieldsNamed DEF FieldNames, SpecVariables
<1>4. \A v \in SpecVariables : v \notin Optional
  BY FieldsNamed DEF FieldNames, SpecVariables, Optional
<1>5. Types["model"] = "str" /\ DOMAIN Types = Fields
  BY DEF Types, Fields
<1>6. \A v \in {"method", "model", "draft_tp", "draft_revision"} :
        sq[v] = IF sp[v] = "" THEN None ELSE sp[v]
  <2> SUFFICES ASSUME NEW v \in {"method", "model", "draft_tp", "draft_revision"}
               PROVE  sq[v] = IF sp[v] = "" THEN None ELSE sp[v]
    OBVIOUS
  <2>0. ~HidesDefault(v)
    BY <1>4 DEF HidesDefault, SpecVariables
  <2>1. v \in SpecVariables /\ v \notin Optional /\ v # "limit_mm_per_prompt"
    BY <1>4 DEF SpecVariables
  <2>2. ~(v \in DOMAIN Types /\ Types[v] = "int")
    BY <1>3, <1>5, <2>1
  <2> QED
    BY <1>2, <2>0, <2>1, <2>2 DEF CleanText, Unset
<1>7. \A v \in {"tokens", "ngram_max", "ngram_min"} :
        sq[v] = IF sp[v] \in {"", "0"} THEN None ELSE sp[v]
  <2> SUFFICES ASSUME NEW v \in {"tokens", "ngram_max", "ngram_min"}
               PROVE  sq[v] = IF sp[v] \in {"", "0"} THEN None ELSE sp[v]
    OBVIOUS
  <2>0. ~HidesDefault(v)
    BY <1>4 DEF HidesDefault, SpecVariables
  <2>1. v \in SpecVariables /\ v \notin Optional /\ v # "limit_mm_per_prompt" /\ v # "model"
    BY <1>4 DEF SpecVariables
  <2>2. ~(v \in DOMAIN Types /\ Types[v] = "int")
    BY <1>3, <1>5, <2>1
  <2> QED
    BY <1>2, <2>0, <2>1, <2>2 DEF CleanText, Unset
<1>8. \A v \in {"method", "model", "draft_tp", "draft_revision"} :
        /\ Given(sq[v]) <=> Given(sp[v])
        /\ Given(sp[v]) => sq[v] = sp[v]
  BY <1>6 DEF Given
<1>9. \A v \in {"tokens", "ngram_max", "ngram_min"} : Count(sq[v]) = Count(sp[v])
  BY <1>7 DEF Count, Given
<1>10. Requested(sq) <=> Requested(sp)
  BY <1>8, <1>9 DEF Requested
<1>11. Requested(sp) => Built(sq) = Built(sp)
  <2>1. Method(sq) = Method(sp)
    BY <1>8 DEF Method
  <2> QED
    BY <1>8, <1>9, <2>1 DEF Built
<1> QED
  BY <1>1, <1>10, <1>11 DEF SpeculativeConfig, sp, sq, tp, tq

\* Two sets of arguments that differ at most in a length that is unset or zero.
Near(a, b) ==
  /\ IsArgs(a) /\ IsArgs(b)
  /\ \A f \in Fields : \/ a[f] = b[f]
                       \/ f \in Lengths /\ NothingOrZero(a, f) /\ NothingOrZero(b, f)

\* A field whose variable was cleaned away is converted to the same, or it was unset
\* anyway, or a zero length.
LEMMA ConvertClean ==
  ASSUME NEW f \in Fields, NEW text
  PROVE  LET c == Convert(f, text)
             d == Convert(f, CleanText(f, text))
         IN  \/ c = d
             \/ /\ DEFAULT_ARGS[f] = Skip /\ d = Skip
                /\ c = None \/ (f \in Lengths /\ c = Val("int", "0"))
<1> DEFINE c == Convert(f, text)
           d == Convert(f, CleanText(f, text))
<1>0. DOMAIN Types = Fields
  BY DEF Fields
<1>1. CASE ~Unset(f, text) \/ text = None
  <2>1. CleanText(f, text) = text
    BY <1>1 DEF CleanText
  <2> QED
    BY <2>1
<1>2. CASE Unset(f, text) /\ text # None
  <2>1. d = Skip
    BY <1>2 DEF CleanText, Convert
  <2>2. CASE text \in Blank /\ ~HidesDefault(f)
    <3>1. c = IF f \in Optional THEN None ELSE Skip
      BY <1>2, <2>2 DEF Convert
    <3>2. f \in Optional => DEFAULT_ARGS[f] = Skip
      BY <2>2 DEF HidesDefault
    <3> QED
      BY <2>1, <3>1, <3>2
  <2>3. CASE Types[f] = "int" /\ Malformed(text) /\ text \notin Blank
    <3>1. text \notin Numerals
      BY <2>3 DEF Malformed
    <3>2. c = Skip
      BY <1>2, <2>3, <3>1 DEF Convert
    <3> QED
      BY <2>1, <3>2
  <2>4. CASE text = "0" /\ f \in {"max_model_len", "max_num_batched_tokens"}
    <3>1. f \in Lengths /\ DEFAULT_ARGS[f] = Skip
      BY <2>4 DEF Lengths, DEFAULT_ARGS
    <3>2. Types[f] = "int"
      BY <2>4 DEF Types
    <3>3. c = Skip \/ c = Val("int", "0")
      BY <1>2, <2>4, <3>2 DEF Convert, Blank
    <3> QED
      BY <2>1, <3>1, <3>3
  <2>5. f \notin {"tokens", "ngram_max", "ngram_min"}
    BY FieldsNamed DEF FieldNames
  <2>6. "" \in Blank
    BY DEF Blank
  <2> QED
    BY <1>0, <1>2, <2>2, <2>3, <2>4, <2>5, <2>6 DEF Unset
<1> QED
  BY <1>1, <1>2

\* So the layers differ at most in such a length.
LEMMA MergedNear ==
  ASSUME NEW p \in PodType, NEW r
  PROVE  Near(Merged(p, r), Merged(Cleaned(p), r))
<1> DEFINE q == Cleaned(p)
<1>1. IsArgs(Merged(p, r)) /\ IsArgs(Merged(q, r))
  BY MergedIsArgs
<1>2. ASSUME NEW f \in Fields
      PROVE  \/ Merged(p, r)[f] = Merged(q, r)[f]
             \/ /\ f \in Lengths
                /\ NothingOrZero(Merged(p, r), f) /\ NothingOrZero(Merged(q, r), f)
  <2> DEFINE c == FromVariables(p)[f]
             d == FromVariables(q)[f]
             top(x) == Over(FromRecord(r), Over(FromAliases(x), Over(FromVariables(x), DEFAULT_ARGS)))[f]
  <2>1. c = Convert(f, p.vars[f]) /\ d = Convert(f, CleanText(f, p.vars[f]))
    BY CleanedIs DEF FromVariables
  <2>2. FromAliases(q) = FromAliases(p)
    BY CleanedIs DEF FromAliases
  <2>3. /\ Merged(p, r)[f] = IF f \notin Known \/ top(p) = Skip THEN None ELSE top(p)
        /\ Merged(q, r)[f] = IF f \notin Known \/ top(q) = Skip THEN None ELSE top(q)
    BY DEF Merged
  <2>4. \A x : top(x) = IF FromRecord(r)[f] # Skip THEN FromRecord(r)[f]
                        ELSE IF FromAliases(x)[f] # Skip THEN FromAliases(x)[f]
                        ELSE IF FromVariables(x)[f] # Skip THEN FromVariables(x)[f]
                        ELSE DEFAULT_ARGS[f]
    BY DEF Over
  <2>5. CASE c = d
    <3>1. top(p) = top(q)
      BY <2>2, <2>4, <2>5
    <3> HIDE DEF top
    <3> QED
      BY <2>3, <3>1
  <2>6. CASE /\ DEFAULT_ARGS[f] = Skip /\ d = Skip
             /\ c = None \/ (f \in Lengths /\ c = Val("int", "0"))
    <3>1. FromAliases(q)[f] = FromAliases(p)[f]
      BY <2>2
    <3>2. CASE FromRecord(r)[f] # Skip \/ FromAliases(p)[f] # Skip
      <4>1. top(p) = top(q)
        BY <2>4, <3>1, <3>2
      <4> HIDE DEF top
      <4> QED
        BY <2>3, <4>1
    <3>3. CASE FromRecord(r)[f] = Skip /\ FromAliases(p)[f] = Skip
      <4>1. top(p) = IF c # Skip THEN c ELSE Skip
        BY <2>4, <2>6, <3>1, <3>3
      <4>2. top(q) = Skip
        BY <2>4, <2>6, <3>1, <3>3
      <4> HIDE DEF top, c, d
      <4>3. Merged(q, r)[f] = None
        BY <2>3, <4>2
      <4>4. Merged(p, r)[f] = None \/ Merged(p, r)[f] = c
        BY <2>3, <4>1
      <4> QED
        BY <2>6, <4>3, <4>4 DEF NothingOrZero
    <3> QED
      BY <3>2, <3>3
  <2> QED
    BY <2>1, <2>5, <2>6, ConvertClean
<1> QED
  BY <1>1, <1>2 DEF Near

\* The same assignment on both sides.
LEMMA NearAssigned ==
  ASSUME NEW a, NEW b, Near(a, b), NEW g \in Fields, NEW v
  PROVE  Near([a EXCEPT ![g] = v], [b EXCEPT ![g] = v])
<1>1. /\ Only([a EXCEPT ![g] = v], a, {g}) /\ [a EXCEPT ![g] = v][g] = v
      /\ Only([b EXCEPT ![g] = v], b, {g}) /\ [b EXCEPT ![g] = v][g] = v
  BY Assigned DEF Near
<1> QED
  BY <1>1 DEF Near, Only, NothingOrZero

\* What is not a length is the same on both sides.
LEMMA NearSame ==
  ASSUME NEW a, NEW b, Near(a, b), NEW g \in Fields, g \notin Lengths
  PROVE  a[g] = b[g] /\ \A text : Has(a, g, text) <=> Has(b, g, text)
  BY DEF Near, Has

\* The limits are a dictionary, in which nothing counts as unset.
LEMMA LimitsNear ==
  ASSUME NEW a, NEW b, Near(a, b), NEW p \in PodType
  PROVE  Near(WithLimits(a, p), WithLimits(b, Cleaned(p)))
<1>1. /\ "limit_mm_per_prompt" \in Fields /\ Types["limit_mm_per_prompt"] = "dict"
      /\ "limit_mm_per_prompt" \notin Optional
  BY FieldsNamed DEF FieldNames, Types, Optional
<1>2. \A text : ~Unset("limit_mm_per_prompt", text)
  BY <1>1 DEF Unset
<1>3. Cleaned(p).vars["limit_mm_per_prompt"] = p.vars["limit_mm_per_prompt"]
  BY <1>1, <1>2, CleanedIs DEF CleanText
<1> QED
  BY <1>1, <1>3, NearAssigned DEF WithLimits

\* The override is judged by its text, which both sides share.
LEMMA OverridesNear ==
  ASSUME NEW a, NEW b, Near(a, b)
  PROVE  Near(WithOverrides(a), WithOverrides(b))
<1>1. "hf_overrides" \in Fields /\ "hf_overrides" \notin Lengths
  BY FieldsNamed DEF FieldNames, Lengths
<1>2. \A text : Has(a, "hf_overrides", text) <=> Has(b, "hf_overrides", text)
  BY <1>1, NearSame
<1>3. ~(Has(a, "hf_overrides", "rejected") /\ Has(a, "hf_overrides", "mixed"))
  BY DEF Has
<1>4. \A v : Near([a EXCEPT !["hf_overrides"] = v], [b EXCEPT !["hf_overrides"] = v])
  BY <1>1, NearAssigned
<1>5. CASE Has(a, "hf_overrides", "rejected")
  <2>1. /\ WithOverrides(a) = [a EXCEPT !["hf_overrides"] = None]
        /\ WithOverrides(b) = [b EXCEPT !["hf_overrides"] = None]
    BY <1>2, <1>3, <1>5, Zenon DEF WithOverrides
  <2> QED
    BY <1>4, <2>1
<1>6. CASE Has(a, "hf_overrides", "mixed")
  <2>1. /\ WithOverrides(a) = [a EXCEPT !["hf_overrides"] = Val("dict", "kept")]
        /\ WithOverrides(b) = [b EXCEPT !["hf_overrides"] = Val("dict", "kept")]
    BY <1>2, <1>3, <1>6, Zenon DEF WithOverrides
  <2> QED
    BY <1>4, <2>1
<1>7. CASE ~Has(a, "hf_overrides", "rejected") /\ ~Has(a, "hf_overrides", "mixed")
  <2>1. WithOverrides(a) = a /\ WithOverrides(b) = b
    BY <1>2, <1>7, Zenon DEF WithOverrides
  <2> QED
    BY <2>1
<1> QED
  BY <1>5, <1>6, <1>7

\* The load format is the same on both sides, and with it what it does to quantization.
LEMMA QuantizationNear ==
  ASSUME NEW a, NEW b, Near(a, b)
  PROVE  Near(WithQuantization(a), WithQuantization(b))
<1>1. /\ "load_format" \in Fields /\ "load_format" \notin Lengths
      /\ "quantization" \in Fields
  BY FieldsNamed DEF FieldNames, Lengths
<1> QED
  BY <1>1, NearSame, NearAssigned DEF WithQuantization

\* The number of GPUs is given to both sides alike.
LEMMA GpusNear ==
  ASSUME NEW a, NEW b, Near(a, b), NEW gpus
  PROVE  Near(WithGpus(a, gpus), WithGpus(b, gpus))
<1>1. "tensor_parallel_size" \in Fields /\ "max_parallel_loading_workers" \in Fields
  BY FieldsNamed DEF FieldNames
<1> DEFINE a1 == [a EXCEPT !["tensor_parallel_size"] = Val("int", gpus)]
           b1 == [b EXCEPT !["tensor_parallel_size"] = Val("int", gpus)]
<1>2. Near(a1, b1)
  BY <1>1, NearAssigned
<1>3. /\ WithGpus(a, gpus) = IF gpus \in {"0", "1"} THEN a
                             ELSE [a1 EXCEPT !["max_parallel_loading_workers"] = None]
      /\ WithGpus(b, gpus) = IF gpus \in {"0", "1"} THEN b
                             ELSE [b1 EXCEPT !["max_parallel_loading_workers"] = None]
  BY DEF WithGpus
<1> HIDE DEF a1, b1
<1> QED
  BY <1>1, <1>2, <1>3, NearAssigned

\* The cache type is judged by its text, which both sides share.
LEMMA CacheNear ==
  ASSUME NEW a, NEW b, Near(a, b)
  PROVE  Near(WithCache(a), WithCache(b))
<1>1. "kv_cache_dtype" \in Fields /\ "kv_cache_dtype" \notin Lengths
  BY FieldsNamed DEF FieldNames, Lengths
<1> QED
  BY <1>1, NearSame, NearAssigned DEF WithCache

\* The deprecated length to capture is no field that may be unset: both sides get it.
LEMMA CaptureNear ==
  ASSUME NEW a, NEW b, Near(a, b), NEW p \in PodType
  PROVE  Near(WithCapture(a, p), WithCapture(b, Cleaned(p)))
<1>1. "max_seq_len_to_capture" \in Fields
  BY FieldsNamed DEF FieldNames
<1>2. Cleaned(p).old_capture = p.old_capture
  BY CleanedIs
<1> QED
  BY <1>1, <1>2, NearAssigned DEF WithCapture

\* Clearing zeros makes the two the same.
LEMMA TokensSame ==
  ASSUME NEW a, NEW b, Near(a, b)
  PROVE  WithTokens(a) = WithTokens(b)
<1> DEFINE c(x) == ZeroCleared(ZeroCleared(x, "max_model_len"), "max_num_batched_tokens")
<1>1. \A x : IsArgs(x) =>
        /\ IsArgs(c(x))
        /\ \A f \in Fields : c(x)[f] = IF f \in Lengths /\ Has(x, f, "0") THEN None ELSE x[f]
  <2> SUFFICES ASSUME NEW x, IsArgs(x)
               PROVE  /\ IsArgs(c(x))
                      /\ \A f \in Fields :
                           c(x)[f] = IF f \in Lengths /\ Has(x, f, "0") THEN None ELSE x[f]
    OBVIOUS
  <2>0. "max_model_len" \in Fields /\ "max_num_batched_tokens" \in Fields
    BY FieldsNamed DEF FieldNames
  <2> DEFINE one == ZeroCleared(x, "max_model_len")
  <2>1. /\ IsArgs(one)
        /\ one["max_model_len"] = IF Has(x, "max_model_len", "0") THEN None ELSE x["max_model_len"]
        /\ \A f \in Fields \ {"max_model_len"} : one[f] = x[f]
    BY <2>0, Assigned DEF ZeroCleared, Only
  <2>2. c(x) = ZeroCleared(one, "max_num_batched_tokens")
    OBVIOUS
  <2> HIDE DEF one, c
  <2>3. Has(one, "max_num_batched_tokens", "0") <=> Has(x, "max_num_batched_tokens", "0")
    BY <2>0, <2>1 DEF Has
  <2>4. /\ IsArgs(c(x))
        /\ c(x)["max_num_batched_tokens"] =
             IF Has(x, "max_num_batched_tokens", "0") THEN None ELSE x["max_num_batched_tokens"]
        /\ \A f \in Fields \ {"max_num_batched_tokens"} : c(x)[f] = one[f]
    BY <2>0, <2>1, <2>2, <2>3, Assigned DEF ZeroCleared, Only
  <2> QED
    BY <2>1, <2>4 DEF Lengths
<1> HIDE DEF c
<1>2. ASSUME NEW f \in Fields PROVE c(a)[f] = c(b)[f]
  <2>1. IsArgs(a) /\ IsArgs(b)
    BY DEF Near
  <2>2. /\ c(a)[f] = IF f \in Lengths /\ Has(a, f, "0") THEN None ELSE a[f]
        /\ c(b)[f] = IF f \in Lengths /\ Has(b, f, "0") THEN None ELSE b[f]
    BY <1>1, <2>1
  <2>3. CASE a[f] = b[f]
    BY <2>2, <2>3 DEF Has
  <2>4. CASE f \in Lengths /\ NothingOrZero(a, f) /\ NothingOrZero(b, f)
    <3>1. Val("int", "0").text = "0"
      BY DEF Val
    <3>2. c(a)[f] = None
      BY <2>2, <2>4, <3>1 DEF Has, NothingOrZero
    <3>3. c(b)[f] = None
      BY <2>2, <2>4, <3>1 DEF Has, NothingOrZero
    <3> QED
      BY <3>2, <3>3
  <2> QED
    BY <2>3, <2>4 DEF Near
<1>3. c(a) = c(b)
  <2>1. IsArgs(c(a)) /\ IsArgs(c(b))
    BY <1>1 DEF Near
  <2> QED
    BY <1>2, <2>1 DEF IsArgs
<1>4. \A x : WithTokens(x) = IF c(x)["max_num_batched_tokens"] # None THEN c(x)
                             ELSE [c(x) EXCEPT !["max_num_batched_tokens"] = Length(c(x))]
  BY DEF WithTokens, c
<1> QED
  BY <1>3, <1>4

\* Cleaning a configuration does not change what the engine is started with.
LEMMA CleanedSame ==
  ASSUME NEW p \in PodType, NEW r, NEW gpus
  PROVE  GetEngineArgs(Cleaned(p), r, gpus) = GetEngineArgs(p, r, gpus)
<1> DEFINE q == Cleaned(p)
<1>1. Near(Loaded(p, r), Loaded(q, r))
  <2> DEFINE m == Merged(p, r)
             n == Merged(q, r)
  <2>1. Near(m, n)
    BY MergedNear
  <2> HIDE DEF m, n
  <2>2. Near(WithLimits(m, p), WithLimits(n, q))
    BY <2>1, LimitsNear
  <2>3. Near(WithOverrides(WithLimits(m, p)), WithOverrides(WithLimits(n, q)))
    BY <2>2, OverridesNear
  <2>4. Near(WithQuantization(WithOverrides(WithLimits(m, p))),
             WithQuantization(WithOverrides(WithLimits(n, q))))
    BY <2>3, QuantizationNear
  <2> QED
    BY <2>4 DEF Loaded, m, n
<1>2. Near(Placed(p, r, gpus), Placed(q, r, gpus))
  <2> DEFINE m == Loaded(p, r)
             n == Loaded(q, r)
  <2> HIDE DEF m, n
  <2>1. Near(WithGpus(m, gpus), WithGpus(n, gpus))
    BY <1>1, GpusNear DEF m, n
  <2>2. Near(WithCache(WithGpus(m, gpus)), WithCache(WithGpus(n, gpus)))
    BY <2>1, CacheNear
  <2>3. Near(WithCapture(WithCache(WithGpus(m, gpus)), p),
             WithCapture(WithCache(WithGpus(n, gpus)), q))
    BY <2>2, CaptureNear
  <2> QED
    BY <2>3 DEF Placed, m, n
<1>3. WithTokens(Placed(p, r, gpus)) = WithTokens(Placed(q, r, gpus))
  BY <1>2, TokensSame
<1>4. \A a : Finished(a, q) = Finished(a, p)
  <2>1. q.old_backend = p.old_backend /\ q.old_disable_log = p.old_disable_log
    BY CleanedIs
  <2>2. SpeculativeConfig(q) = SpeculativeConfig(p)
    BY SpeculationSame
  <2> HIDE DEF q
  <2>3. \A a : WithBackend(a, q) = WithBackend(a, p)
    BY <2>1 DEF WithBackend
  <2>4. \A a : WithLogging(a, q) = WithLogging(a, p)
    BY <2>1 DEF WithLogging
  <2>5. \A a : WithSpeculation(a, q) = WithSpeculation(a, p)
    BY <2>2 DEF WithSpeculation
  <2> QED
    BY <2>3, <2>4, <2>5 DEF Finished
<1> QED
  BY <1>3, <1>4, InSteps

(***************************************************************************)
(* The boots of a deployment.                                              *)
(***************************************************************************)
\* The record that an engine is started with once there is one.
Used == IF image.entry = "handler" THEN image.record ELSE volume

\* What the pod's engine is started with by that record.
Settled == GetEngineArgs(ProcessPod, Used, pod.gpus)

\* ensure_model would not change the volume any more, or is not called.
Recorded == image.entry = "handler" \/ volume # NoRecord \/ Written = NoRecord

\* Where they are set, the names are those of repositories.
NamesSet(alias) ==
  /\ alias["model"] \in DOMAIN PathOf \cup {None}
  /\ alias["tokenizer"] \in DOMAIN PathOf \cup {"", None}

\* The inductive invariant.  The record that the first boot reads is the one that the
\* later ones find: the server's is on the volume before anything reads it, and the
\* handler's stays in the image.
BInv ==
  /\ pod \in PodType /\ NamesSet(pod.alias) /\ volume \in Records
  /\ image \in [entry : {"server", "handler"}, record : Records]
  /\ image.entry = "handler" => private = image.record
  /\ pc \in {"ensured", "up", "failed"} => private = Used /\ Recorded
  /\ pc = "up" => args = Settled
  /\ before # NoArgs => before = Settled /\ Recorded

\* An empty record is a record.
LEMMA NoRecordType == NoRecord \in Records
  BY DEF NoRecord, Records, MaybeTexts

\* So is what is written after a download.
LEMMA WrittenType ==
  ASSUME pod \in PodType, NamesSet(pod.alias)
  PROVE  Written \in Records
<1> DEFINE name == IF pod.alias["model"] = None THEN DefaultModel ELSE pod.alias["model"]
           rev  == Else(pod.alias["revision"], None)
           model == PathOf[name]
           tokenizer == PathOf[Else(pod.alias["tokenizer"], name)]
           trev == Else(pod.vars["tokenizer_revision"], rev)
<1>1. /\ {"model", "tokenizer", "revision"} \subseteq Aliased
      /\ {"model", "tokenizer", "revision", "tokenizer_revision"} \subseteq Fields
      /\ {"model", "tokenizer", "revision", "tokenizer_revision"} \subseteq RecordFields
  BY FieldsNamed DEF Aliased, FieldNames, RecordFields
<1>2. name \in DOMAIN PathOf
  BY PathOfAssumption DEF NamesSet, DefaultModel
<1>3. Else(pod.alias["tokenizer"], name) \in DOMAIN PathOf
  BY <1>2 DEF NamesSet, Else, Given
<1>4. model \in MaybeTexts /\ tokenizer \in MaybeTexts
  BY <1>2, <1>3, PathOfAssumption DEF MaybeTexts
<1>5. rev \in MaybeTexts
  BY <1>1 DEF PodType, Else, MaybeTexts
<1>6. trev \in MaybeTexts
  BY <1>1, <1>5 DEF PodType, Else
<1>7. Written = [NoRecord EXCEPT !["model"] = model, !["revision"] = rev,
                                 !["tokenizer"] = tokenizer, !["tokenizer_revision"] = trev]
  BY DEF Written
<1> HIDE DEF name, rev, model, tokenizer, trev
<1> QED
  BY <1>1, <1>4, <1>5, <1>6, <1>7 DEF NoRecord, Records, MaybeTexts

\* The environment that the server prepares is one of a pod.
LEMMA ProcessPodType ==
  ASSUME pod \in PodType, volume \in Records
  PROVE  /\ ProcessPod \in PodType
         /\ ProcessPod.vars = pod.vars
<1>1. "model" \in Fields /\ "tokenizer" \in Fields
  BY FieldsNamed DEF FieldNames
<1>2. \A f \in {"model", "tokenizer"} : Else(volume[f], pod.alias[f]) \in MaybeTexts
  BY <1>1 DEF PodType, Records, Else, Aliased
<1>3. {"model", "tokenizer"} \subseteq Aliased
  BY DEF Aliased
<1> QED
  BY <1>2, <1>3 DEF ProcessPod, PodType

\* Before the first boot nothing is claimed.
LEMMA InitBInv == Init => BInv
<1> SUFFICES ASSUME Init PROVE BInv
  OBVIOUS
<1>0. image \in [entry : {"server", "handler"}, record : Records]
  <2>1. {NoRecord} \cup BakedRecords \subseteq Records
    BY NoRecordType, BakedRecordsAssumption DEF Records
  <2> QED
    BY <2>1 DEF Init
<1>1. pod \in PodType /\ NamesSet(pod.alias)
  BY PodsAssumption, NamesAssumption DEF Init, PodType, NamesSet
<1>2. volume \in Records
  BY NoRecordType DEF Init
<1> QED
  BY <1>0, <1>1, <1>2 DEF Init, BInv

\* The volume and what depends on it stay as they are once there is a record.
LEMMA EnsureSettles == EnsureModel => Recorded' /\ (Recorded => volume' = volume)
  BY DEF EnsureModel, Recorded, Written

\* Every step keeps the invariant.
LEMMA NextBInv == BInv /\ [Next]_vars => BInv'
<1> SUFFICES ASSUME BInv, [Next]_vars PROVE BInv'
  OBVIOUS
<1>1. CASE EnsureModel
  <2>1. Recorded'
    BY <1>1, EnsureSettles
  <2>2. before # NoArgs => Settled' = Settled
    <3> SUFFICES ASSUME before # NoArgs PROVE Settled' = Settled
      OBVIOUS
    <3>1. volume' = volume /\ pod' = pod
      BY <1>1, EnsureSettles DEF BInv, EnsureModel
    <3> QED
      BY <1>1, <3>1 DEF EnsureModel, Settled, ProcessPod, Used
  <2>3. pod' \in PodType /\ NamesSet(pod'.alias) /\ volume' \in Records
    BY <1>1, WrittenType DEF EnsureModel, BInv
  <2> QED
    BY <1>1, <2>1, <2>2, <2>3 DEF EnsureModel, BInv, NoArgs, NoRecord, NamesSet, Used
<1>2. CASE StartEngine
  <2>1. Settled' = Settled /\ (Recorded => Recorded')
    BY <1>2 DEF StartEngine, Settled, ProcessPod, Recorded, Written, Used
  <2>2. private = Used /\ Recorded
    BY <1>2 DEF StartEngine, BInv, Used, Recorded
  <2>3. pc' = "up" => args' = Settled
    BY <1>2, <2>2 DEF StartEngine, Settled
  <2> QED
    BY <1>2, <2>1, <2>2, <2>3 DEF StartEngine, BInv, NoArgs, NoRecord, Used
<1>3. CASE Resume
  <2>1. Settled' = Settled /\ (Recorded => Recorded')
    BY <1>3 DEF Resume, Settled, ProcessPod, Recorded, Written, Used
  <2> QED
    BY <1>3, <2>1 DEF Resume, BInv, NoArgs, NoRecord
<1>4. CASE Redeploy
  <2>1. PICK alias \in Deployments : pod' = [pod EXCEPT !.alias = alias]
    BY <1>4 DEF Redeploy
  <2>2. pod' \in PodType /\ pod'.alias = alias
    BY <2>1, DeploymentsAssumption DEF BInv, PodType
  <2>3. NamesSet(pod'.alias)
    BY <2>2, NamesAssumption DEF NamesSet
  <2> QED
    BY <1>4, <2>2, <2>3 DEF Redeploy, BInv, NoArgs, NoRecord, NamesSet
<1>5. CASE UNCHANGED vars
  <2>1. Settled' = Settled /\ (Recorded => Recorded')
    BY <1>5 DEF vars, Settled, ProcessPod, Recorded, Written, Used
  <2> QED
    BY <1>5, <2>1 DEF vars, BInv, NoArgs, NoRecord, Used
<1> QED
  BY <1>1, <1>2, <1>3, <1>4, <1>5 DEF Next

\* The invariant holds of every reachable state.
LEMMA BInvHolds == Spec => []BInv
  BY InitBInv, NextBInv, PTL DEF Spec

\* A pod that is stopped and resumed starts its engine exactly as before, although the
\* server's first boot takes its names from the environment and later ones from the
\* record: for every configuration, every baked record, every way to convert and adjust.
THEOREM RebootsAgree == Spec => []RebootAgrees
<1>1. BInv => RebootAgrees
  BY DEF BInv, RebootAgrees
<1> QED
  BY <1>1, BInvHolds, PTL

\* The record keeps the last word on every field that it names, whatever the variables of
\* this or a later deployment say; only a load format that implies a quantization wins.
THEOREM RecordHasLastWord == Spec => []RecordWins
<1>1. BInv => RecordWins
  <2> SUFFICES ASSUME BInv, pc = "up", NEW f \in Fields, private[f] \notin {"", "None", None}
               PROVE  \/ args[f] = Val("str", private[f])
                      \/ f = "quantization" /\ Has(args, "load_format", "bitsandbytes")
    BY DEF RecordWins
  <2>1. private \in Records /\ args = GetEngineArgs(ProcessPod, private, pod.gpus)
    BY DEF BInv, Settled, Used
  <2> QED
    BY <2>1, RecordStays
<1> QED
  BY <1>1, BInvHolds, PTL

\* A pod whose template fills in every variable, but for the blanks that hide a default,
\* starts the same engine as one that sets only what it means.
THEOREM NoiseChangesNothing == Spec => []NoiseIsIgnored
<1>1. BInv => NoiseIsIgnored
  <2> SUFFICES ASSUME BInv, pc = "up" PROVE NoiseIsIgnored
    BY DEF NoiseIsIgnored
  <2>1. /\ pod \in PodType /\ ProcessPod \in PodType
        /\ args = GetEngineArgs(ProcessPod, private, pod.gpus)
    BY ProcessPodType DEF BInv, Settled
  <2>2. GetEngineArgs(Cleaned(ProcessPod), private, pod.gpus) = args
    BY <2>1, CleanedSame
  <2>3. SpeculativeConfig(Cleaned(pod)) = SpeculativeConfig(pod)
    BY <2>1, SpeculationSame
  <2> QED
    BY <2>2, <2>3 DEF NoiseIsIgnored
<1> QED
  BY <1>1, BInvHolds, PTL

\* A batch has room for the longest prompt, for every model and every configuration.
THEOREM TokensFollow == Spec => []TokensFollowLength
<1>1. BInv => TokensFollowLength
  <2> SUFFICES ASSUME BInv, pc = "up" PROVE TokensFollowLength
    BY DEF TokensFollowLength
  <2>1. /\ ProcessPod \in PodType /\ ProcessPod.vars = pod.vars /\ Used \in Records
        /\ args = GetEngineArgs(ProcessPod, Used, pod.gpus)
    BY ProcessPodType DEF BInv, Settled, Used
  <2>2. ProcessPod.vars[Tokens] \in MaybeTexts
    BY <2>1, FieldsNamed DEF PodType, FieldNames, Tokens
  <2>3. /\ args["max_model_len"] # None /\ SaysNothing(pod.vars[Tokens])
             => args[Tokens] = args["max_model_len"]
        /\ args[Tokens] = None
             => /\ SaysNothing(pod.vars[Tokens])
                /\ args["model"] = None \/ args["model"].text \notin DOMAIN LengthOf
    BY <2>1, <2>2, ArgumentsFollow
  <2> QED
    BY <2>3 DEF TokensFollowLength, SaysNothing, Tokens
<1> QED
  BY <1>1, BInvHolds, PTL

\* What is built from the speculation variables can run, whatever they hold.
THEOREM GuessedSpeculationRuns == Spec => []SpeculationCanRun
<1>1. SpeculationCanRun
  <2> SUFFICES ASSUME SpeculativeConfig(pod) # None, ~Given(pod.vars["speculative_config"]),
                      ~Given(pod.spec["method"])
               PROVE  LET c == SpeculativeConfig(pod)
                      IN  /\ (c.method = "ngram") = (c.model = None)
                          /\ c.method = "ngram" => c.prompt_lookup_max # None
    BY DEF SpeculationCanRun
  <2> DEFINE s == pod.spec
  <2>1. Requested(s) /\ SpeculativeConfig(pod) = Built(s)
    BY DEF SpeculativeConfig
  <2> HIDE DEF s
  <2>2. ~Given(s.method) /\ (Given(s.model) \/ Count(s.ngram_max) # None)
    BY <2>1 DEF Requested, s
  <2>3. /\ Built(s).method = Method(s) /\ Built(s).prompt_lookup_max = Count(s.ngram_max)
        /\ Built(s).model = IF Given(s.model) THEN s.model ELSE None
    BY DEF Built
  <2>4. CASE Given(s.model)
    <3>1. Method(s) = Family(s.model) /\ Family(s.model) # "ngram"
      BY <2>2, <2>4 DEF Method, Family
    <3>2. Built(s).model # None
      BY <2>3, <2>4 DEF Given
    <3> QED
      BY <2>1, <2>3, <3>1, <3>2
  <2>5. CASE ~Given(s.model)
    <3>1. Method(s) = "ngram"
      BY <2>2, <2>5 DEF Method
    <3> QED
      BY <2>1, <2>2, <2>3, <2>5, <3>1
  <2> QED
    BY <2>4, <2>5
<1> QED
  BY <1>1, PTL
=============================================================================
