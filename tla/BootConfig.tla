------------------------------ MODULE BootConfig ------------------------------
(***************************************************************************)
(* What the engine is started with, boot after boot.  The server's         *)
(* ensure_model leaves a record of the model on a volume and a copy of it  *)
(* in the container, and the server sets MODEL_NAME and TOKENIZER_NAME     *)
(* from the record; the serverless handler takes the record that its image *)
(* may carry.  Then get_engine_args reads variables and copy.  A pod is    *)
(* stopped and resumed with the same configuration, or deployed anew on    *)
(* the same volume.                                                        *)
(* ModelVolume says how the record and the files get there.                *)
(***************************************************************************)
EXTENDS EngineArgs

CONSTANTS
  Pods,         \* the configurations a pod may be created with
  Deployments,  \* the MODEL_NAME, TOKENIZER_NAME and MODEL_REVISION of later ones
  BakedRecords, \* the records that download_model.py may bake into an image
  PathOf        \* where a repository's snapshot is on the volume

\* The fields that download_model.py and ensure_model record; every vLLM has them.
RecordFields == {"model", "revision", "tokenizer", "tokenizer_revision", "quantization"}
MaybeTexts   == Texts \cup {None}

ASSUME KnownAssumption == RecordFields \cup {"max_model_len", "max_num_batched_tokens"} \subseteq Known
ASSUME PodsAssumption ==
  Pods \subseteq [vars : [Fields -> MaybeTexts], alias : [Aliased -> MaybeTexts],
                 spec : [SpecVariables -> MaybeTexts], gpus : Texts,
                 old_backend : MaybeTexts, old_disable_log : MaybeTexts, old_capture : MaybeTexts]
ASSUME DeploymentsAssumption == Deployments \subseteq [Aliased -> MaybeTexts]
\* MODEL_NAME and TOKENIZER_NAME, where they are set, name repositories.
ASSUME NamesAssumption ==
  \A alias \in Deployments \cup {p.alias : p \in Pods} :
    /\ alias["model"] \in DOMAIN PathOf \cup {None}
    /\ alias["tokenizer"] \in DOMAIN PathOf \cup {"", None}
ASSUME BakedRecordsAssumption ==
  \A r \in BakedRecords : r \in [Fields -> MaybeTexts] /\ \A f \in Fields \ RecordFields : r[f] = None
ASSUME PathOfAssumption ==
  "default" \in DOMAIN PathOf /\ \A name \in DOMAIN PathOf : PathOf[name] \in Texts

VARIABLES
  pod,      \* the pod's configuration
  image,    \* its image: the process it runs, and the record baked into it
  volume,   \* local_model_args.json under BASE_PATH: texts, all None if there is none
  private,  \* /local_model_args.json, which starts as the image has it
  pc,       \* where the boot is
  args,     \* what the engine was started with
  before    \* history: the same for the previous boot of this deployment

vars == <<pod, image, volume, private, pc, args, before>>

NoRecord == [f \in Fields |-> None]
NoArgs   == NoRecord

DefaultModel == "default"
Else(text, other) == IF Given(text) THEN text ELSE other

\* The record of a download.  The tokenizer goes by the model's name and revision
\* unless it has its own.
Written ==
  LET name == IF pod.alias["model"] = None THEN DefaultModel ELSE pod.alias["model"]
      rev  == Else(pod.alias["revision"], None)
  IN  [NoRecord EXCEPT !["model"] = PathOf[name],
                       !["revision"] = rev,
                       !["tokenizer"] = PathOf[Else(pod.alias["tokenizer"], name)],
                       !["tokenizer_revision"] = Else(pod.vars["tokenizer_revision"], rev)]

\* Mutant: the copy in the container is made after a download only.
EnsureModelUncopied ==
  /\ pc = "start" /\ image.entry = "server"
  /\ volume' = IF volume = NoRecord THEN Written ELSE volume
  /\ private' = IF volume = NoRecord THEN Written ELSE private
  /\ pc' = "ensured"
  /\ UNCHANGED <<pod, image, args, before>>

\* ensure_model: the record on the volume decides; without one the model is fetched.
EnsureModel ==
  /\ pc = "start" /\ image.entry = "server"
  /\ volume' = IF volume = NoRecord THEN Written ELSE volume
  /\ private' = volume'
  /\ pc' = "ensured"
  /\ UNCHANGED <<pod, image, args, before>>

\* The environment of the process: the server has set two names from the record.
ProcessPod ==
  IF image.entry = "handler" THEN pod
  ELSE [pod EXCEPT !.alias["model"] = Else(volume["model"], @),
                   !.alias["tokenizer"] = Else(volume["tokenizer"], @)]

\* vLLMEngine() begins with get_engine_args(); the handler calls it at once.
StartEngine ==
  /\ pc = IF image.entry = "handler" THEN "start" ELSE "ensured"
  /\ IF Raises(ProcessPod)
       THEN pc' = "failed" /\ UNCHANGED args
       ELSE pc' = "up" /\ args' = GetEngineArgs(ProcessPod, private, pod.gpus)
  /\ UNCHANGED <<pod, image, volume, private, before>>

\* The pod stops, at any moment, and is resumed: the container's disk starts afresh.
Resume ==
  /\ pc' = "start"
  /\ private' = image.record
  /\ args' = NoArgs
  /\ before' = IF pc = "up" THEN args ELSE before
  /\ UNCHANGED <<pod, image, volume>>

\* Another deployment mounts the volume.
Redeploy ==
  /\ \E alias \in Deployments : pod' = [pod EXCEPT !.alias = alias]
  /\ pc' = "start"
  /\ private' = image.record
  /\ args' = NoArgs
  /\ before' = NoArgs
  /\ UNCHANGED <<image, volume>>

Init ==
  /\ pod \in Pods
  /\ image \in [entry : {"server", "handler"}, record : {NoRecord} \cup BakedRecords]
  /\ volume = NoRecord
  /\ private = image.record
  /\ pc = "start"
  /\ args = NoArgs
  /\ before = NoArgs

Next == EnsureModel \/ StartEngine \/ Resume \/ Redeploy

Spec == Init /\ [][Next]_vars

(***************************************************************************)
(* Properties.                                                             *)
(***************************************************************************)

\* Stopping and resuming a pod changes nothing that its engine is started with,
\* although the first boot takes names from the environment and downloads, and later
\* ones take everything from the record that the first one left.
RebootAgrees == pc = "up" /\ before # NoArgs => args = before

\* conventions.md:47: the record is applied over the environment.  It keeps the last
\* word on every field that it names, through all the adjustments, whatever a later
\* deployment's variables say; only a load format that implies a quantization wins.
RecordWins ==
  pc = "up" =>
    \A f \in Fields :
      private[f] \notin {"", "None", None} =>
        \/ args[f] = Val("str", private[f])
        \/ f = "quantization" /\ Has(args, "load_format", "bitsandbytes")

\* The fields whose default is hidden by a variable that is set but blank.
HidesDefault(v) == v \in Optional /\ DEFAULT_ARGS[v] # Skip

\* The pod with everything taken out that counts as unset: numbers that are none,
\* zeros of the variables that a template sets to zero, and empty texts, but for the
\* blanks that hide a default.
Unset(v, text) ==
  \/ text = "" /\ v # "limit_mm_per_prompt" /\ ~HidesDefault(v)
  \/ v \in DOMAIN Types /\ Types[v] = "int" /\ Malformed(text)
       /\ ~(HidesDefault(v) /\ text \in Blank)
  \/ text = "0" /\ v \in {"max_model_len", "max_num_batched_tokens",
                          "tokens", "ngram_max", "ngram_min"}

Cleaned(p) ==
  [p EXCEPT !.vars = [v \in DOMAIN p.vars |-> IF Unset(v, p.vars[v]) THEN None ELSE p.vars[v]],
            !.spec = [v \in DOMAIN p.spec |-> IF Unset(v, p.spec[v]) THEN None ELSE p.spec[v]]]

\* engine_args.py:146 skips a variable that does not convert, and line 192 has "'0'
\* (hub.json default) ... treated as unset": a pod whose template fills in every
\* variable starts the same engine as one that sets only what it means.  Left out are
\* the blanks that hide a default of the worker.
NoiseIsIgnored ==
  pc = "up" => /\ args = GetEngineArgs(Cleaned(ProcessPod), private, pod.gpus)
               /\ SpeculativeConfig(pod) = SpeculativeConfig(Cleaned(pod))

\* engine_args.py:416: a batch has room for the longest prompt that the engine takes,
\* unless the operator set another number or nobody knows the length.
TokensFollowLength ==
  pc = "up" =>
    LET set  == pod.vars["max_num_batched_tokens"]
        free == ~Given(set) \/ set \in {"None", "none", "0"} \/ Malformed(set)
    IN  /\ args["max_model_len"] # None /\ free
             => args["max_num_batched_tokens"] = args["max_model_len"]
        /\ args["max_num_batched_tokens"] = None
             => free /\ (args["model"] = None \/ args["model"].text \notin DOMAIN LengthOf)

\* configuration.md:86: without SPECULATIVE_METHOD the method follows from the model's
\* name or the configuration.  So what is built can run: a draft method has a draft
\* model, a guessed ngram has a window, and the secondary variables alone ask for nothing.
SpeculationCanRun ==
  LET c == SpeculativeConfig(pod)
  IN  (c # None /\ ~Given(pod.vars["speculative_config"]) /\ ~Given(pod.spec["method"])) =>
        /\ (c.method = "ngram") = (c.model = None)
        /\ c.method = "ngram" => c.prompt_lookup_max # None
=============================================================================
