----------------------------- MODULE TokenStream -----------------------------
(***************************************************************************)
(* One job of the RunPod serverless entry point: handler.py picks an       *)
(* engine by the job's route; the native engine's _generate_vllm cuts the  *)
(* cumulative texts of several choices into pieces and hands them over in  *)
(* batches that grow.  A text is represented by its length, what is cut    *)
(* out of it by the numbers of its tokens.  The batches of OpenAI routes are *)
(* ChunkStream's; here such a job only succeeds or raises.  Jobs share     *)
(* nothing.  vLLM is external: each of its outputs has some of the choices,*)
(* grown by any number of tokens, and it may raise at any moment.          *)
(***************************************************************************)
EXTENDS Integers, Sequences, SequencesExt, Growth

CONSTANTS
  None,      \* a field the job does not have
  Jobs,      \* the jobs to consider; "factor" counts halves
  Defaults,  \* default_batch_size, min_batch_size, batch_size_growth_factor
  MaxText,   \* bound: the longest text of a choice
  MaxOutputs \* bound: the most outputs vLLM yields

ASSUME BoundsAssumption == {MaxText, MaxOutputs} \subseteq Nat
ASSUME DefaultsAssumption == Defaults \in [max : Int, min : Int, factor : Int]
ASSUME JobsAssumption ==
  \A j \in Jobs : j.n \in Nat /\ {j.max, j.min, j.factor} \subseteq Int \cup {None}

VARIABLES
  job,      \* the job's input
  pc,       \* "received", "open", "ended", or "exited" when the worker is gone
  text,     \* the text vLLM has produced for each choice
  pending,  \* the choices of the current output still to be looked at
  last,     \* last_output_texts
  batch,    \* what is gathered of each choice
  counter,  \* token_counters: batch and total
  size,     \* current_batch_size, a fraction
  heard,    \* history: what the client was handed of each choice
  handed    \* history: the pieces in each batch and the usage with it; errors

vars == <<job, pc, text, pending, last, batch, counter, size, heard, handed>>

\* n_responses
Indices    == 1..job.n
EmptyBatch == [i \in Indices |-> <<>>]
Error      == [kind |-> "error"]

(***************************************************************************)
(* BatchSize, with the job's settings or else the worker's.  Zero counts   *)
(* as not given.                                                           *)
(***************************************************************************)
Or(x, default) == IF x \in {None, 0} THEN default ELSE x

Setting == [max    |-> Or(job.max, Defaults.max),
            min    |-> Or(job.min, Defaults.min),
            factor |-> Or(job.factor, Defaults.factor)]

IsDynamic == Setting.factor > 2 /\ Setting.min >= 1 /\ Setting.max > Setting.min

FirstSize == [n |-> IF IsDynamic THEN Setting.min ELSE Setting.max, d |-> 1]

\* Mutant: the size is kept as an integer.
NextSizeTruncated(s) ==
  LET next == (s.n * Setting.factor) \div (s.d * 2)
  IN  IF ~IsDynamic THEN s ELSE [n |-> IF next < Setting.max THEN next ELSE Setting.max, d |-> 1]

\* Mutant: the product is not capped.
NextSizeUncapped(s) ==
  IF ~IsDynamic THEN s ELSE [n |-> s.n * Setting.factor, d |-> s.d * 2]

NextSize(s) ==
  IF ~IsDynamic THEN s
  ELSE IF s.n * Setting.factor < Setting.max * s.d * 2
    THEN [n |-> s.n * Setting.factor, d |-> s.d * 2]
    ELSE [n |-> Setting.max, d |-> 1]

Full(count) == count * size.d >= size.n

(***************************************************************************)
(* handler.                                                                *)
(***************************************************************************)

\* The except clause of handler: the worker exits if the text of the error mentions CUDA,
\* in capitals or not; any other error is handed over.
HandleError ==
  \/ pc' = "exited" /\ UNCHANGED handed
  \/ pc' = "ended" /\ handed' = Append(handed, Error)

\* JobInput raises: SamplingParams refuses what the job asks for.
RefuseJob ==
  /\ pc = "received"
  /\ HandleError
  /\ UNCHANGED <<job, text, pending, last, batch, counter, size, heard>>

\* The generator is started, by the engine that the route selects.
Begin ==
  /\ pc = "received"
  /\ pc' = "open"
  /\ size' = FirstSize
  /\ UNCHANGED <<job, text, pending, last, batch, counter, heard, handed>>

\* An OpenAI answer was passed on whole.
RelayOpenAI ==
  /\ pc = "open" /\ job.route = "openai"
  /\ pc' = "ended"
  /\ UNCHANGED <<job, text, pending, last, batch, counter, size, heard, handed>>

\* An exception of the OpenAI engine reaches the handler.
RaiseOpenAI ==
  /\ pc = "open" /\ job.route = "openai"
  /\ HandleError
  /\ UNCHANGED <<job, text, pending, last, batch, counter, size, heard>>

(***************************************************************************)
(* generate and _generate_vllm.                                            *)
(***************************************************************************)

\* vLLM's next output.  A choice may be in it without having grown.
NextOutput ==
  /\ pc = "open" /\ job.route = "native"
  /\ pending = {} /\ counter.total + job.n <= MaxOutputs
  /\ pending' \in SUBSET Indices \ {{}}
  /\ \E grown \in [pending' -> 0..2] :
       text' = [i \in Indices |-> text[i] + IF i \in pending' THEN grown[i] ELSE 0]
  /\ \A i \in Indices : text'[i] <= MaxText
  /\ UNCHANGED <<job, pc, last, batch, counter, size, heard, handed>>

Batch(count, output) == [kind |-> "batch", count |-> count, output |-> output]

Delivered(tokens) == [i \in Indices |-> heard[i] \o tokens[i]]

HandOver(tokens, count, output) ==
  /\ handed' = Append(handed, Batch(count, output))
  /\ heard' = Delivered(tokens)
  /\ batch' = EmptyBatch
  /\ size' = NextSize(size)

\* The tokens of a text after the first n.
After(n, length) == [j \in 1..(length - n) |-> n + j]

Gathered(i) ==
  IF job.stream THEN [batch EXCEPT ![i] = @ \o After(last[i], text[i])] ELSE batch

\* Mutant: a full batch goes out with the count of the outputs before it.
TakeUncounted(i) ==
  /\ pc = "open" /\ i \in pending
  /\ pending' = pending \ {i}
  /\ last' = [last EXCEPT ![i] = text[i]]
  /\ LET count == IF job.stream THEN counter.batch + 1 ELSE counter.batch
         full  == job.stream /\ Full(count)
     IN  /\ counter' = [batch |-> IF full THEN 0 ELSE count, total |-> counter.total + 1]
         /\ IF full THEN HandOver(Gathered(i), count, counter.total)
                    ELSE batch' = Gathered(i) /\ UNCHANGED <<heard, handed, size>>
  /\ UNCHANGED <<job, pc, text>>

\* Mutant: what was seen is not noted when a batch is full.
TakeUnseen(i) ==
  /\ pc = "open" /\ i \in pending
  /\ pending' = pending \ {i}
  /\ LET count == IF job.stream THEN counter.batch + 1 ELSE counter.batch
         full  == job.stream /\ Full(count)
     IN  /\ counter' = [batch |-> IF full THEN 0 ELSE count, total |-> counter.total + 1]
         /\ last' = IF full THEN last ELSE [last EXCEPT ![i] = text[i]]
         /\ IF full THEN HandOver(Gathered(i), count, counter.total + 1)
                    ELSE batch' = Gathered(i) /\ UNCHANGED <<heard, handed, size>>
  /\ UNCHANGED <<job, pc, text>>

\* One choice of the current output: when streaming, what is new in it is gathered,
\* and a batch that is full handed over.
Take(i) ==
  /\ pc = "open" /\ i \in pending
  /\ pending' = pending \ {i}
  /\ last' = [last EXCEPT ![i] = text[i]]
  /\ LET count == IF job.stream THEN counter.batch + 1 ELSE counter.batch
         full  == job.stream /\ Full(count)
     IN  /\ counter' = [batch |-> IF full THEN 0 ELSE count, total |-> counter.total + 1]
         /\ IF full THEN HandOver(Gathered(i), count, counter.total + 1)
                    ELSE batch' = Gathered(i) /\ UNCHANGED <<heard, handed, size>>
  /\ UNCHANGED <<job, pc, text>>

\* vLLM is done: the rest goes out, the whole texts if nothing was streamed.
SourceEnds ==
  /\ pc = "open" /\ job.route = "native" /\ pending = {}
  /\ LET count == IF job.stream THEN counter.batch ELSE 1
         rest  == IF job.stream THEN batch ELSE [i \in Indices |-> After(0, last[i])]
     IN  IF count > 0 THEN /\ handed' = Append(handed, Batch(count, counter.total))
                           /\ heard' = Delivered(rest)
                      ELSE UNCHANGED <<handed, heard>>
  /\ pc' = "ended"
  /\ UNCHANGED <<job, text, pending, last, batch, counter, size>>

\* The chat template or vLLM raises: generate turns any exception, a CUDA error too,
\* into one more batch, and the handler sees an answer that ended.
SourceRaises ==
  /\ pc = "open" /\ job.route = "native" /\ pending = {}
  /\ handed' = Append(handed, Error)
  /\ pc' = "ended"
  /\ UNCHANGED <<job, text, pending, last, batch, counter, size, heard>>

Init ==
  /\ job \in Jobs
  /\ pc = "received"
  /\ text = [i \in Indices |-> 0]
  /\ pending = {}
  /\ last = text
  /\ batch = EmptyBatch
  /\ counter = [batch |-> 0, total |-> 0]
  /\ size = FirstSize
  /\ heard = EmptyBatch
  /\ handed = <<>>

Next ==
  \/ RefuseJob \/ Begin \/ RelayOpenAI \/ RaiseOpenAI
  \/ NextOutput \/ SourceEnds \/ SourceRaises
  \/ \E i \in Indices : Take(i)

Spec == Init /\ [][Next]_vars

(***************************************************************************)
(* Properties.                                                             *)
(***************************************************************************)
Larger(a, b) == IF a < b THEN b ELSE a

\* Every variable holds a value of its kind and within its bound.
TypeOK ==
  /\ job \in Jobs
  /\ pc \in {"received", "open", "ended", "exited"}
  /\ text \in [Indices -> 0..MaxText]
  /\ last \in [Indices -> 0..MaxText]
  /\ pending \subseteq Indices
  /\ counter.total \in 0..MaxOutputs /\ counter.batch \in 0..Larger(1, Setting.max) - 1
  /\ size.d \in Nat /\ size.n <= Setting.max * size.d
  /\ DOMAIN batch = Indices /\ DOMAIN heard = Indices

Status ==
  IF pc \in {"received", "open"} THEN "open"
  ELSE IF pc = "exited" \/ (handed # <<>> /\ Last(handed) = Error) THEN "broken"
  ELSE "complete"

\* The choices of any job; those that this job does not ask for stay silent.
AllIndices == UNION {1..j.n : j \in Jobs}

Relay == INSTANCE AnswerRelay WITH
           Parts  <- AllIndices,
           said   <- [i \in AllIndices |-> IF i \in Indices THEN text[i] ELSE 0],
           heard  <- [i \in AllIndices |-> IF i \in Indices THEN heard[i] ELSE <<>>],
           status <- Status

\* Whatever the batch sizes, and however vLLM spreads the tokens of the choices over its
\* outputs, the job hears of each choice a growing prefix, and an answer that ends
\* without an error batch is whole.
ImplementsRelay == Relay!Spec

\* The usage that goes with a batch of a stream counts the pieces handed over so far:
\* those of that batch and what the batch before it said, and no more.  A client may
\* read it from the last batch it gets.
UsageCounts ==
  job.stream =>
    \A k \in DOMAIN handed :
      handed[k].kind = "batch" =>
        handed[k].output = handed[k].count + (IF k = 1 THEN 0 ELSE handed[k - 1].output)

\* The n pieces of the k-th batch are the least that reach its documented size,
\* min_batch_size * growth_factor^(k - 1) up to max_batch_size, fractional or not; one
\* piece where the maximum is not even that.
DocumentedCount(k, n) ==
  LET top   == Larger(1, Setting.max)
      grown == Grown(Setting.min, Setting.factor)[k - 1]
      unit  == Grown(1, 2)[k - 1]
  IN  IF IsDynamic THEN n <= top /\ (n - 1) * unit < grown /\ (n = top \/ n * unit >= grown)
                   ELSE n = top

\* configuration.md:114 and conventions.md:91: every batch of a stream has its documented
\* size, but for a last, short one.
DocumentedSizes ==
  job.stream =>
    \A k \in DOMAIN handed :
      handed[k].kind = "batch" =>
        \/ DocumentedCount(k, handed[k].count)
        \/ /\ k = Len(handed) /\ pc = "ended"
           /\ \E n \in handed[k].count .. Larger(1, Setting.max) : DocumentedCount(k, n)
=============================================================================
