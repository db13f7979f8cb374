---------------------------- MODULE ChunkStream ----------------------------
(***************************************************************************)
(* One streamed answer of the OpenAI routes, from vLLM's chunks to the     *)
(* client's server-sent events: two generators, one gathering chunks into  *)
(* batches that grow, one turning batches into events, run in turns as the *)
(* client reads.  In raw mode a batch is one event with the chunks joined. *)
(* vLLM is external: it yields chunks, the last one "[DONE]", or raises.   *)
(***************************************************************************)
EXTENDS Integers, Sequences, SequencesExt, Growth

CONSTANTS
  Settings,   \* the batch settings to consider: [max, min, factor]
  MaxChunks   \* the most chunks vLLM yields before its "[DONE]"

ASSUME SettingsAssumption == Settings \subseteq [max : Int, min : Int, factor : Int]
ASSUME MaxChunksAssumption == MaxChunks \in Nat

VARIABLES
  raw,      \* raw_openai_output, never changed
  setting,  \* default_batch_size, min_batch_size, batch_size_growth_factor
  source,   \* history: the chunks vLLM has yielded
  due,      \* history: those of them that the client should get
  batch,    \* chunks gathered and not yet handed over
  size,     \* current_batch_size
  lens,     \* history: the lengths of the batches handed over
  out,      \* the events of the batch handed over, still to be sent
  sent,     \* the chunks and markers the client has received
  pc        \* where the stream is

vars == <<raw, setting, source, due, batch, size, lens, out, sent, pc>>

\* A chunk is text, text that happens to contain "[DONE]", or vLLM's own "[DONE]".
\* The server's own marker and its error event have number 0.
Kinds    == {"text", "quoting", "done"}
Chunk(k) == [n |-> Len(source) + 1, kind |-> k]
Done     == [n |-> 0, kind |-> "done"]
Error    == [n |-> 0, kind |-> "error"]

(***************************************************************************)
(* BatchSize.                                                              *)
(***************************************************************************)
IsDynamic == setting.factor > 1 /\ setting.min >= 1 /\ setting.max > setting.min

FirstSize == IF IsDynamic THEN setting.min ELSE setting.max

\* Mutant: the product is not capped.
NextSizeUncapped(n) == IF IsDynamic THEN n * setting.factor ELSE n

\* Mutant: the size grows by steps.
NextSizeAdded(n) ==
  IF IsDynamic /\ n + setting.factor < setting.max THEN n + setting.factor ELSE setting.max

NextSize(n) ==
  IF IsDynamic /\ n * setting.factor < setting.max THEN n * setting.factor ELSE setting.max

(***************************************************************************)
(* _handle_chat_or_completion_request.                                     *)
(***************************************************************************)

\* The loop skips whatever contains "[DONE]", unless chunks go out unread.
Kept(chunk) == raw \/ chunk.kind = "text"

\* Joined in raw mode, one by one otherwise.
Events(chunks) == IF raw THEN <<chunks>> ELSE [i \in DOMAIN chunks |-> <<chunks[i]>>]

\* The request is refused, by its own validation or by vLLM, or raises before the
\* first chunk: an error event and no "[DONE]".
Reject ==
  /\ pc = "start"
  /\ out' = <<<<Error>>>>
  /\ pc' = "ending"
  /\ UNCHANGED <<raw, setting, source, due, batch, size, lens, sent>>

Open ==
  /\ pc = "start"
  /\ size' = FirstSize
  /\ pc' = "reading"
  /\ UNCHANGED <<raw, setting, source, due, batch, lens, out, sent>>

\* Mutant: the batch is not emptied when it is handed over.
TakeKeeping(chunk) ==
  LET full == Append(batch, chunk)
  IN  /\ batch' = full
      /\ IF Len(full) >= size
           THEN /\ out' = Events(full)
                /\ lens' = Append(lens, Len(full))
                /\ size' = NextSize(size)
           ELSE UNCHANGED <<out, lens, size>>

\* A kept chunk fills the batch, which is handed over once it has the current size.
Take(chunk) ==
  LET full == Append(batch, chunk)
  IN  IF Len(full) >= size
        THEN /\ batch' = <<>>
             /\ out' = Events(full)
             /\ lens' = Append(lens, Len(full))
             /\ size' = NextSize(size)
        ELSE /\ batch' = full
             /\ UNCHANGED <<out, lens, size>>

Ended == source # <<>> /\ Last(source).kind = "done"

\* The client has read everything, so the generator asks vLLM for the next chunk.
NextChunk ==
  /\ pc = "reading" /\ out = <<>> /\ ~Ended
  /\ \E k \in Kinds :
       /\ k = "done" \/ Len(source) < MaxChunks
       /\ source' = Append(source, Chunk(k))
       /\ IF Kept(Chunk(k))
            THEN due' = Append(due, Chunk(k)) /\ Take(Chunk(k))
            ELSE UNCHANGED <<due, batch, out, lens, size>>
  /\ UNCHANGED <<raw, setting, sent, pc>>

\* Mutant: the marker is sent only with a last batch.
SourceEndsUnmarked ==
  /\ pc = "reading" /\ out = <<>> /\ Ended
  /\ out' = IF batch = <<>> THEN <<>> ELSE Events(batch) \o <<<<Done>>>>
  /\ lens' = IF batch = <<>> THEN lens ELSE Append(lens, Len(batch))
  /\ batch' = <<>>
  /\ pc' = "ending"
  /\ UNCHANGED <<raw, setting, source, due, size, sent>>

\* vLLM's generator is exhausted: what is left is handed over, however short, and
\* _stream_response adds its own "[DONE]".
SourceEnds ==
  /\ pc = "reading" /\ out = <<>> /\ Ended
  /\ out' = (IF batch = <<>> THEN <<>> ELSE Events(batch)) \o <<<<Done>>>>
  /\ lens' = IF batch = <<>> THEN lens ELSE Append(lens, Len(batch))
  /\ batch' = <<>>
  /\ pc' = "ending"
  /\ UNCHANGED <<raw, setting, source, due, size, sent>>

(***************************************************************************)
(* _stream_response.                                                       *)
(***************************************************************************)

\* Mutant: the marker is sent in the finally clause.
SourceRaisesMarked ==
  /\ pc = "reading" /\ out = <<>> /\ ~Ended
  /\ batch' = <<>>
  /\ out' = <<<<Error>>, <<Done>>>>
  /\ pc' = "ending"
  /\ UNCHANGED <<raw, setting, source, due, size, lens, sent>>

\* vLLM raises: the batch in hand is lost, and the client gets the error instead.
SourceRaises ==
  /\ pc = "reading" /\ out = <<>> /\ ~Ended
  /\ batch' = <<>>
  /\ out' = <<<<Error>>>>
  /\ pc' = "ending"
  /\ UNCHANGED <<raw, setting, source, due, size, lens, sent>>

\* One event is yielded and the client takes it.
Send ==
  /\ pc \in {"reading", "ending"} /\ out # <<>>
  /\ sent' = sent \o Head(out)
  /\ out' = Tail(out)
  /\ pc' = IF pc = "ending" /\ Len(out) = 1 THEN "closed" ELSE pc
  /\ UNCHANGED <<raw, setting, source, due, batch, size, lens>>

\* The client goes away, and with it whatever it has not received.
Leave ==
  /\ pc \in {"start", "reading", "ending"}
  /\ pc' = "left"
  /\ UNCHANGED <<raw, setting, source, due, batch, size, lens, out, sent>>

Init ==
  /\ raw \in BOOLEAN
  /\ setting \in Settings
  /\ source = <<>>
  /\ due = <<>>
  /\ batch = <<>>
  /\ size = setting.max
  /\ lens = <<>>
  /\ out = <<>>
  /\ sent = <<>>
  /\ pc = "start"

Advance == Reject \/ Open \/ NextChunk \/ SourceEnds \/ SourceRaises \/ Send

Next == Advance \/ Leave

Spec == Init /\ [][Next]_vars

\* vLLM answers, and a client that stays reads.
FairSpec == Spec /\ WF_vars(Advance)

(***************************************************************************)
(* Properties.                                                             *)
(***************************************************************************)

\* Every variable holds a value of its kind, and the batch size its bounds.
TypeOK ==
  /\ raw \in BOOLEAN
  /\ setting \in Settings
  /\ \A i \in DOMAIN source : source[i].n = i /\ source[i].kind \in Kinds
  /\ IsDynamic => size \in setting.min .. setting.max
  /\ ~IsDynamic => size = setting.max
  /\ pc \in {"start", "reading", "ending", "closed", "left"}

\* The chunks and markers in some events: in raw mode there is at most a batch and a
\* marker, otherwise each is an event of its own.
Joined(events) ==
  IF ~raw THEN [i \in DOMAIN events |-> events[i][1]]
  ELSE IF events = <<>> THEN <<>>
  ELSE IF Len(events) = 1 THEN events[1] ELSE events[1] \o events[2]

\* Batching loses, repeats and reorders nothing: what was sent, is being sent and is
\* gathered makes up the chunks due so far; and whatever goes wrong, what the client
\* got is an initial part of them and, at most, markers after it.
NothingLost ==
  /\ pc = "reading" => (sent \o Joined(out)) \o batch = due
  /\ \A i \in DOMAIN sent :
       IF sent[i].n = 0 THEN \A j \in i..Len(sent) : sent[j].n = 0
                        ELSE i \in DOMAIN due /\ sent[i] = due[i]

\* A "[DONE]" promises a complete answer: no text comes after it, none is missing
\* before it, and no stream that failed ends with one.
DoneMeansComplete ==
  \A i \in DOMAIN sent : sent[i].kind = "done" =>
    /\ Ended
    /\ \A j \in i+1 .. Len(sent) : sent[j].kind = "done"
    /\ \A k \in DOMAIN due : due[k].kind # "done" => k < i /\ sent[k] = due[k]

\* configuration.md:114: batch sizes are min, min * factor, min * factor^2, ... up to the
\* maximum ("1, 3, 9, 27, 50, 50, 50, ..."), and the maximum when the settings cannot grow.
\* A maximum below one still sends one chunk at a time.
DocumentedSize(k) ==
  LET product == Grown(setting.min, setting.factor)[k - 1]
      size0   == IF IsDynamic /\ product < setting.max THEN product ELSE setting.max
  IN  IF size0 < 1 THEN 1 ELSE size0

\* Every batch has its documented length; only the last one may be shorter.
BatchesGrow ==
  /\ \A k \in 1 .. Len(lens) - 1 : lens[k] = DocumentedSize(k)
  /\ lens # <<>> => Last(lens) <= DocumentedSize(Len(lens))

\* A client that stays until the end is told how the stream ended.
StreamsEnd == <>(pc = "left" \/ (sent # <<>> /\ Last(sent) \in {Done, Error} /\ pc = "closed"))
=============================================================================
