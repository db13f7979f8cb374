-------------------------- MODULE ChunkStreamProofs --------------------------
(***************************************************************************)
(* Proofs about ChunkStream for any batch settings, both output modes and  *)
(* answers of any length: type correctness, that batching loses, repeats   *)
(* and reorders nothing, that a "[DONE]" promises a complete answer, and   *)
(* that the sizes of the batches are those that are documented.            *)
(***************************************************************************)
EXTENDS ChunkStream, GrowthProofs, SequenceTheorems, TLAPS

USE SettingsAssumption, MaxChunksAssumption

(***************************************************************************)
(* Sequences.                                                              *)
(***************************************************************************)
\* One more element at the end, whichever part it is thought to belong to.
LEMMA AppendToSecond ==
  ASSUME NEW S, NEW s \in Seq(S), NEW t \in Seq(S), NEW c \in S
  PROVE  s \o Append(t, c) = Append(s \o t, c)
<1>1. Append(t, c) = t \o <<c>> /\ Append(s \o t, c) = (s \o t) \o <<c>>
  BY AppendIsConcat, ConcatProperties
<1>2. <<c>> \in Seq(S)
  OBVIOUS
<1> QED
  BY <1>1, <1>2, ConcatAssociative

\* What is in a part is in the whole, in its place.
LEMMA FirstPart ==
  ASSUME NEW S, NEW s \in Seq(S), NEW t \in Seq(S)
  PROVE  /\ Len(s) \in Nat /\ Len(s \o t) \in Nat /\ Len(s) <= Len(s \o t)
         /\ \A i \in 1..Len(s) : s[i] = (s \o t)[i]
<1>1. /\ Len(s \o t) = Len(s) + Len(t)
      /\ \A i \in 1 .. Len(s) + Len(t) :
           (s \o t)[i] = IF i <= Len(s) THEN s[i] ELSE t[i - Len(s)]
  BY ConcatProperties
<1>2. Len(s) \in Nat /\ Len(t) \in Nat
  BY LenProperties
<1> QED
  BY <1>1, <1>2

\* A sequence of at most two elements, and what follows its first.
LEMMA ShortSeq ==
  ASSUME NEW S, NEW s \in Seq(S), Len(s) <= 2
  PROVE  \/ s = <<>>
         \/ s # <<>> /\ Len(s) = 1 /\ s[1] \in S /\ Tail(s) = <<>>
         \/ /\ s # <<>> /\ Len(s) = 2 /\ s[1] \in S /\ s[2] \in S
            /\ Tail(s) # <<>> /\ Len(Tail(s)) = 1 /\ Tail(s)[1] = s[2]
<1>1. Len(s) \in Nat /\ (s = <<>> => Len(s) = 0) /\ (s # <<>> => Len(s) # 0)
  BY EmptySeq, LenProperties
<1>2. s # <<>> => /\ Tail(s) \in Seq(S) /\ Len(Tail(s)) = Len(s) - 1
                  /\ \A i \in 1..Len(Tail(s)) : Tail(s)[i] = s[i + 1]
  BY HeadTailProperties
<1>3. \A t \in Seq(S) : Len(t) = 0 => t = <<>>
  BY EmptySeq
<1>4. CASE s # <<>> /\ Len(s) = 1
  <2>1. s[1] \in S
    BY <1>4, ElementOfSeq
  <2>2. Len(Tail(s)) = 0
    BY <1>2, <1>4
  <2>3. Tail(s) = <<>>
    BY <1>2, <1>3, <1>4, <2>2
  <2> QED
    BY <1>4, <2>1, <2>3
<1>5. CASE s # <<>> /\ Len(s) = 2
  <2>1. s[1] \in S /\ s[2] \in S
    BY <1>5, ElementOfSeq
  <2>2. Len(Tail(s)) = 1 /\ Tail(s)[1] = s[2]
    <3>1. Len(Tail(s)) = 1 /\ \A i \in 1..Len(Tail(s)) : Tail(s)[i] = s[i + 1]
      BY <1>2, <1>5
    <3>2. 1 \in 1..Len(Tail(s)) /\ 1 + 1 = 2
      BY <3>1
    <3>3. Tail(s)[1] = s[1 + 1]
      BY <3>1, <3>2, Zenon
    <3> QED
      BY <3>1, <3>2, <3>3, Zenon
  <2>3. Tail(s) # <<>>
    <3>1. Len(<<>>) = 0
      OBVIOUS
    <3>2. Len(Tail(s)) # 0
      BY <2>2
    <3> QED
      BY <3>1, <3>2, Zenon
  <2> QED
    BY <1>5, <2>1, <2>2, <2>3
<1>6. Len(s) \in Nat
  BY LenProperties
<1>7. Len(s) = 0 \/ Len(s) = 1 \/ Len(s) = 2
  <2>1. \A n \in Nat : n <= 2 => n = 0 \/ n = 1 \/ n = 2
    OBVIOUS
  <2> QED
    BY <1>6, <2>1, Zenon
<1> QED
  BY <1>1, <1>4, <1>5, <1>7, Zenon

\* The sequence of one element.
LEMMA Single == \A c : Len(<<c>>) = 1 /\ <<c>>[1] = c
  OBVIOUS

(***************************************************************************)
(* Type correctness.                                                       *)
(***************************************************************************)
Chunks == [n : Nat, kind : Kinds \cup {"error"}]

\* Everything on the way is made of chunks; in raw mode a batch is one event, otherwise
\* each event is a single chunk.
Shape ==
  /\ source \in Seq(Chunks) /\ due \in Seq(Chunks)
  /\ batch \in Seq(Chunks) /\ sent \in Seq(Chunks)
  /\ lens \in Seq(Nat)
  /\ out \in Seq(Seq(Chunks))
  /\ IF raw THEN Len(out) <= 2 ELSE \A i \in DOMAIN out : out[i] = <<out[i][1]>>

TInv == TypeOK /\ Shape

\* An event that is a single chunk is the event of that chunk.
LEMMA SingleEvent == \A event, chunk : event = <<chunk>> => event = <<event[1]>>
  OBVIOUS

\* The settings are numbers.
LEMMA SettingType ==
  ASSUME setting \in Settings
  PROVE  setting.max \in Int /\ setting.min \in Int /\ setting.factor \in Int
  OBVIOUS

\* A chunk is one, and so are the markers.
LEMMA ChunkType ==
  ASSUME source \in Seq(Chunks)
  PROVE  /\ \A k \in Kinds : Chunk(k) \in Chunks /\ Chunk(k).n = Len(source) + 1 /\ Chunk(k).kind = k
         /\ Done \in Chunks /\ Error \in Chunks
  BY DEF Chunk, Chunks, Kinds, Done, Error

\* The first size is within its bounds.
LEMMA FirstSizeType ==
  ASSUME setting \in Settings
  PROVE  /\ IsDynamic => FirstSize \in setting.min .. setting.max
         /\ ~IsDynamic => FirstSize = setting.max
  BY SettingType DEF FirstSize, IsDynamic

\* A size that grows stays within its bounds.
LEMMA NextSizeType ==
  ASSUME setting \in Settings,
         IsDynamic => size \in setting.min .. setting.max,
         ~IsDynamic => size = setting.max
  PROVE  /\ IsDynamic => NextSize(size) \in setting.min .. setting.max
         /\ ~IsDynamic => NextSize(size) = setting.max
<1>1. setting.max \in Int /\ setting.min \in Int /\ setting.factor \in Int
  BY SettingType
<1>2. CASE IsDynamic /\ size * setting.factor < setting.max
  <2>1. size \in Nat /\ setting.factor >= 2 /\ setting.min <= size
    BY <1>1, <1>2 DEF IsDynamic
  <2>2. size * setting.factor = size + size * (setting.factor - 1)
    BY <1>1, <2>1
  <2>3. size * (setting.factor - 1) \in Nat
    BY <1>1, <2>1
  <2>4. NextSize(size) = size * setting.factor
    BY <1>2 DEF NextSize
  <2> QED
    BY <1>1, <1>2, <2>1, <2>2, <2>3, <2>4
<1>3. CASE ~(IsDynamic /\ size * setting.factor < setting.max)
  BY <1>1, <1>3 DEF NextSize, IsDynamic
<1> QED
  BY <1>2, <1>3

\* The events of some chunks.
LEMMA EventsShape ==
  ASSUME NEW chunks \in Seq(Chunks)
  PROVE  /\ Events(chunks) \in Seq(Seq(Chunks))
         /\ raw => /\ Len(Events(chunks)) = 1 /\ Len(Events(chunks)) <= 2
                   /\ Events(chunks)[1] = chunks
         /\ ~raw => /\ DOMAIN Events(chunks) = DOMAIN chunks
                    /\ Len(Events(chunks)) = Len(chunks)
                    /\ \A i \in DOMAIN chunks : Events(chunks)[i] = <<chunks[i]>>
<1>1. CASE raw
  BY <1>1 DEF Events
<1>2. CASE ~raw
  <2>1. Events(chunks) = [i \in 1..Len(chunks) |-> <<chunks[i]>>]
    BY <1>2 DEF Events
  <2>2. \A i \in 1..Len(chunks) : <<chunks[i]>> \in Seq(Chunks)
    OBVIOUS
  <2>3. Events(chunks) \in Seq(Seq(Chunks)) /\ Len(Events(chunks)) = Len(chunks)
    BY <2>1, <2>2
  <2> QED
    BY <1>2, <2>1, <2>3
<1> QED
  BY <1>1, <1>2

\* The events of a last batch, and a marker after them.
LEMMA LastEventsShape ==
  ASSUME NEW chunks \in Seq(Chunks), NEW marker \in Chunks
  PROVE  LET events == (IF chunks = <<>> THEN <<>> ELSE Events(chunks)) \o <<<<marker>>>> IN
         /\ events \in Seq(Seq(Chunks))
         /\ raw => Len(events) <= 2
         /\ ~raw => /\ Len(events) = Len(chunks) + 1
                    /\ \A i \in 1..Len(chunks) : events[i] = <<chunks[i]>>
                    /\ events[Len(chunks) + 1] = <<marker>>
         /\ raw /\ chunks = <<>> => Len(events) = 1 /\ events[1] = <<marker>>
         /\ raw /\ chunks # <<>> =>
              Len(events) = 2 /\ events[1] = chunks /\ events[2] = <<marker>>
<1> DEFINE front  == IF chunks = <<>> THEN <<>> ELSE Events(chunks)
           last   == <<<<marker>>>>
           events == front \o last
<1>1. front \in Seq(Seq(Chunks))
  BY EventsShape
<1>2. last \in Seq(Seq(Chunks)) /\ Len(last) = 1 /\ last[1] = <<marker>>
  OBVIOUS
<1> HIDE DEF last
<1>3. /\ raw => Len(front) = IF chunks = <<>> THEN 0 ELSE 1
      /\ raw /\ chunks # <<>> => front[1] = chunks
      /\ ~raw => Len(front) = Len(chunks) /\ \A i \in 1..Len(chunks) : front[i] = <<chunks[i]>>
  <2>1. CASE chunks = <<>>
    BY <2>1
  <2>2. CASE chunks # <<>>
    <3>1. front = Events(chunks)
      BY <2>2
    <3> HIDE DEF front
    <3> QED
      BY <2>2, <3>1, EventsShape
  <2> QED
    BY <2>1, <2>2
<1> HIDE DEF front
<1>4. /\ front \o last \in Seq(Seq(Chunks))
      /\ Len(front \o last) = Len(front) + 1
      /\ \A i \in 1..Len(front) : (front \o last)[i] = front[i]
      /\ (front \o last)[Len(front) + 1] = <<marker>>
  <2>1. /\ front \o last \in Seq(Seq(Chunks))
        /\ Len(front \o last) = Len(front) + Len(last)
        /\ \A i \in 1..Len(front) + Len(last) :
             (front \o last)[i] = IF i <= Len(front) THEN front[i] ELSE last[i - Len(front)]
    BY <1>1, <1>2, ConcatProperties, Zenon
  <2>2. Len(front) \in Nat
    BY <1>1
  <2> QED
    BY <1>2, <2>1, <2>2
<1>5. Len(chunks) \in Nat
  OBVIOUS
<1>6. /\ events \in Seq(Seq(Chunks))
      /\ raw => Len(events) <= 2
      /\ ~raw => /\ Len(events) = Len(chunks) + 1
                 /\ \A i \in 1..Len(chunks) : events[i] = <<chunks[i]>>
                 /\ events[Len(chunks) + 1] = <<marker>>
      /\ raw /\ chunks = <<>> => Len(events) = 1 /\ events[1] = <<marker>>
      /\ raw /\ chunks # <<>> =>
           Len(events) = 2 /\ events[1] = chunks /\ events[2] = <<marker>>
  <2> HIDE DEF events
  <2>1. events = front \o last
    BY DEF events
  <2> QED
    BY <1>3, <1>4, <1>5, <2>1
<1> QED
  BY <1>6 DEF front, last

\* At first everything is empty.
LEMMA InitTypes == Init => TInv
<1> SUFFICES ASSUME Init PROVE TInv
  OBVIOUS
<1>1. setting \in Settings /\ size = setting.max
  BY DEF Init
<1>2. IsDynamic => size \in setting.min .. setting.max
  BY <1>1, SettingType DEF IsDynamic
<1> QED
  BY <1>1, <1>2 DEF Init, TInv, TypeOK, Shape

\* A step that yields no chunk and leaves the size alone keeps the types if it keeps
\* the shape of what it sends.
LEMMA QuietTypes ==
  ASSUME TInv, UNCHANGED <<raw, setting, source, due>>,
         pc' \in {"start", "reading", "ending", "closed", "left"},
         size' = size \/ size' = FirstSize,
         batch' \in {batch, <<>>}, lens' \in {lens, Append(lens, Len(batch))},
         sent' \in Seq(Chunks), out' \in Seq(Seq(Chunks)),
         raw => Len(out') <= 2,
         ~raw => \A i \in DOMAIN out' : out'[i] = <<out'[i][1]>>
  PROVE  TInv'
<1>1. setting \in Settings /\ IsDynamic' = IsDynamic
  BY DEF TInv, TypeOK, IsDynamic
<1>2. /\ IsDynamic => size' \in setting.min .. setting.max
      /\ ~IsDynamic => size' = setting.max
  BY <1>1, FirstSizeType DEF TInv, TypeOK
<1>3. TypeOK'
  BY <1>1, <1>2 DEF TInv, TypeOK
<1>4. batch' \in Seq(Chunks) /\ lens' \in Seq(Nat)
  <2>1. batch \in Seq(Chunks) /\ lens \in Seq(Nat) /\ Len(batch) \in Nat
    BY DEF TInv, Shape
  <2>2. Append(lens, Len(batch)) \in Seq(Nat) /\ <<>> \in Seq(Chunks)
    BY <2>1
  <2>3. lens' = lens \/ lens' = Append(lens, Len(batch))
    OBVIOUS
  <2>4. batch' = batch \/ batch' = <<>>
    OBVIOUS
  <2> QED
    BY <2>1, <2>2, <2>3, <2>4
<1> QED
  BY <1>3, <1>4 DEF TInv, Shape

\* vLLM's next chunk keeps the types.
LEMMA NextChunkTypes == ASSUME TInv, NextChunk PROVE TInv'
<1>1. PICK k \in Kinds :
        /\ source' = Append(source, Chunk(k))
        /\ IF Kept(Chunk(k))
             THEN due' = Append(due, Chunk(k)) /\ Take(Chunk(k))
             ELSE UNCHANGED <<due, batch, out, lens, size>>
  BY DEF NextChunk
<1>2. /\ UNCHANGED <<raw, setting, sent, pc>> /\ IsDynamic' = IsDynamic
      /\ setting \in Settings /\ pc = "reading"
      /\ Chunk(k) \in Chunks /\ Chunk(k).n = Len(source) + 1 /\ Chunk(k).kind = k
      /\ source \in Seq(Chunks) /\ due \in Seq(Chunks) /\ batch \in Seq(Chunks)
  BY ChunkType DEF NextChunk, TInv, TypeOK, Shape, IsDynamic
<1>3. \A i \in DOMAIN source' : source'[i].n = i /\ source'[i].kind \in Kinds
  BY <1>1, <1>2 DEF TInv, TypeOK
<1>4. source' \in Seq(Chunks) /\ due' \in Seq(Chunks)
  <2>1. \A s \in Seq(Chunks) : Append(s, Chunk(k)) \in Seq(Chunks)
    BY <1>2, AppendProperties
  <2> QED
    BY <1>1, <1>2, <2>1
<1> DEFINE full == Append(batch, Chunk(k))
<1>5. full \in Seq(Chunks) /\ Len(full) \in Nat
  BY <1>2
<1>6. CASE Kept(Chunk(k)) /\ Len(full) >= size
  <2>1. /\ batch' = <<>> /\ out' = Events(full) /\ lens' = Append(lens, Len(full))
        /\ size' = NextSize(size)
    BY <1>1, <1>6 DEF Take
  <2> HIDE DEF full
  <2>2. /\ IsDynamic => size' \in setting.min .. setting.max
        /\ ~IsDynamic => size' = setting.max
    BY <1>2, <2>1, NextSizeType DEF TInv, TypeOK
  <2>3. TypeOK'
    BY <1>2, <1>3, <2>2 DEF TInv, TypeOK
  <2>4. lens' \in Seq(Nat)
    BY <1>5, <2>1 DEF TInv, Shape
  <2>5. /\ out' \in Seq(Seq(Chunks)) /\ (raw => Len(out') <= 2)
        /\ ~raw => DOMAIN out' = DOMAIN full /\ \A i \in DOMAIN full : out'[i] = <<full[i]>>
    BY <1>5, <2>1, EventsShape, Zenon
  <2>6. ~raw => \A i \in DOMAIN out' : out'[i] = <<out'[i][1]>>
    <3> SUFFICES ASSUME ~raw, NEW i \in DOMAIN out'
                 PROVE  out'[i] = <<out'[i][1]>>
      OBVIOUS
    <3>1. out'[i] = <<full[i]>>
      BY <2>5, Zenon
    <3> QED
      BY <3>1, SingleEvent, Zenon
  <2>7. batch' \in Seq(Chunks) /\ sent' \in Seq(Chunks)
    BY <1>2, <2>1 DEF TInv, Shape
  <2>8. IF raw' THEN Len(out') <= 2 ELSE \A i \in DOMAIN out' : out'[i] = <<out'[i][1]>>
    <3>1. raw' = raw
      BY <1>2
    <3> QED
      BY <2>5, <2>6, <3>1, Zenon
  <2>9. Shape'
    BY <1>4, <2>4, <2>5, <2>7, <2>8 DEF Shape
  <2> QED
    BY <2>3, <2>9 DEF TInv
<1>7. CASE ~(Kept(Chunk(k)) /\ Len(full) >= size)
  <2>1. batch' \in Seq(Chunks) /\ UNCHANGED <<out, lens, size>>
    BY <1>1, <1>2, <1>5, <1>7 DEF Take
  <2>2. TypeOK'
    BY <1>2, <1>3, <2>1 DEF TInv, TypeOK
  <2> QED
    BY <1>2, <1>4, <2>1, <2>2 DEF TInv, Shape
<1> QED
  BY <1>6, <1>7

\* Sending one event keeps the types.
LEMMA SendTypes == ASSUME TInv, Send PROVE TInv'
<1>1. /\ out # <<>> /\ sent' = sent \o Head(out) /\ out' = Tail(out)
      /\ pc \in {"reading", "ending"} /\ pc' \in {pc, "closed"}
      /\ UNCHANGED <<raw, setting, source, due, batch, size, lens>>
  BY DEF Send
<1>2. out \in Seq(Seq(Chunks)) /\ sent \in Seq(Chunks)
  BY DEF TInv, Shape
<1>3. /\ Head(out) \in Seq(Chunks) /\ Tail(out) \in Seq(Seq(Chunks))
      /\ Len(Tail(out)) = Len(out) - 1
      /\ \A i \in 1..Len(Tail(out)) : Tail(out)[i] = out[i + 1]
  BY <1>1, <1>2, HeadTailProperties
<1>4. sent' \in Seq(Chunks) /\ out' \in Seq(Seq(Chunks))
  BY <1>1, <1>2, <1>3
<1>5. raw => Len(out') <= 2
  BY <1>1, <1>2, <1>3 DEF TInv, Shape
<1>6. ~raw => \A i \in DOMAIN out' : out'[i] = <<out'[i][1]>>
  <2> SUFFICES ASSUME ~raw, NEW i \in DOMAIN out' PROVE out'[i] = <<out'[i][1]>>
    OBVIOUS
  <2>1. i + 1 \in DOMAIN out /\ out'[i] = out[i + 1]
    BY <1>1, <1>2, <1>3, <1>4
  <2> QED
    BY <2>1 DEF TInv, Shape
<1> QED
  BY <1>1, <1>4, <1>5, <1>6, QuietTypes

\* Every step keeps the types.
LEMMA NextTypes == TInv /\ [Next]_vars => TInv'
<1> SUFFICES ASSUME TInv, [Next]_vars PROVE TInv'
  OBVIOUS
<1>1. /\ source \in Seq(Chunks) /\ batch \in Seq(Chunks) /\ sent \in Seq(Chunks)
      /\ out \in Seq(Seq(Chunks)) /\ Done \in Chunks /\ Error \in Chunks
      /\ raw => Len(out) <= 2
      /\ ~raw => \A i \in DOMAIN out : out[i] = <<out[i][1]>>
  BY ChunkType DEF TInv, Shape
<1>2. CASE Reject \/ SourceRaises
  <2>1. /\ out' = <<<<Error>>>> /\ pc' = "ending" /\ batch' \in {batch, <<>>}
        /\ UNCHANGED <<raw, setting, source, due, size, lens, sent>>
    BY <1>2 DEF Reject, SourceRaises
  <2>2. /\ out' \in Seq(Seq(Chunks)) /\ Len(out') = 1
        /\ \A i \in DOMAIN out' : out'[i] = <<out'[i][1]>>
    BY <1>1, <2>1
  <2> QED
    BY <1>1, <2>1, <2>2, QuietTypes
<1>3. CASE Open \/ Leave \/ UNCHANGED vars
  <2>1. /\ size' = size \/ size' = FirstSize
        /\ pc' \in {"reading", "left", pc}
        /\ UNCHANGED <<raw, setting, source, due, batch, lens, out, sent>>
    BY <1>3 DEF Open, Leave, vars
  <2> QED
    BY <1>1, <2>1, QuietTypes DEF TInv, TypeOK
<1>4. CASE NextChunk
  BY <1>4, NextChunkTypes
<1>5. CASE SourceEnds
  <2>1. /\ out' = (IF batch = <<>> THEN <<>> ELSE Events(batch)) \o <<<<Done>>>>
        /\ lens' \in {lens, Append(lens, Len(batch))} /\ batch' = <<>> /\ pc' = "ending"
        /\ UNCHANGED <<raw, setting, source, due, size, sent>>
    BY <1>5 DEF SourceEnds
  <2>2. /\ out' \in Seq(Seq(Chunks))
        /\ raw => Len(out') <= 2
        /\ ~raw => /\ Len(out') = Len(batch) + 1
                   /\ \A i \in 1..Len(batch) : out'[i] = <<batch[i]>>
                   /\ out'[Len(batch) + 1] = <<Done>>
    BY <1>1, <2>1, LastEventsShape
  <2>3. ~raw => \A i \in DOMAIN out' : out'[i] = <<out'[i][1]>>
    <3> SUFFICES ASSUME ~raw, NEW i \in DOMAIN out' PROVE out'[i] = <<out'[i][1]>>
      OBVIOUS
    <3>1. Len(batch) \in Nat /\ i \in 1..(Len(batch) + 1)
      BY <1>1, <2>2
    <3>2. CASE i \in 1..Len(batch)
      BY <2>2, <3>2, SingleEvent
    <3>3. CASE i = Len(batch) + 1
      BY <2>2, <3>3, SingleEvent
    <3> QED
      BY <3>1, <3>2, <3>3
  <2> QED
    BY <1>1, <2>1, <2>2, <2>3, QuietTypes
<1>6. CASE Send
  BY <1>6, SendTypes
<1> QED
  BY <1>2, <1>3, <1>4, <1>5, <1>6 DEF Next, Advance

\* The types hold of every reachable state.
LEMMA TInvHolds == Spec => []TInv
  BY InitTypes, NextTypes, PTL DEF Spec

\* The type invariant, in which the batch size stays within the bounds that the settings
\* give it, for every setting.
THEOREM TypeCorrect == Spec => []TypeOK
<1>1. TInv => TypeOK
  BY DEF TInv
<1> QED
  BY <1>1, TInvHolds, PTL

(***************************************************************************)
(* The chunks in the events.                                               *)
(***************************************************************************)
\* The events that the server makes: at most two in raw mode, single chunks otherwise.
OfServer(events) ==
  /\ events \in Seq(Seq(Chunks))
  /\ raw => Len(events) <= 2
  /\ ~raw => \A i \in DOMAIN events : events[i] = <<events[i][1]>>

\* No events hold no chunks.
LEMMA JoinedNone == Joined(<<>>) = <<>>
<1>1. CASE raw
  BY <1>1 DEF Joined
<1>2. CASE ~raw
  BY <1>2 DEF Joined
<1> QED
  BY <1>1, <1>2

\* What is in the events are chunks.
LEMMA JoinedType ==
  ASSUME NEW events, OfServer(events)
  PROVE  Joined(events) \in Seq(Chunks)
<1>1. events \in Seq(Seq(Chunks)) /\ Len(events) \in Nat
  BY DEF OfServer
<1>2. CASE raw
  <2>1. Len(events) <= 2
    BY <1>2 DEF OfServer
  <2>2. CASE events = <<>>
    BY <1>2, <2>2 DEF Joined
  <2>3. CASE events # <<>> /\ Len(events) = 1 /\ events[1] \in Seq(Chunks)
    <3>1. Joined(events) = events[1]
      BY <1>2, <2>3 DEF Joined
    <3> QED
      BY <2>3, <3>1
  <2>4. CASE /\ events # <<>> /\ Len(events) = 2
             /\ events[1] \in Seq(Chunks) /\ events[2] \in Seq(Chunks)
    <3>1. Joined(events) = events[1] \o events[2]
      BY <1>2, <2>4 DEF Joined
    <3> QED
      BY <2>4, <3>1, ConcatProperties
  <2> QED
    BY <1>1, <2>1, <2>2, <2>3, <2>4, ShortSeq, Zenon
<1>3. CASE ~raw
  <2>1. Joined(events) = [i \in 1..Len(events) |-> events[i][1]]
    BY <1>1, <1>3 DEF Joined
  <2>2. ASSUME NEW i \in 1..Len(events) PROVE events[i][1] \in Chunks
    <3>1. events[i] \in Seq(Chunks) /\ events[i] = <<events[i][1]>>
      BY <1>1, <1>3 DEF OfServer
    <3>2. Len(events[i]) = 1
      BY <3>1, Single, Zenon
    <3> QED
      BY <3>1, <3>2, ElementOfSeq
  <2> QED
    BY <1>1, <2>1, <2>2
<1> QED
  BY <1>2, <1>3

\* The first event, and what is in the others.
LEMMA JoinedHead ==
  ASSUME NEW events, OfServer(events), events # <<>>
  PROVE  /\ OfServer(Tail(events)) /\ Head(events) \in Seq(Chunks)
         /\ Joined(events) = Head(events) \o Joined(Tail(events))
<1>1. events \in Seq(Seq(Chunks)) /\ Len(events) \in Nat \ {0} /\ Head(events) = events[1]
  BY DEF OfServer
<1>2. /\ Tail(events) \in Seq(Seq(Chunks)) /\ Len(Tail(events)) = Len(events) - 1
      /\ \A i \in 1..Len(Tail(events)) : Tail(events)[i] = events[i + 1]
      /\ Head(events) \in Seq(Chunks)
  BY <1>1, HeadTailProperties
<1>3. OfServer(Tail(events))
  <2>1. CASE raw
    <3>1. Len(Tail(events)) <= 2
      BY <1>1, <1>2, <2>1 DEF OfServer
    <3> QED
      BY <1>2, <2>1, <3>1 DEF OfServer
  <2>2. CASE ~raw
    <3>1. ASSUME NEW i \in DOMAIN Tail(events)
          PROVE  Tail(events)[i] = <<Tail(events)[i][1]>>
      <4>1. i + 1 \in DOMAIN events /\ Tail(events)[i] = events[i + 1]
        BY <1>1, <1>2
      <4> QED
        BY <2>2, <4>1 DEF OfServer
    <3> QED
      BY <1>2, <2>2, <3>1 DEF OfServer
  <2> QED
    BY <2>1, <2>2
<1>4. Joined(events) = Head(events) \o Joined(Tail(events))
  <2>1. CASE raw /\ Len(events) = 1 /\ Tail(events) = <<>>
    <3>1. Joined(events) = events[1]
      BY <2>1 DEF Joined
    <3>2. Head(events) \o <<>> = Head(events)
      BY <1>2, ConcatEmptySeq
    <3> QED
      BY <1>1, <2>1, <3>1, <3>2, JoinedNone
  <2>2. CASE /\ raw /\ Len(events) = 2
             /\ Tail(events) # <<>> /\ Len(Tail(events)) = 1 /\ Tail(events)[1] = events[2]
    <3>1. Joined(events) = events[1] \o events[2]
      BY <2>2 DEF Joined
    <3>2. Joined(Tail(events)) = events[2]
      BY <2>2 DEF Joined
    <3> QED
      BY <1>1, <3>1, <3>2
  <2>3. CASE ~raw
    <3> DEFINE rest == Tail(events)
               all  == Head(events) \o Joined(rest)
    <3>1. events[1] = <<events[1][1]>>
      BY <1>1, <2>3 DEF OfServer
    <3>2. Joined(events) \in Seq(Chunks) /\ Joined(rest) \in Seq(Chunks)
      BY <1>3, JoinedType
    <3>3. /\ Len(Joined(events)) = Len(events)
          /\ \A i \in 1..Len(events) : Joined(events)[i] = events[i][1]
      BY <1>1, <2>3 DEF Joined
    <3>4. /\ Len(Joined(rest)) = Len(events) - 1
          /\ \A i \in 1..Len(events) - 1 : Joined(rest)[i] = events[i + 1][1]
      BY <1>1, <1>2, <2>3 DEF Joined
    <3>5. Len(Head(events)) = 1 /\ Head(events)[1] = events[1][1]
      BY <1>1, <3>1, Single, Zenon
    <3>6. /\ all \in Seq(Chunks)
          /\ Len(all) = Len(Head(events)) + Len(Joined(rest))
          /\ \A i \in 1..Len(Head(events)) + Len(Joined(rest)) :
               all[i] = IF i <= Len(Head(events)) THEN Head(events)[i]
                        ELSE Joined(rest)[i - Len(Head(events))]
      BY <1>2, <3>2, ConcatProperties, Zenon
    <3> HIDE DEF all, rest
    <3>7. Len(all) = Len(events)
      <4>1. Len(all) = 1 + (Len(events) - 1)
        BY <3>4, <3>5, <3>6
      <4> QED
        BY <1>1, <4>1
    <3>8. ASSUME NEW i \in 1..Len(events) PROVE all[i] = Joined(events)[i]
      <4>1. CASE i = 1
        BY <1>1, <3>3, <3>4, <3>5, <3>6, <4>1
      <4>2. CASE i # 1
        <5>1. i - 1 \in 1..Len(events) - 1 /\ i - 1 + 1 = i /\ ~(i <= 1)
          BY <1>1, <4>2
        <5>2. all[i] = Joined(rest)[i - 1]
          <6>1. i \in 1..1 + (Len(events) - 1)
            BY <1>1
          <6>2. all[i] = IF i <= 1 THEN Head(events)[i] ELSE Joined(rest)[i - 1]
            BY <3>4, <3>5, <3>6, <6>1
          <6> QED
            BY <5>1, <6>2
        <5> QED
          BY <3>3, <3>4, <5>1, <5>2
      <4> QED
        BY <4>1, <4>2
    <3>9. all = Joined(events)
      BY <3>2, <3>3, <3>6, <3>7, <3>8, SeqEqual
    <3> QED
      BY <3>9 DEF all, rest
  <2>4. raw => Len(events) <= 2
    BY DEF OfServer
  <2>5. CASE raw
    BY <1>1, <2>1, <2>2, <2>4, <2>5, ShortSeq, Zenon
  <2> QED
    BY <2>3, <2>5
<1> QED
  BY <1>2, <1>3, <1>4

\* A batch's events hold the batch.
LEMMA JoinedEvents ==
  ASSUME NEW chunks \in Seq(Chunks)
  PROVE  Joined(Events(chunks)) = chunks
<1>1. CASE raw
  <2>1. Len(Events(chunks)) = 1 /\ Events(chunks)[1] = chunks /\ Events(chunks) # <<>>
    BY <1>1, EventsShape
  <2> QED
    BY <1>1, <2>1 DEF Joined
<1>2. CASE ~raw
  <2>1. /\ DOMAIN Events(chunks) = DOMAIN chunks
        /\ \A i \in DOMAIN chunks : Events(chunks)[i] = <<chunks[i]>>
    BY <1>2, EventsShape
  <2>2. Joined(Events(chunks)) = [i \in DOMAIN chunks |-> chunks[i]]
    BY <1>2, <2>1 DEF Joined
  <2>3. chunks = [i \in DOMAIN chunks |-> chunks[i]]
    BY LenProperties
  <2> QED
    BY <2>2, <2>3
<1> QED
  BY <1>1, <1>2

\* One event of one chunk, such as a marker on its own.
LEMMA JoinedOne ==
  ASSUME NEW chunk \in Chunks
  PROVE  OfServer(<<<<chunk>>>>) /\ Joined(<<<<chunk>>>>) = <<chunk>>
<1> DEFINE event  == <<chunk>>
           events == <<event>>
<1>1. event \in Seq(Chunks) /\ event = <<event[1]>>
  OBVIOUS
<1> HIDE DEF event
<1>2. events \in Seq(Seq(Chunks)) /\ Len(events) = 1 /\ events[1] = event /\ DOMAIN events = {1}
  BY <1>1
<1>3. OfServer(events)
  BY <1>1, <1>2 DEF OfServer
<1>4. CASE raw
  <2>1. events # <<>>
    BY <1>2
  <2> QED
    BY <1>2, <1>3, <1>4, <2>1 DEF Joined, event
<1>5. CASE ~raw
  <2>1. Joined(events) = [i \in {1} |-> chunk]
    <3>1. event[1] = chunk
      BY DEF event
    <3> QED
      BY <1>2, <1>5, <3>1 DEF Joined
  <2>2. <<chunk>> = [i \in {1} |-> chunk]
    OBVIOUS
  <2> QED
    BY <1>3, <2>1, <2>2 DEF event
<1> QED
  BY <1>4, <1>5 DEF event

\* The events of a last batch and a marker hold the batch and the marker.
LEMMA JoinedLast ==
  ASSUME NEW chunks \in Seq(Chunks), NEW marker \in Chunks
  PROVE  LET events == (IF chunks = <<>> THEN <<>> ELSE Events(chunks)) \o <<<<marker>>>> IN
         OfServer(events) /\ Joined(events) = chunks \o <<marker>>
<1> DEFINE events == (IF chunks = <<>> THEN <<>> ELSE Events(chunks)) \o <<<<marker>>>>
<1>1. /\ events \in Seq(Seq(Chunks))
      /\ raw => Len(events) <= 2
      /\ ~raw => /\ Len(events) = Len(chunks) + 1
                 /\ \A i \in 1..Len(chunks) : events[i] = <<chunks[i]>>
                 /\ events[Len(chunks) + 1] = <<marker>>
      /\ raw /\ chunks = <<>> => Len(events) = 1 /\ events[1] = <<marker>>
      /\ raw /\ chunks # <<>> =>
           Len(events) = 2 /\ events[1] = chunks /\ events[2] = <<marker>>
  BY LastEventsShape
<1> HIDE DEF events
<1>2. Len(chunks) \in Nat /\ <<marker>> \in Seq(Chunks)
  OBVIOUS
<1>3. CASE raw
  <2>1. OfServer(events) /\ (events = <<>> => Len(events) = 0)
    BY <1>1, <1>3 DEF OfServer
  <2>2. CASE chunks = <<>>
    <3>1. Len(events) = 1 /\ events[1] = <<marker>>
      BY <1>1, <1>3, <2>2
    <3>2. Joined(events) = events[1]
      BY <1>3, <2>1, <3>1 DEF Joined
    <3>3. <<>> \o <<marker>> = <<marker>>
      BY <1>2, ConcatEmptySeq
    <3>4. Joined(events) = chunks \o <<marker>>
      BY <2>2, <3>1, <3>2, <3>3, Zenon
    <3> QED
      BY <2>1, <3>4 DEF events
  <2>3. CASE chunks # <<>>
    <3>1. Len(events) = 2 /\ events[1] = chunks /\ events[2] = <<marker>>
      BY <1>1, <1>3, <2>3
    <3>2. Joined(events) = events[1] \o events[2]
      BY <1>3, <2>1, <3>1 DEF Joined
    <3>3. Joined(events) = chunks \o <<marker>>
      BY <3>1, <3>2, Zenon
    <3> QED
      BY <2>1, <3>3 DEF events
  <2> QED
    BY <2>2, <2>3 DEF events
<1>4. CASE ~raw
  <2>1. \A i \in DOMAIN events : events[i] = <<events[i][1]>>
    <3> SUFFICES ASSUME NEW i \in DOMAIN events PROVE events[i] = <<events[i][1]>>
      OBVIOUS
    <3>1. i \in 1..(Len(chunks) + 1)
      BY <1>1, <1>2, <1>4
    <3>2. CASE i \in 1..Len(chunks)
      BY <1>1, <1>4, <3>2, SingleEvent
    <3>3. CASE i = Len(chunks) + 1
      BY <1>1, <1>4, <3>3, SingleEvent
    <3> QED
      BY <1>2, <3>1, <3>2, <3>3
  <2>2. OfServer(events)
    BY <1>1, <1>4, <2>1 DEF OfServer
  <2>3. /\ Joined(events) \in Seq(Chunks) /\ Len(Joined(events)) = Len(chunks) + 1
        /\ \A i \in 1..Len(chunks) + 1 : Joined(events)[i] = events[i][1]
    <3>1. Joined(events) \in Seq(Chunks)
      BY <2>2, JoinedType
    <3>2. DOMAIN events = 1..Len(chunks) + 1
      BY <1>1, <1>4
    <3>3. Joined(events) = [i \in 1..Len(chunks) + 1 |-> events[i][1]]
      BY <1>4, <3>2 DEF Joined
    <3> QED
      BY <1>2, <3>1, <3>3
  <2>4. /\ chunks \o <<marker>> \in Seq(Chunks)
        /\ Len(chunks \o <<marker>>) = Len(chunks) + 1
        /\ \A i \in 1..Len(chunks) : (chunks \o <<marker>>)[i] = chunks[i]
        /\ (chunks \o <<marker>>)[Len(chunks) + 1] = marker
    BY <1>2
  <2>5. ASSUME NEW i \in 1..Len(chunks) + 1
        PROVE  Joined(events)[i] = (chunks \o <<marker>>)[i]
    <3>1. CASE i \in 1..Len(chunks)
      <4>1. events[i] = <<chunks[i]>>
        BY <1>1, <1>4, <3>1
      <4>2. events[i][1] = chunks[i]
        BY <4>1, Single, Zenon
      <4> QED
        BY <2>3, <2>4, <3>1, <4>2
    <3>2. CASE i = Len(chunks) + 1
      <4>1. events[i] = <<marker>>
        BY <1>1, <1>4, <3>2
      <4>2. events[i][1] = marker
        BY <4>1, Single, Zenon
      <4> QED
        BY <2>3, <2>4, <3>2, <4>2
    <3> QED
      BY <1>2, <3>1, <3>2
  <2>6. Joined(events) = chunks \o <<marker>>
    BY <2>3, <2>4, <2>5, SeqEqual
  <2> QED
    BY <2>2, <2>6 DEF events
<1> QED
  BY <1>3, <1>4

(***************************************************************************)
(* The chunks on their way to the client.                                  *)
(***************************************************************************)
\* What the client has received and what is on its way to it.
Total == sent \o Joined(out)

\* A stream that has not started has nothing.
StartsEmpty ==
  pc = "start" => source = <<>> /\ due = <<>> /\ batch = <<>> /\ out = <<>> /\ sent = <<>>

\* While vLLM is read, nothing due is missing.
InHand == pc = "reading" => Total \o batch = due

\* What is due are vLLM's chunks, and its "[DONE]" only as the last of them.
DueTyped ==
  \A k \in 1..Len(due) : /\ due[k].n # 0
                         /\ due[k].kind = "done" => k = Len(due) /\ Ended

\* An initial part of what is due; all of it and the server's own "[DONE]", once vLLM has
\* ended; or an initial part and an error, and then vLLM has not ended.
Answers(total) ==
  \E m \in 0..Len(due) :
    /\ \A i \in 1..m : total[i] = due[i]
    /\ \/ Len(total) = m
       \/ Len(total) = m + 1 /\ m = Len(due) /\ Ended /\ total[m + 1] = Done
       \/ Len(total) = m + 1 /\ ~Ended /\ total[m + 1] = Error

CInv == TInv /\ StartsEmpty /\ InHand /\ DueTyped /\ Answers(Total)

\* What is sent and what is still to be sent are chunks.
LEMMA TotalType ==
  ASSUME TInv
  PROVE  OfServer(out) /\ Joined(out) \in Seq(Chunks) /\ Total \in Seq(Chunks)
<1>1. OfServer(out) /\ sent \in Seq(Chunks)
  BY DEF TInv, Shape, OfServer
<1>2. Joined(out) \in Seq(Chunks)
  BY <1>1, JoinedType
<1> QED
  BY <1>1, <1>2, ConcatProperties DEF Total

\* When everything is sent, what is on its way is nothing.
LEMMA TotalSent == ASSUME TInv, out = <<>> PROVE Total = sent
<1>1. sent \in Seq(Chunks)
  BY DEF TInv, Shape
<1> QED
  BY <1>1, JoinedNone, ConcatEmptySeq DEF Total

\* The same of the state after a step.
LEMMA TotalSentNext == ASSUME TInv', raw' = raw, out' = <<>> PROVE Total' = sent'
<1>1. sent' \in Seq(Chunks)
  BY DEF TInv, Shape
<1>2. Joined(out)' = Joined(<<>>)
  BY DEF Joined
<1> QED
  BY <1>1, <1>2, JoinedNone, ConcatEmptySeq DEF Total

\* The same of the state after a step.
LEMMA TotalTypeNext == ASSUME TInv', raw' = raw PROVE Total' \in Seq(Chunks)
<1>1. OfServer(out') /\ sent' \in Seq(Chunks)
  BY DEF TInv, Shape, OfServer
<1>2. Joined(out') \in Seq(Chunks)
  BY <1>1, JoinedType
<1>3. Joined(out)' = Joined(out')
  BY DEF Joined
<1> QED
  BY <1>1, <1>2, <1>3, ConcatProperties DEF Total

\* The initial state.
LEMMA InitTotal == Init => CInv
<1> SUFFICES ASSUME Init PROVE CInv
  OBVIOUS
<1>1. TInv /\ out = <<>> /\ sent = <<>> /\ due = <<>> /\ batch = <<>> /\ source = <<>> /\ pc = "start"
  BY InitTypes DEF Init
<1>2. Total = <<>>
  BY <1>1, TotalSent
<1>3. Answers(Total)
  <2>1. Len(due) = 0 /\ Len(Total) = 0 /\ 0 \in 0..Len(due)
    BY <1>1, <1>2
  <2> QED
    BY <2>1 DEF Answers
<1> QED
  BY <1>1, <1>3 DEF CInv, StartsEmpty, InHand, DueTyped

\* Sending moves the first event from what is on its way to what has arrived.
LEMMA SendTotal == ASSUME TInv, Send PROVE Total' = Total
<1>1. /\ out # <<>> /\ sent' = sent \o Head(out) /\ out' = Tail(out) /\ raw' = raw
  BY DEF Send
<1>2. OfServer(out) /\ sent \in Seq(Chunks)
  BY TotalType DEF TInv, Shape
<1>3. /\ OfServer(Tail(out)) /\ Head(out) \in Seq(Chunks)
      /\ Joined(out) = Head(out) \o Joined(Tail(out))
  BY <1>1, <1>2, JoinedHead
<1>4. Joined(Tail(out)) \in Seq(Chunks)
  BY <1>3, JoinedType
<1>5. Joined(out)' = Joined(Tail(out))
  BY <1>1 DEF Joined
<1>6. (sent \o Head(out)) \o Joined(Tail(out)) = sent \o (Head(out) \o Joined(Tail(out)))
  <2>1. \A s, t, u \in Seq(Chunks) : (s \o t) \o u = s \o (t \o u)
    BY ConcatAssociative
  <2> QED
    BY <1>2, <1>3, <1>4, <2>1, Zenon
<1> QED
  BY <1>1, <1>3, <1>5, <1>6 DEF Total

\* A step that leaves the answer and what vLLM has yielded alone keeps the invariant.
LEMMA QuietTotal ==
  ASSUME CInv, TInv', Total' = Total, source' = source, due' = due, batch' = batch,
         pc' # "start", pc' = "reading" => Total \o batch = due
  PROVE  CInv'
<1>1. Ended' = Ended
  BY DEF Ended
<1>2. DueTyped'
  BY <1>1 DEF CInv, DueTyped
<1>3. Answers(Total)'
  BY <1>1 DEF CInv, Answers
<1> QED
  BY <1>2, <1>3 DEF CInv, StartsEmpty, InHand

\* vLLM's next chunk keeps the invariant: it is gathered, or goes out with the batch.
LEMMA NextChunkTotal == ASSUME CInv, TInv', NextChunk PROVE CInv'
<1>1. PICK k \in Kinds :
        /\ source' = Append(source, Chunk(k))
        /\ IF Kept(Chunk(k))
             THEN due' = Append(due, Chunk(k)) /\ Take(Chunk(k))
             ELSE UNCHANGED <<due, batch, out, lens, size>>
  BY DEF NextChunk
<1>2. /\ pc = "reading" /\ out = <<>> /\ ~Ended /\ UNCHANGED <<raw, setting, sent, pc>>
      /\ TInv /\ source \in Seq(Chunks) /\ due \in Seq(Chunks) /\ batch \in Seq(Chunks)
      /\ sent \in Seq(Chunks)
      /\ Chunk(k) \in Chunks /\ Chunk(k).n # 0 /\ Chunk(k).kind = k
  <2>1. source \in Seq(Chunks) /\ Len(source) \in Nat
    BY DEF CInv, TInv, Shape
  <2>2. Chunk(k) \in Chunks /\ Chunk(k).n = Len(source) + 1 /\ Chunk(k).kind = k
    BY <2>1, ChunkType
  <2> QED
    BY <2>1, <2>2 DEF CInv, TInv, Shape, NextChunk
<1>3. Total = sent /\ sent \o batch = due
  BY <1>2, TotalSent DEF CInv, InHand
<1>4. /\ source' # <<>> /\ Last(source') = Chunk(k) /\ (Ended' <=> k = "done")
  <2>1. source' # <<>> /\ Last(source') = Chunk(k)
    <3>1. source' = Append(source, Chunk(k)) /\ source \in Seq(Chunks) /\ Chunk(k) \in Chunks
      BY <1>1, <1>2, Zenon
    <3>2. /\ Len(source) \in Nat /\ Len(source') = Len(source) + 1
          /\ source'[Len(source) + 1] = Chunk(k)
      BY <3>1, AppendProperties, LenProperties
    <3>3. source' # <<>>
      BY <3>1, AppendProperties
    <3>4. Last(source') = source'[Len(source) + 1]
      BY <3>2, Zenon DEF Last
    <3> QED
      BY <3>2, <3>3, <3>4, Zenon
  <2> QED
    BY <1>2, <2>1 DEF Ended
<1>5. InHand'
  <2>1. CASE ~Kept(Chunk(k))
    <3>1. due' = due /\ batch' = batch /\ out' = <<>>
      BY <1>1, <1>2, <2>1
    <3>2. Total' = sent'
      BY <3>1, <1>2, TotalSentNext
    <3> QED
      BY <1>2, <1>3, <3>1, <3>2 DEF InHand
  <2>2. CASE Kept(Chunk(k))
    <3> DEFINE full == Append(batch, Chunk(k))
    <3>1. /\ due' = Append(due, Chunk(k)) /\ full \in Seq(Chunks)
          /\ \/ batch' = <<>> /\ out' = Events(full)
             \/ batch' = full /\ out' = <<>>
      BY <1>1, <1>2, <2>2 DEF Take
    <3>2. sent \o full = Append(due, Chunk(k))
      <4>1. \A s, t \in Seq(Chunks) : \A c \in Chunks : s \o Append(t, c) = Append(s \o t, c)
        BY AppendToSecond
      <4> QED
        BY <1>2, <1>3, <4>1
    <3> HIDE DEF full
    <3>3. CASE batch' = <<>> /\ out' = Events(full)
      <4>1. Joined(out)' = Joined(Events(full))
        BY <1>2, <3>3 DEF Joined
      <4>2. Total' = sent \o full
        BY <1>2, <3>1, <4>1, JoinedEvents DEF Total
      <4>3. sent \o full \in Seq(Chunks)
        BY <1>2, <3>1, ConcatProperties
      <4>4. (sent \o full) \o <<>> = sent \o full
        BY <4>3, ConcatEmptySeq
      <4> QED
        BY <3>1, <3>2, <3>3, <4>2, <4>4 DEF InHand
    <3>4. CASE batch' = full /\ out' = <<>>
      <4>1. Total' = sent'
        BY <1>2, <3>4, TotalSentNext
      <4> QED
        BY <1>2, <3>1, <3>2, <3>4, <4>1 DEF InHand
    <3> QED
      BY <3>1, <3>3, <3>4
  <2> QED
    BY <2>1, <2>2
<1>6. DueTyped'
  <2>1. Len(due) \in Nat /\ \A i \in 1..Len(due) : due[i].n # 0 /\ due[i].kind # "done"
    BY <1>2 DEF CInv, DueTyped
  <2>2. CASE due' = due
    BY <2>1, <2>2 DEF DueTyped
  <2>3. CASE due' = Append(due, Chunk(k))
    <3>1. /\ Len(due') = Len(due) + 1 /\ due'[Len(due) + 1] = Chunk(k)
          /\ \A i \in 1..Len(due) : due'[i] = due[i]
      BY <1>2, <2>3, AppendProperties
    <3> SUFFICES ASSUME NEW i \in 1..Len(due')
                 PROVE  due'[i].n # 0 /\ (due'[i].kind = "done" => i = Len(due') /\ Ended')
      BY DEF DueTyped
    <3>2. i \in 1..Len(due) \/ i = Len(due) + 1
      BY <2>1, <3>1
    <3>3. CASE i \in 1..Len(due)
      BY <2>1, <3>1, <3>3
    <3>4. CASE i = Len(due) + 1
      BY <1>2, <1>4, <3>1, <3>4
    <3> QED
      BY <3>2, <3>3, <3>4
  <2> QED
    BY <1>1, <2>2, <2>3
<1>7. Answers(Total)'
  <2>1. Total' \o batch' = due' /\ Total' \in Seq(Chunks) /\ batch' \in Seq(Chunks)
    BY <1>2, <1>5, TotalTypeNext DEF InHand, TInv, Shape
  <2>2. /\ Len(Total') \in Nat /\ Len(due') \in Nat /\ Len(Total') <= Len(due')
        /\ \A i \in 1..Len(Total') : Total'[i] = due'[i]
    BY <2>1, FirstPart
  <2>3. Len(Total') \in 0..Len(due')
    BY <2>2
  <2> QED
    BY <2>2, <2>3 DEF Answers
<1> QED
  BY <1>2, <1>5, <1>6, <1>7 DEF CInv, StartsEmpty

\* Handing over the last batch, with the server's "[DONE]" after it, completes the answer.
LEMMA SourceEndsTotal == ASSUME CInv, TInv', SourceEnds PROVE CInv'
<1>1. /\ pc = "reading" /\ out = <<>> /\ Ended /\ pc' = "ending"
      /\ out' = (IF batch = <<>> THEN <<>> ELSE Events(batch)) \o <<<<Done>>>>
      /\ raw' = raw /\ sent' = sent /\ due' = due /\ source' = source
  BY DEF SourceEnds
<1>2. /\ TInv /\ batch \in Seq(Chunks) /\ sent \in Seq(Chunks) /\ due \in Seq(Chunks)
      /\ Done \in Chunks /\ <<Done>> \in Seq(Chunks)
  BY ChunkType DEF CInv, TInv, Shape
<1>3. sent \o batch = due
  BY <1>1, <1>2, TotalSent DEF CInv, InHand
<1>4. Joined(out') = batch \o <<Done>>
  BY <1>1, <1>2, JoinedLast
<1>5. Total' = due \o <<Done>>
  <2>1. Joined(out)' = batch \o <<Done>>
    BY <1>1, <1>4 DEF Joined
  <2>2. (sent \o batch) \o <<Done>> = sent \o (batch \o <<Done>>)
    BY <1>2, ConcatAssociative
  <2> QED
    BY <1>1, <1>3, <2>1, <2>2 DEF Total
<1>6. /\ Len(due) \in 0..Len(due) /\ Len(Total') = Len(due) + 1 /\ Total'[Len(due) + 1] = Done
      /\ \A i \in 1..Len(due) : Total'[i] = due[i]
  BY <1>2, <1>5
<1>7. Ended' /\ DueTyped'
  BY <1>1 DEF CInv, DueTyped, Ended
<1>8. Answers(Total)'
  BY <1>1, <1>6, <1>7 DEF Answers
<1> QED
  BY <1>1, <1>7, <1>8 DEF CInv, StartsEmpty, InHand

\* An error event comes after an initial part of what was due.
LEMMA FailsTotal == ASSUME CInv, TInv', Reject \/ SourceRaises PROVE CInv'
<1>1. /\ out = <<>> /\ ~Ended /\ pc' = "ending" /\ out' = <<<<Error>>>>
      /\ raw' = raw /\ sent' = sent /\ due' = due /\ source' = source
  <2>1. CASE Reject
    BY <2>1 DEF Reject, CInv, StartsEmpty, Ended
  <2>2. CASE SourceRaises
    BY <2>2 DEF SourceRaises
  <2> QED
    BY <2>1, <2>2
<1>2. /\ TInv /\ batch \in Seq(Chunks) /\ sent \in Seq(Chunks) /\ due \in Seq(Chunks)
      /\ Error \in Chunks
  BY ChunkType DEF CInv, TInv, Shape
<1>3. sent \o batch = due
  <2>1. CASE Reject
    <3>1. sent = <<>> /\ batch = <<>> /\ due = <<>>
      BY <2>1 DEF Reject, CInv, StartsEmpty
    <3> QED
      BY <1>2, <3>1, ConcatEmptySeq
  <2>2. CASE SourceRaises
    BY <1>1, <1>2, <2>2, TotalSent DEF CInv, InHand, SourceRaises
  <2> QED
    BY <2>1, <2>2
<1>4. Total' = sent \o <<Error>>
  <2>1. Joined(out)' = <<Error>>
    <3>1. Joined(out)' = Joined(<<<<Error>>>>)
      BY <1>1 DEF Joined
    <3> QED
      BY <1>2, <3>1, JoinedOne
  <2> QED
    BY <1>1, <2>1 DEF Total
<1>5. /\ Len(sent) \in Nat /\ Len(due) \in Nat /\ Len(sent) <= Len(due)
      /\ \A i \in 1..Len(sent) : sent[i] = due[i]
  BY <1>2, <1>3, FirstPart
<1>6. /\ Len(Total') = Len(sent) + 1 /\ Total'[Len(sent) + 1] = Error
      /\ \A i \in 1..Len(sent) : Total'[i] = sent[i]
  BY <1>2, <1>4
<1>7. ~Ended' /\ DueTyped'
  BY <1>1 DEF CInv, DueTyped, Ended
<1>8. Answers(Total)'
  <2>1. Len(sent) \in 0..Len(due) /\ \A i \in 1..Len(sent) : Total'[i] = due[i]
    BY <1>5, <1>6
  <2> QED
    BY <1>1, <1>6, <1>7, <2>1 DEF Answers
<1> QED
  BY <1>1, <1>7, <1>8 DEF CInv, StartsEmpty, InHand

\* Every step keeps the invariant.
LEMMA NextTotal == CInv /\ [Next]_vars => CInv'
<1> SUFFICES ASSUME CInv, [Next]_vars PROVE CInv'
  OBVIOUS
<1>1. TInv'
  BY NextTypes DEF CInv
<1>2. CASE Reject \/ SourceRaises
  BY <1>1, <1>2, FailsTotal
<1>3. CASE Open
  <2>1. /\ raw' = raw /\ sent' = sent /\ out' = out
        /\ source' = source /\ due' = due /\ batch' = batch /\ pc' = "reading"
    BY <1>3 DEF Open
  <2>2. Total \o batch = due
    <3>1. TInv /\ out = <<>> /\ sent = <<>> /\ batch = <<>> /\ due = <<>>
      BY <1>3 DEF Open, CInv, StartsEmpty
    <3>2. Total = <<>>
      BY <3>1, TotalSent
    <3> QED
      BY <3>1, <3>2
  <2>3. Total' = Total
    BY <2>1 DEF Total, Joined
  <2> QED
    BY <1>1, <2>1, <2>2, <2>3, QuietTotal
<1>4. CASE NextChunk
  BY <1>1, <1>4, NextChunkTotal
<1>5. CASE SourceEnds
  BY <1>1, <1>5, SourceEndsTotal
<1>6. CASE Send
  <2>1. /\ source' = source /\ due' = due /\ batch' = batch /\ pc \in {"reading", "ending"}
        /\ pc' \in {pc, "closed"}
    BY <1>6 DEF Send
  <2>2. Total' = Total
    BY <1>6, SendTotal DEF CInv
  <2>3. pc' # "start" /\ (pc' = "reading" => Total \o batch = due)
    BY <2>1 DEF CInv, InHand
  <2> QED
    BY <1>1, <2>1, <2>2, <2>3, QuietTotal
<1>7. CASE Leave
  <2>1. /\ source' = source /\ due' = due /\ batch' = batch /\ pc' = "left"
        /\ raw' = raw /\ sent' = sent /\ out' = out
    BY <1>7 DEF Leave
  <2>2. Total' = Total
    BY <2>1 DEF Total, Joined
  <2> QED
    BY <1>1, <2>1, <2>2, QuietTotal
<1>8. CASE UNCHANGED vars
  <2>1. UNCHANGED <<raw, source, due, batch, out, sent, pc>>
    BY <1>8 DEF vars
  <2>2. Total' = Total /\ Ended' = Ended
    BY <2>1 DEF Total, Joined, Ended
  <2> QED
    BY <1>1, <2>1, <2>2 DEF CInv, StartsEmpty, InHand, DueTyped, Answers
<1> QED
  BY <1>2, <1>3, <1>4, <1>5, <1>6, <1>7, <1>8 DEF Next, Advance

\* What has arrived is an initial part of what the invariant speaks of.
LEMMA SentOfTotal ==
  ASSUME CInv
  PROVE  /\ Len(sent) \in Nat /\ Len(due) \in Nat /\ Len(Total) \in Nat
         /\ DOMAIN sent = 1..Len(sent) /\ DOMAIN due = 1..Len(due)
         /\ Len(sent) <= Len(Total)
         /\ \A i \in 1..Len(sent) : sent[i] = Total[i]
<1>1. sent \in Seq(Chunks) /\ Joined(out) \in Seq(Chunks) /\ due \in Seq(Chunks)
  BY TotalType DEF CInv, TInv, Shape
<1>2. /\ Len(sent) \in Nat /\ Len(Total) \in Nat /\ Len(sent) <= Len(Total)
      /\ \A i \in 1..Len(sent) : sent[i] = Total[i]
  BY <1>1, FirstPart DEF Total
<1> QED
  BY <1>1, <1>2, LenProperties

\* Where the client got a marker, that is the last thing it got.
LEMMA InvNothingLost == CInv => NothingLost
<1> SUFFICES ASSUME CInv PROVE NothingLost
  OBVIOUS
<1>1. pc = "reading" => (sent \o Joined(out)) \o batch = due
  BY DEF CInv, InHand, Total
<1>2. PICK m \in 0..Len(due) :
        /\ \A i \in 1..m : Total[i] = due[i]
        /\ \/ Len(Total) = m
           \/ Len(Total) = m + 1 /\ Total[m + 1] \in {Done, Error}
  BY DEF CInv, Answers
<1>3. ASSUME NEW i \in DOMAIN sent
      PROVE  IF sent[i].n = 0 THEN \A j \in i..Len(sent) : sent[j].n = 0
                              ELSE i \in DOMAIN due /\ sent[i] = due[i]
  <2>1. i \in 1..Len(sent) /\ sent[i] = Total[i]
    BY SentOfTotal
  <2>2. i \in 1..m \/ (i = m + 1 /\ i = Len(sent))
    <3>1. m \in Nat /\ (Len(Total) = m \/ Len(Total) = m + 1)
      BY <1>2, SentOfTotal
    <3>2. Len(sent) \in Nat /\ Len(sent) <= Len(Total)
      BY SentOfTotal
    <3>3. i \in Nat /\ 1 <= i /\ i <= Len(sent)
      BY <2>1, <3>2
    <3>4. i <= m \/ (i = m + 1 /\ i = Len(sent))
      BY <3>1, <3>2, <3>3
    <3> QED
      BY <3>1, <3>3, <3>4
  <2>3. CASE i \in 1..m
    <3>1. i \in 1..Len(due) /\ sent[i] = due[i]
      BY <1>2, <2>1, <2>3, SentOfTotal
    <3>2. sent[i].n # 0
      BY <3>1 DEF CInv, DueTyped
    <3> QED
      BY <3>1, <3>2, SentOfTotal
  <2>4. CASE i = m + 1 /\ i = Len(sent)
    <3>1. sent[i] \in {Done, Error}
      BY <1>2, <2>1, <2>4, SentOfTotal
    <3>2. sent[i].n = 0
      BY <3>1 DEF Done, Error
    <3>3. \A j \in i..Len(sent) : j = i
      BY <2>1, <2>4, SentOfTotal
    <3> QED
      BY <3>2, <3>3
  <2> QED
    BY <2>2, <2>3, <2>4
<1> QED
  BY <1>1, <1>3 DEF NothingLost

\* A "[DONE]" is vLLM's, the last chunk due, or the server's, after all of them.
LEMMA InvDoneMeansComplete == CInv => DoneMeansComplete
<1> SUFFICES ASSUME CInv, NEW i \in DOMAIN sent, sent[i].kind = "done"
             PROVE  /\ Ended
                    /\ \A j \in i+1 .. Len(sent) : sent[j].kind = "done"
                    /\ \A k \in DOMAIN due : due[k].kind # "done" => k < i /\ sent[k] = due[k]
  BY DEF DoneMeansComplete
<1>1. PICK m \in 0..Len(due) :
        /\ \A k \in 1..m : Total[k] = due[k]
        /\ \/ Len(Total) = m
           \/ Len(Total) = m + 1 /\ m = Len(due) /\ Ended /\ Total[m + 1] = Done
           \/ Len(Total) = m + 1 /\ ~Ended /\ Total[m + 1] = Error
  BY DEF CInv, Answers
<1>2. i \in 1..Len(sent) /\ sent[i] = Total[i]
  BY SentOfTotal
<1>3. \A k \in 1..Len(due) : due[k].kind = "done" => k = Len(due) /\ Ended
  BY DEF CInv, DueTyped
<1>4. CASE i \in 1..m
  <2>1. i = Len(due) /\ Ended /\ m = i
    <3>1. m \in 0..Len(due) /\ Len(due) \in Nat
      BY SentOfTotal
    <3>2. i \in 1..Len(due) /\ due[i].kind = "done"
      <4>1. i \in 1..Len(due)
        BY <1>4, <3>1
      <4>2. Total[i] = due[i]
        BY <1>1, <1>4
      <4> QED
        BY <1>2, <4>1, <4>2
    <3>3. i = Len(due) /\ Ended
      BY <1>3, <3>2
    <3> QED
      BY <1>4, <3>1, <3>3
  <2>2. ASSUME NEW j \in i+1 .. Len(sent) PROVE sent[j].kind = "done"
    <3>1. j = m + 1 /\ Total[j] = Done /\ j \in 1..Len(sent)
      BY <1>1, <1>2, <2>1, SentOfTotal
    <3>2. sent[j] = Done
      BY <3>1, SentOfTotal
    <3> QED
      BY <3>2 DEF Done
  <2>3. ASSUME NEW k \in DOMAIN due, due[k].kind # "done" PROVE k < i /\ sent[k] = due[k]
    <3>1. k \in 1..Len(due) /\ k # Len(due)
      BY <1>2, <1>1, <1>4, <2>1, <2>3, SentOfTotal
    <3>2. k < i /\ k \in 1..m /\ k \in 1..Len(sent)
      BY <1>2, <2>1, <3>1, SentOfTotal
    <3>3. sent[k] = Total[k] /\ Total[k] = due[k]
      BY <1>1, <3>2, SentOfTotal
    <3> QED
      BY <3>2, <3>3
  <2> QED
    BY <2>1, <2>2, <2>3
<1>5. CASE i \notin 1..m
  <2>1. i = m + 1 /\ Len(Total) = m + 1 /\ Len(sent) = i
    <3>1. m \in Nat /\ (Len(Total) = m \/ Len(Total) = m + 1)
      <4>1. m \in Nat
        BY SentOfTotal
      <4>2. Len(Total) = m \/ Len(Total) = m + 1
        BY <1>1, Zenon
      <4> QED
        BY <4>1, <4>2
    <3>2. Len(sent) \in Nat /\ Len(sent) <= Len(Total)
      BY SentOfTotal
    <3> QED
      BY <1>2, <1>5, <3>1, <3>2
  <2>2. Total[m + 1] # Error
    BY <1>2, <2>1 DEF Error
  <2>3. m = Len(due) /\ Ended
    BY <1>1, <2>1, <2>2
  <2>4. \A j \in i+1 .. Len(sent) : FALSE
    BY <1>2, <2>1, SentOfTotal
  <2>5. ASSUME NEW k \in DOMAIN due PROVE k < i /\ sent[k] = due[k]
    <3>1. k \in 1..m /\ k \in 1..Len(sent) /\ k < i
      BY <2>1, <2>3, SentOfTotal
    <3> QED
      BY <1>1, <3>1, SentOfTotal
  <2> QED
    BY <2>3, <2>4, <2>5
<1> QED
  BY <1>4, <1>5

\* The invariant holds of every reachable state.
LEMMA CInvHolds == Spec => []CInv
  BY InitTotal, NextTotal, PTL DEF Spec

\* Batching loses, repeats and reorders nothing, whatever the settings, the mode, the
\* length of the answer and the point at which it fails or the client leaves.
THEOREM BatchingLosesNothing == Spec => []NothingLost
  BY CInvHolds, InvNothingLost, PTL

\* A "[DONE]" that reaches the client comes after the whole answer.
THEOREM DonePromisesAll == Spec => []DoneMeansComplete
  BY CInvHolds, InvDoneMeansComplete, PTL

(***************************************************************************)
(* Batch sizes.                                                            *)
(***************************************************************************)
\* The sizes before they are capped.
Product == Grown(setting.min, setting.factor)

\* They start with the minimum, and each next one is the factor times the last.
LEMMA ProductLaw ==
  ASSUME setting \in Settings
  PROVE  /\ Product[0] = setting.min
         /\ \A n \in Nat : Product[n] \in Int /\ Product[n + 1] = Product[n] * setting.factor
  BY SettingType, GrowthLaw DEF Product

\* Another state with the same setting has the same product.
LEMMA ProductFixed == setting' = setting => Product' = Product
  BY DEF Product

\* A maximum below one sends one chunk at a time.
AtLeastOne(n) == IF n < 1 THEN 1 ELSE n

\* The batches so far have their documented lengths, the next one will, and the batch in
\* hand is short of it.  Once the stream is ending no more batches come.
Growing ==
  /\ pc \in {"start", "reading"} =>
       /\ \A k \in 1..Len(lens) : lens[k] = DocumentedSize(k)
       /\ Len(batch) < DocumentedSize(Len(lens) + 1)
  /\ pc = "start" => lens = <<>> /\ batch = <<>>
  /\ pc = "reading" =>
       size = IF IsDynamic /\ Product[Len(lens)] < setting.max
                THEN Product[Len(lens)] ELSE setting.max
  /\ BatchesGrow

GInv == TInv /\ Growing

\* While a setting can grow, the products do.
LEMMA ProductGrows ==
  ASSUME setting \in Settings, IsDynamic, NEW n \in Nat
  PROVE  Product[n] >= 1 /\ Product[n + 1] >= Product[n]
<1>1. Product[n] \in Int /\ Product[n + 1] \in Int
  BY ProductLaw
<1>2. setting.min \in Int /\ setting.factor \in Int /\ setting.min >= 1 /\ setting.factor >= 2
  BY SettingType DEF IsDynamic
<1>3. Product[n] >= 1 /\ Product[n + 1] >= 2 * Product[n]
  BY <1>2, GrowthGrows DEF Product
<1> QED
  BY <1>1, <1>3

\* A documented size is that of the capped product, and at least one.
LEMMA DocumentedIs ==
  ASSUME setting \in Settings, NEW n \in Nat
  PROVE  LET capped == IF IsDynamic /\ Product[n] < setting.max THEN Product[n] ELSE setting.max
         IN  /\ DocumentedSize(n + 1) = AtLeastOne(capped)
             /\ capped \in Int /\ DocumentedSize(n + 1) \in Nat \ {0}
<1>1. setting.max \in Int /\ Product[n] \in Int /\ (IsDynamic => Product[n] >= 1)
  BY SettingType, ProductLaw, ProductGrows
<1>2. n + 1 - 1 = n
  OBVIOUS
<1> QED
  BY <1>1, <1>2 DEF DocumentedSize, AtLeastOne, Product

\* The sizes that the code computes are the capped products.
LEMMA NextIsCapped ==
  ASSUME setting \in Settings, NEW n \in Nat,
         size = IF IsDynamic /\ Product[n] < setting.max THEN Product[n] ELSE setting.max
  PROVE  NextSize(size) = IF IsDynamic /\ Product[n + 1] < setting.max
                            THEN Product[n + 1] ELSE setting.max
<1>1. /\ Product[n] \in Int /\ Product[n + 1] = Product[n] * setting.factor
      /\ Product[n + 1] \in Int
  BY ProductLaw
<1>2. IsDynamic => Product[n] >= 1 /\ Product[n + 1] >= Product[n]
  BY ProductGrows
<1>3. CASE ~IsDynamic
  BY <1>3 DEF NextSize
<1>4. CASE IsDynamic /\ Product[n] < setting.max
  BY <1>1, <1>4 DEF NextSize
<1>5. CASE IsDynamic /\ ~(Product[n] < setting.max)
  <2>1. setting.max \in Int /\ setting.factor \in Int /\ setting.factor > 1 /\ setting.max > 0
    BY <1>5, SettingType DEF IsDynamic
  <2>2. setting.max * setting.factor = setting.max + setting.max * (setting.factor - 1)
        /\ setting.max * (setting.factor - 1) \in Nat
    BY <2>1
  <2>3. ~(size * setting.factor < setting.max)
    BY <1>5, <2>1, <2>2
  <2>4. NextSize(size) = setting.max
    BY <2>3 DEF NextSize
  <2> QED
    BY <1>1, <1>2, <1>5, <2>1, <2>4
<1> QED
  BY <1>3, <1>4, <1>5

\* The documented sizes are the same in every state of a stream.
LEMMA DocumentedFixed ==
  ASSUME setting' = setting
  PROVE  IsDynamic' = IsDynamic /\ \A k : DocumentedSize(k)' = DocumentedSize(k)
  BY ProductFixed DEF IsDynamic, DocumentedSize, Product

\* One more batch of its documented length, or of less.
LEMMA OneMoreBatch ==
  ASSUME NEW l, NEW n \in Nat, lens \in Seq(Nat), l = Append(lens, n),
         \A k \in 1..Len(lens) : lens[k] = DocumentedSize(k)
  PROVE  /\ l \in Seq(Nat) /\ Len(l) = Len(lens) + 1 /\ l # <<>> /\ Last(l) = n
         /\ \A k \in 1..Len(lens) : l[k] = DocumentedSize(k)
         /\ l[Len(lens) + 1] = n
<1>1. /\ l \in Seq(Nat) /\ Len(l) = Len(lens) + 1 /\ Len(lens) \in Nat
      /\ \A k \in 1..Len(lens) : l[k] = lens[k]
      /\ l[Len(lens) + 1] = n
  BY AppendProperties
<1>2. l # <<>>
  BY <1>1
<1> QED
  BY <1>1, <1>2 DEF Last

\* At first there are no batches.
LEMMA InitGrowing == Init => Growing
<1> SUFFICES ASSUME Init PROVE Growing
  OBVIOUS
<1>1. setting \in Settings /\ lens = <<>> /\ batch = <<>> /\ pc = "start"
  BY DEF Init
<1>2. DocumentedSize(0 + 1) \in Nat \ {0}
  BY <1>1, DocumentedIs
<1> QED
  BY <1>1, <1>2 DEF Growing, BatchesGrow

\* A step that makes no batch, and goes no further than the one in hand.
LEMMA NoBatch ==
  ASSUME GInv, UNCHANGED <<setting, lens>>,
         pc' \notin {"start", "reading"} \/ UNCHANGED <<pc, batch, size>>
  PROVE  Growing'
<1>1. BatchesGrow' /\ IsDynamic' = IsDynamic /\ Product' = Product
  BY DocumentedFixed, ProductFixed DEF GInv, Growing, BatchesGrow
<1>2. CASE pc' \notin {"start", "reading"}
  BY <1>1, <1>2 DEF Growing
<1>3. CASE UNCHANGED <<pc, batch, size>>
  BY <1>1, <1>3, DocumentedFixed DEF GInv, Growing
<1> QED
  BY <1>2, <1>3

\* The chunk that fills a batch makes it as long as documented.
LEMMA NextChunkGrowing == ASSUME GInv, NextChunk PROVE Growing'
<1>1. PICK k \in Kinds :
        IF Kept(Chunk(k)) THEN Take(Chunk(k)) ELSE UNCHANGED <<due, batch, out, lens, size>>
  BY DEF NextChunk
<1>2. UNCHANGED <<setting, pc>> /\ pc = "reading"
  BY DEF NextChunk
<1>3. /\ setting \in Settings /\ lens \in Seq(Nat) /\ batch \in Seq(Chunks)
      /\ Chunk(k) \in Chunks /\ Len(lens) \in Nat /\ Len(batch) \in Nat
  BY ChunkType DEF GInv, TInv, TypeOK, Shape
<1> DEFINE full == Append(batch, Chunk(k))
           next == DocumentedSize(Len(lens) + 1)
<1>4. Len(full) = Len(batch) + 1 /\ Len(full) \in Nat
  BY <1>3
<1>5. /\ \A i \in 1..Len(lens) : lens[i] = DocumentedSize(i)
      /\ Len(batch) < next
      /\ size = IF IsDynamic /\ Product[Len(lens)] < setting.max
                  THEN Product[Len(lens)] ELSE setting.max
      /\ BatchesGrow
  BY <1>2 DEF GInv, Growing
<1>6. next = AtLeastOne(size) /\ size \in Int /\ next \in Nat \ {0}
  BY <1>3, <1>5, DocumentedIs
<1>7. IsDynamic' = IsDynamic /\ Product' = Product /\ \A i : DocumentedSize(i)' = DocumentedSize(i)
  BY <1>2, DocumentedFixed, ProductFixed
<1> HIDE DEF full, next
<1>8. CASE ~Kept(Chunk(k))
  <2>1. UNCHANGED <<batch, lens, size>>
    BY <1>1, <1>8
  <2> QED
    BY <1>2, <2>1, NoBatch
<1>9. CASE Kept(Chunk(k)) /\ ~(Len(full) >= size)
  <2>1. batch' = full /\ UNCHANGED <<lens, size>>
    BY <1>1, <1>9 DEF Take, full
  <2>2. Len(full) < next
    BY <1>4, <1>6, <1>9 DEF AtLeastOne
  <2>3. BatchesGrow'
    BY <1>5, <1>7, <2>1 DEF BatchesGrow
  <2> QED
    BY <1>2, <1>5, <1>7, <2>1, <2>2, <2>3 DEF Growing, next
<1>10. CASE Kept(Chunk(k)) /\ Len(full) >= size
  <2>1. batch' = <<>> /\ lens' = Append(lens, Len(full)) /\ size' = NextSize(size)
    BY <1>1, <1>10 DEF Take, full
  <2>2. Len(full) = next
    BY <1>4, <1>5, <1>6, <1>10 DEF AtLeastOne
  <2>3. /\ lens' \in Seq(Nat) /\ Len(lens') = Len(lens) + 1 /\ lens' # <<>>
        /\ Last(lens') = Len(full)
        /\ \A i \in 1..Len(lens) : lens'[i] = DocumentedSize(i)
        /\ lens'[Len(lens) + 1] = Len(full)
    BY <1>3, <1>4, <1>5, <2>1, OneMoreBatch
  <2>4. \A i \in 1..Len(lens') : lens'[i] = DocumentedSize(i)
    <3> SUFFICES ASSUME NEW i \in 1..Len(lens') PROVE lens'[i] = DocumentedSize(i)
      OBVIOUS
    <3>1. i \in 1..Len(lens) \/ i = Len(lens) + 1
      BY <1>3, <2>3
    <3> QED
      BY <2>2, <2>3, <3>1 DEF next
  <2>5. size' = IF IsDynamic /\ Product[Len(lens')] < setting.max
                  THEN Product[Len(lens')] ELSE setting.max
    BY <1>3, <1>5, <2>1, <2>3, NextIsCapped
  <2>6. Len(batch') < DocumentedSize(Len(lens') + 1)
    <3>1. Len(lens') \in Nat
      BY <1>3, <2>3
    <3>2. DocumentedSize(Len(lens') + 1) \in Nat \ {0}
      BY <1>3, <3>1, DocumentedIs
    <3>3. Len(batch') = 0
      BY <2>1
    <3> QED
      BY <3>2, <3>3
  <2>7. BatchesGrow'
    <3>1. Last(lens') <= DocumentedSize(Len(lens'))
      BY <1>6, <2>2, <2>3 DEF next
    <3>2. \A i \in 1..Len(lens') - 1 : lens'[i] = DocumentedSize(i)
      BY <1>3, <2>3, <2>4
    <3> QED
      BY <1>7, <3>1, <3>2 DEF BatchesGrow
  <2> QED
    BY <1>2, <1>7, <2>4, <2>5, <2>6, <2>7 DEF Growing
<1> QED
  BY <1>8, <1>9, <1>10

\* Every step keeps to the documented sizes.
LEMMA NextGrowing == GInv /\ [Next]_vars => GInv'
<1> SUFFICES ASSUME GInv, [Next]_vars PROVE Growing'
  BY NextTypes DEF GInv
<1>1. setting \in Settings /\ lens \in Seq(Nat) /\ Len(lens) \in Nat /\ batch \in Seq(Chunks)
  BY DEF GInv, TInv, TypeOK, Shape
<1>2. CASE Reject \/ SourceRaises \/ Leave
  <2>1. UNCHANGED <<setting, lens>> /\ pc' \in {"ending", "left"}
    BY <1>2 DEF Reject, SourceRaises, Leave
  <2> QED
    BY <2>1, NoBatch
<1>3. CASE UNCHANGED vars
  BY <1>3, NoBatch DEF vars
<1>4. CASE Send
  <2>1. UNCHANGED <<setting, lens, batch, size>> /\ pc' \in {pc, "closed"}
    BY <1>4 DEF Send
  <2> QED
    BY <2>1, NoBatch
<1>5. CASE Open
  <2>1. /\ size' = FirstSize /\ UNCHANGED <<setting, lens, batch>>
        /\ pc = "start" /\ pc' = "reading"
    BY <1>5 DEF Open
  <2>2. lens = <<>> /\ batch = <<>> /\ Len(lens) = 0 /\ Len(lens') = 0
    BY <2>1 DEF GInv, Growing
  <2>3. /\ IsDynamic' = IsDynamic /\ Product' = Product
        /\ \A i : DocumentedSize(i)' = DocumentedSize(i)
    BY <2>1, DocumentedFixed, ProductFixed
  <2>4. size' = IF IsDynamic /\ Product[0] < setting.max THEN Product[0] ELSE setting.max
    <3>1. Product[0] = setting.min
      BY <1>1, ProductLaw
    <3>2. IsDynamic => setting.min < setting.max
      BY <1>1, SettingType DEF IsDynamic
    <3> QED
      BY <2>1, <3>1, <3>2 DEF FirstSize
  <2>5. BatchesGrow'
    BY <2>1, <2>3 DEF GInv, Growing, BatchesGrow
  <2> QED
    BY <2>1, <2>2, <2>3, <2>4, <2>5 DEF GInv, Growing
<1>6. CASE NextChunk
  BY <1>6, NextChunkGrowing
<1>7. CASE SourceEnds
  <2>1. /\ lens' = IF batch = <<>> THEN lens ELSE Append(lens, Len(batch))
        /\ setting' = setting /\ pc = "reading" /\ pc' = "ending"
    BY <1>7 DEF SourceEnds
  <2>2. CASE batch = <<>>
    BY <2>1, <2>2, NoBatch
  <2>3. CASE batch # <<>>
    <3>1. Len(batch) \in Nat /\ Len(batch) < DocumentedSize(Len(lens) + 1)
          /\ \A k \in 1..Len(lens) : lens[k] = DocumentedSize(k)
      BY <1>1, <2>1 DEF GInv, Growing
    <3>2. /\ Len(lens') = Len(lens) + 1 /\ Last(lens') = Len(batch)
          /\ \A i \in 1..Len(lens) : lens'[i] = DocumentedSize(i)
      BY <1>1, <2>1, <2>3, <3>1, OneMoreBatch
    <3>3. DocumentedSize(Len(lens) + 1) \in Nat
      BY <1>1, DocumentedIs
    <3>4. \A i : DocumentedSize(i)' = DocumentedSize(i)
      BY <2>1, DocumentedFixed
    <3>5. BatchesGrow'
      BY <1>1, <3>1, <3>2, <3>3, <3>4 DEF BatchesGrow
    <3> QED
      BY <2>1, <3>5 DEF Growing
  <2> QED
    BY <2>2, <2>3
<1> QED
  BY <1>2, <1>3, <1>4, <1>5, <1>6, <1>7 DEF Next, Advance

\* Every batch has the length that configuration.md documents for it, for all settings
\* and answers of any length: the smallest size times a power of the factor, capped.
THEOREM SizesAsDocumented == Spec => []BatchesGrow
<1>1. Init => GInv
  BY InitTypes, InitGrowing DEF GInv
<1>2. GInv => BatchesGrow
  BY DEF GInv, Growing
<1> QED
  BY <1>1, <1>2, NextGrowing, PTL DEF Spec
=============================================================================
