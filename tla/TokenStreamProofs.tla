-------------------------- MODULE TokenStreamProofs --------------------------
(***************************************************************************)
(* Proofs about TokenStream for any jobs, settings and bounds: type        *)
(* correctness, the usage that goes with each batch, the size of each, and *)
(* that what a job hands over implements AnswerRelay, so that every choice *)
(* is heard in order, each token once, and an answer that counts as        *)
(* complete is whole.                                                      *)
(***************************************************************************)
EXTENDS TokenStream, GrowthProofs, FiniteSetTheorems, SequenceTheorems, TLAPS

USE BoundsAssumption, DefaultsAssumption, JobsAssumption

(***************************************************************************)
(* Settings and sizes.                                                     *)
(***************************************************************************)
\* A batch size is a fraction.
SizeOK == size.n \in Int /\ size.d \in Nat \ {0}

\* Whatever a job leaves out or sets to zero, its settings are numbers.
LEMMA SettingType ==
  ASSUME job \in Jobs
  PROVE  /\ Setting.max \in Int /\ Setting.min \in Int /\ Setting.factor \in Int
         /\ IsDynamic => Setting.max > 1 /\ Setting.factor > 2
<1>1. {job.max, job.min, job.factor} \subseteq Int \cup {None}
  OBVIOUS
<1>2. /\ Or(job.max, Defaults.max) \in Int
      /\ Or(job.min, Defaults.min) \in Int
      /\ Or(job.factor, Defaults.factor) \in Int
  BY <1>1 DEF Or
<1> QED
  BY <1>2 DEF Setting, IsDynamic

\* The first size is one, and at most the maximum.
LEMMA FirstSizeType ==
  ASSUME job \in Jobs
  PROVE  /\ FirstSize.n \in Int /\ FirstSize.d = 1
         /\ FirstSize.n <= Setting.max * FirstSize.d
  BY SettingType DEF FirstSize, IsDynamic

\* Growing keeps a size a fraction, and at most the maximum.
LEMMA NextSizeType ==
  ASSUME job \in Jobs, SizeOK, size.n <= Setting.max * size.d
  PROVE  /\ NextSize(size).n \in Int /\ NextSize(size).d \in Nat \ {0}
         /\ NextSize(size).n <= Setting.max * NextSize(size).d
<1>1. Setting.max \in Int /\ Setting.factor \in Int /\ size.n \in Int /\ size.d \in Nat \ {0}
  BY SettingType DEF SizeOK
<1>2. CASE ~IsDynamic
  BY <1>1, <1>2 DEF NextSize
<1>3. CASE IsDynamic /\ size.n * Setting.factor < Setting.max * size.d * 2
  <2>1. NextSize(size) = [n |-> size.n * Setting.factor, d |-> size.d * 2]
    BY <1>3 DEF NextSize
  <2>2. size.n * Setting.factor \in Int /\ size.d * 2 \in Nat \ {0}
    BY <1>1
  <2>3. Setting.max * size.d * 2 = Setting.max * (size.d * 2)
    BY <1>1
  <2> QED
    BY <1>1, <1>3, <2>1, <2>2, <2>3
<1>4. CASE IsDynamic /\ ~(size.n * Setting.factor < Setting.max * size.d * 2)
  <2>1. NextSize(size) = [n |-> Setting.max, d |-> 1]
    BY <1>4 DEF NextSize
  <2> QED
    BY <1>1, <2>1
<1> QED
  BY <1>2, <1>3, <1>4

\* A count short of the size is short of the maximum.
LEMMA ShortOfMax ==
  ASSUME NEW count \in Nat, job \in Jobs, SizeOK, size.n <= Setting.max * size.d, ~Full(count)
  PROVE  count < Setting.max
<1>1. Setting.max \in Int /\ size.n \in Int /\ size.d \in Nat \ {0}
  BY SettingType DEF SizeOK
<1>2. count * size.d < Setting.max * size.d
  BY <1>1 DEF Full
<1>3. \A m \in Int, c \in Int, d \in Nat : m <= c => m * d <= c * d
  <2> SUFFICES ASSUME NEW m \in Int, NEW c \in Int, NEW d \in Nat, m <= c
               PROVE  m * d <= c * d
    OBVIOUS
  <2>1. c * d = m * d + (c - m) * d
    OBVIOUS
  <2>2. (c - m) * d \in Nat
    OBVIOUS
  <2> QED
    BY <2>1, <2>2
<1> QED
  BY <1>1, <1>2, <1>3

(***************************************************************************)
(* Type correctness.                                                       *)
(***************************************************************************)
\* vLLM has room left for the choices still to be looked at.
Capacity == counter.total + Cardinality(pending) <= MaxOutputs

TInv == TypeOK /\ SizeOK /\ Capacity

\* The choices of a job that asks for n.
LEMMA ChoicesCounted ==
  ASSUME NEW n \in Nat
  PROVE  IsFiniteSet(1..n) /\ Cardinality(1..n) = n
<1>1. 1 \in Int /\ n \in Int
  OBVIOUS
<1>2. IsFiniteSet(1..n) /\ Cardinality(1..n) = IF 1 > n THEN 0 ELSE n - 1 + 1
  BY <1>1, FS_Interval, Zenon
<1> QED
  BY <1>2

\* A set of choices is finite and has at most as many members as there are choices.
LEMMA ChoicesFinite ==
  ASSUME job \in Jobs, NEW S \in SUBSET Indices
  PROVE  IsFiniteSet(S) /\ Cardinality(S) \in Nat /\ Cardinality(S) <= job.n
<1>1. job.n \in Nat
  OBVIOUS
<1>2. IsFiniteSet(Indices) /\ Cardinality(Indices) = job.n
  BY <1>1, ChoicesCounted DEF Indices
<1> QED
  BY <1>2, FS_Subset, FS_CardinalityType

\* The job, once chosen, stays.
LEMMA JobStays == [Next]_vars => UNCHANGED job
  BY DEF Next, vars, RefuseJob, Begin, RelayOpenAI, RaiseOpenAI, NextOutput, Take,
         SourceEnds, SourceRaises

\* Every batch is empty at first.
LEMMA InitTypes == Init => TInv
<1> SUFFICES ASSUME Init PROVE TInv
  OBVIOUS
<1>1. job \in Jobs
  BY DEF Init
<1>2. SizeOK /\ size.n <= Setting.max * size.d
  BY <1>1, FirstSizeType DEF Init, SizeOK
<1>3. Capacity
  BY FS_EmptySet DEF Init, Capacity
<1>4. Setting.max \in Int
  BY <1>1, SettingType
<1> QED
  BY <1>1, <1>2, <1>3, <1>4 DEF Init, TInv, TypeOK, SizeOK, EmptyBatch, Larger

\* Taking a choice keeps the types.
LEMMA TakeTypes == ASSUME TInv, NEW i \in Indices, Take(i) PROVE TInv'
<1> DEFINE count == IF job.stream THEN counter.batch + 1 ELSE counter.batch
           full  == job.stream /\ Full(count)
<1>1. job \in Jobs /\ job' = job /\ Indices' = Indices /\ Setting' = Setting
  BY DEF TInv, TypeOK, Take, Indices, Setting
<1>2. /\ pending' = pending \ {i} /\ i \in pending /\ pending \subseteq Indices
      /\ UNCHANGED <<pc, text>>
      /\ last' = [last EXCEPT ![i] = text[i]]
      /\ counter' = [batch |-> IF full THEN 0 ELSE count, total |-> counter.total + 1]
      /\ IF full THEN HandOver(Gathered(i), count, counter.total + 1)
                 ELSE batch' = Gathered(i) /\ UNCHANGED <<heard, handed, size>>
  BY DEF TInv, TypeOK, Take
<1>3. IsFiniteSet(pending) /\ Cardinality(pending) \in Nat
  BY <1>1, <1>2, ChoicesFinite
<1>4. Cardinality(pending') = Cardinality(pending) - 1
  BY <1>2, <1>3, FS_RemoveElement
<1>5. counter.total \in 0..MaxOutputs /\ counter.total + Cardinality(pending) <= MaxOutputs
  BY DEF TInv, TypeOK, Capacity
<1>6. Cardinality(pending') \in Nat
  BY <1>1, <1>2, ChoicesFinite
<1>7. counter'.total \in 0..MaxOutputs /\ Capacity'
  BY <1>2, <1>3, <1>4, <1>5, <1>6 DEF Capacity
<1>8. Setting.max \in Int /\ counter.batch \in 0..Larger(1, Setting.max) - 1
  BY <1>1, SettingType DEF TInv, TypeOK
<1>9. counter'.batch \in 0..Larger(1, Setting.max) - 1
  <2>1. CASE full
    BY <1>2, <1>8, <2>1 DEF Larger
  <2>2. CASE ~full /\ job.stream
    <3>1. count \in Nat /\ ~Full(count)
      BY <1>8, <2>2
    <3>2. count < Setting.max
      BY <1>1, <3>1, ShortOfMax DEF TInv, TypeOK
    <3> QED
      BY <1>2, <1>8, <2>2, <3>1, <3>2 DEF Larger
  <2>3. CASE ~job.stream
    BY <1>2, <1>8, <2>3
  <2> QED
    BY <2>1, <2>2, <2>3
<1>10. SizeOK' /\ size'.n <= Setting.max * size'.d
  <2>1. size' = size \/ size' = NextSize(size)
    BY <1>2 DEF HandOver
  <2> QED
    BY <1>1, <2>1, NextSizeType DEF TInv, TypeOK, SizeOK
<1>11. DOMAIN batch' = Indices /\ DOMAIN heard' = Indices
  BY <1>2 DEF TInv, TypeOK, HandOver, Gathered, Delivered, EmptyBatch
<1>12. last' \in [Indices -> 0..MaxText]
  BY <1>2 DEF TInv, TypeOK
<1> QED
  BY <1>1, <1>2, <1>7, <1>9, <1>10, <1>11, <1>12 DEF TInv, TypeOK, SizeOK

\* Every step keeps the types.
LEMMA NextTypes == TInv /\ [Next]_vars => TInv'
<1> SUFFICES ASSUME TInv, [Next]_vars PROVE TInv'
  OBVIOUS
<1>1. job \in Jobs /\ job' = job /\ Indices' = Indices /\ Setting' = Setting
  BY JobStays DEF TInv, TypeOK, Indices, Setting
<1>2. CASE RefuseJob \/ RelayOpenAI \/ RaiseOpenAI \/ SourceRaises \/ UNCHANGED vars
  BY <1>1, <1>2 DEF TInv, TypeOK, SizeOK, Capacity, RefuseJob, RelayOpenAI, RaiseOpenAI,
                    HandleError,
                    SourceRaises, vars
<1>3. CASE Begin
  <2>1. SizeOK' /\ size'.n <= Setting.max * size'.d
    BY <1>1, <1>3, FirstSizeType DEF Begin, SizeOK
  <2> QED
    BY <1>1, <1>3, <2>1 DEF TInv, TypeOK, SizeOK, Capacity, Begin
<1>4. CASE NextOutput
  <2>1. /\ pending' \subseteq Indices
        /\ counter' = counter /\ counter.total + job.n <= MaxOutputs
        /\ \E grown \in [pending' -> 0..2] :
             text' = [k \in Indices |-> text[k] + IF k \in pending' THEN grown[k] ELSE 0]
        /\ \A k \in Indices : text'[k] <= MaxText
    BY <1>4 DEF NextOutput
  <2>2. Capacity'
    <3>1. Cardinality(pending') \in Nat /\ Cardinality(pending') <= job.n
      BY <1>1, <2>1, ChoicesFinite
    <3> QED
      BY <1>1, <2>1, <3>1 DEF Capacity, TInv, TypeOK
  <2>3. text' \in [Indices -> 0..MaxText]
    BY <2>1 DEF TInv, TypeOK
  <2> QED
    BY <1>1, <1>4, <2>1, <2>2, <2>3 DEF TInv, TypeOK, SizeOK, NextOutput
<1>5. CASE SourceEnds
  <2>1. DOMAIN heard' = Indices
    BY <1>5 DEF SourceEnds, Delivered, TInv, TypeOK
  <2> QED
    BY <1>1, <1>5, <2>1 DEF TInv, TypeOK, SizeOK, Capacity, SourceEnds
<1>6. ASSUME NEW i \in Indices, Take(i) PROVE TInv'
  BY <1>6, TakeTypes
<1> QED
  BY <1>2, <1>3, <1>4, <1>5, <1>6 DEF Next

\* The types hold of every reachable state.
LEMMA TInvHolds == Spec => []TInv
  BY InitTypes, NextTypes, PTL DEF Spec

\* The type invariant, with what is never exceeded: a batch short of its size is short
\* of the largest size, and no size passes the job's maximum.
THEOREM TypeCorrect == Spec => []TypeOK
<1>1. TInv => TypeOK
  BY DEF TInv
<1> QED
  BY <1>1, TInvHolds, PTL

(***************************************************************************)
(* The usage that goes with a batch.                                       *)
(***************************************************************************)
Handed == [kind : {"batch"}, count : Int, output : Int] \cup {Error}

\* As long as the job runs, it has handed over batches only.
Running == pc \in {"received", "open"}

NoErrorYet ==
  /\ handed \in Seq(Handed)
  /\ Running => \A k \in DOMAIN handed : handed[k].kind = "batch"

\* The usage of the last batch.
Reported == IF handed = <<>> THEN 0 ELSE handed[Len(handed)].output

\* A running stream has counted what it last reported and what is gathered since.
CountsUp == Running /\ job.stream => counter.total = Reported + counter.batch

UInv == TInv /\ NoErrorYet /\ CountsUp /\ UsageCounts

\* A batch is one of the things handed over, and has its own usage.
LEMMA BatchType ==
  ASSUME NEW count \in Int, NEW output \in Int
  PROVE  /\ Batch(count, output) \in Handed
         /\ Batch(count, output).kind = "batch"
         /\ Batch(count, output).count = count
         /\ Batch(count, output).output = output
  BY DEF Batch, Handed

\* An error is handed over too, and is no batch.
LEMMA ErrorType == Error \in Handed /\ Error.kind = "error"
  BY DEF Error, Handed

\* As long as the job runs, what it last reported is a number.
LEMMA ReportedType == ASSUME NoErrorYet, Running PROVE Reported \in Int
<1>1. CASE handed = <<>>
  BY <1>1 DEF Reported
<1>2. CASE handed # <<>>
  <2>1. Len(handed) \in DOMAIN handed /\ handed[Len(handed)] \in Handed
    BY <1>2 DEF NoErrorYet
  <2>2. handed[Len(handed)].kind = "batch"
    BY <2>1 DEF NoErrorYet
  <2>3. handed[Len(handed)] \in [kind : {"batch"}, count : Int, output : Int]
    BY <2>1, <2>2, ErrorType DEF Handed
  <2> QED
    BY <1>2, <2>3 DEF Reported
<1> QED
  BY <1>1, <1>2

\* One more thing handed over leaves the others where they are.
LEMMA HandedAppend ==
  ASSUME handed \in Seq(Handed), NEW b \in Handed, handed' = Append(handed, b)
  PROVE  /\ handed' \in Seq(Handed)
         /\ Len(handed) \in Nat /\ Len(handed') = Len(handed) + 1
         /\ DOMAIN handed' = 1..(Len(handed) + 1) /\ DOMAIN handed = 1..Len(handed)
         /\ \A k \in 1..Len(handed) : handed'[k] = handed[k]
         /\ handed'[Len(handed) + 1] = b
         /\ handed' # <<>>
  OBVIOUS

\* A batch that reports its own count on top of the last report keeps UsageCounts.
LEMMA UsageAppend ==
  ASSUME UInv, Running, job' = job, NEW count \in Int, NEW output \in Int,
         job.stream => output = Reported + count,
         handed' = Append(handed, Batch(count, output))
  PROVE  /\ handed' \in Seq(Handed)
         /\ \A k \in DOMAIN handed' : handed'[k].kind = "batch"
         /\ Reported' = output
         /\ UsageCounts'
<1> DEFINE b == Batch(count, output)
<1>1. b \in Handed /\ b.kind = "batch" /\ b.count = count /\ b.output = output
  BY BatchType
<1> HIDE DEF b
<1>2. /\ handed' \in Seq(Handed)
      /\ Len(handed) \in Nat /\ Len(handed') = Len(handed) + 1
      /\ DOMAIN handed' = 1..(Len(handed) + 1) /\ DOMAIN handed = 1..Len(handed)
      /\ \A k \in 1..Len(handed) : handed'[k] = handed[k]
      /\ handed'[Len(handed) + 1] = b
      /\ handed' # <<>>
  <2>1. handed' = Append(handed, b) /\ handed \in Seq(Handed)
    BY DEF b, UInv, NoErrorYet
  <2> QED
    BY <1>1, <2>1, HandedAppend
<1>3. \A k \in DOMAIN handed' : handed'[k].kind = "batch"
  BY <1>1, <1>2 DEF UInv, NoErrorYet
<1>4. Reported' = output
  BY <1>1, <1>2 DEF Reported
<1>5. UsageCounts'
  <2> SUFFICES ASSUME job.stream, NEW k \in DOMAIN handed'
               PROVE  handed'[k].output
                        = handed'[k].count + (IF k = 1 THEN 0 ELSE handed'[k - 1].output)
    BY DEF UsageCounts
  <2>1. CASE k \in DOMAIN handed
    <3>1. handed'[k] = handed[k] /\ (k # 1 => handed'[k - 1] = handed[k - 1])
      BY <1>2, <2>1
    <3>2. handed[k].kind = "batch"
      BY <2>1 DEF UInv, NoErrorYet
    <3> QED
      BY <2>1, <3>1, <3>2 DEF UInv, UsageCounts
  <2>2. CASE k = Len(handed) + 1
    <3>1. handed = <<>> <=> k = 1
      BY <1>2, <2>2 DEF UInv, NoErrorYet
    <3>2. k - 1 = Len(handed)
      BY <1>2, <2>2
    <3>3. k # 1 => Len(handed) \in 1..Len(handed)
      BY <1>2, <2>2
    <3>4. k # 1 => handed'[k - 1] = handed[Len(handed)]
      BY <1>2, <3>2, <3>3
    <3>5. handed'[k] = b
      BY <1>2, <2>2
    <3>6. Reported = IF k = 1 THEN 0 ELSE handed'[k - 1].output
      BY <3>1, <3>4 DEF Reported
    <3>7. Reported \in Int
      BY ReportedType DEF UInv
    <3>8. handed'[k].output = output /\ handed'[k].count = count /\ output = Reported + count
      BY <1>1, <3>5
    <3>9. output = count + Reported
      BY <3>7, <3>8
    <3> QED
      BY <3>6, <3>8, <3>9, Zenon
  <2> QED
    BY <1>2, <2>1, <2>2
<1> QED
  BY <1>2, <1>3, <1>4, <1>5

\* An error at the end leaves the usage of the batches alone.
LEMMA UsageError ==
  ASSUME UInv, job' = job, handed' = Append(handed, Error)
  PROVE  handed' \in Seq(Handed) /\ UsageCounts'
<1>1. /\ handed' \in Seq(Handed)
      /\ DOMAIN handed' = 1..(Len(handed) + 1) /\ DOMAIN handed = 1..Len(handed)
      /\ Len(handed) \in Nat
      /\ \A k \in 1..Len(handed) : handed'[k] = handed[k]
      /\ handed'[Len(handed) + 1].kind = "error"
  BY ErrorType, HandedAppend DEF UInv, NoErrorYet
<1>2. ASSUME job.stream, NEW k \in DOMAIN handed', handed'[k].kind = "batch"
      PROVE  handed'[k].output
               = handed'[k].count + (IF k = 1 THEN 0 ELSE handed'[k - 1].output)
  <2>1. k \in DOMAIN handed
    BY <1>1, <1>2
  <2>2. handed'[k] = handed[k] /\ (k # 1 => handed'[k - 1] = handed[k - 1])
    BY <1>1, <2>1
  <2> QED
    BY <1>2, <2>1, <2>2 DEF UInv, UsageCounts
<1> QED
  BY <1>1, <1>2 DEF UsageCounts

\* Every step keeps the count.
LEMMA NextUsage == UInv /\ [Next]_vars => UInv'
<1> SUFFICES ASSUME UInv, [Next]_vars PROVE UInv'
  OBVIOUS
<1>1. TInv' /\ job' = job
  BY NextTypes, JobStays DEF UInv
<1>2. CASE SourceRaises
  BY <1>1, <1>2, UsageError DEF UInv, NoErrorYet, CountsUp, Running, SourceRaises
<1>3. CASE Begin \/ RelayOpenAI \/ NextOutput \/ UNCHANGED vars
  <2>1. UNCHANGED <<handed, counter>> /\ (Running' => Running)
    BY <1>3 DEF Begin, RelayOpenAI, NextOutput, vars, Running
  <2> QED
    BY <1>1, <2>1 DEF UInv, NoErrorYet, CountsUp, Reported, UsageCounts
<1>4. CASE RefuseJob \/ RaiseOpenAI
  <2>1. handed' = handed \/ handed' = Append(handed, Error)
    BY <1>4 DEF RefuseJob, RaiseOpenAI, HandleError
  <2>2. ~Running'
    BY <1>4 DEF RefuseJob, RaiseOpenAI, HandleError, Running
  <2>3. handed' \in Seq(Handed) /\ UsageCounts'
    BY <1>1, <2>1, UsageError DEF UInv, NoErrorYet, UsageCounts
  <2> QED
    BY <1>1, <2>2, <2>3 DEF UInv, NoErrorYet, CountsUp
<1>5. ASSUME NEW i \in Indices, Take(i) PROVE UInv'
  <2> DEFINE count == IF job.stream THEN counter.batch + 1 ELSE counter.batch
             full  == job.stream /\ Full(count)
  <2>1. /\ Running /\ pc' = pc
        /\ counter' = [batch |-> IF full THEN 0 ELSE count, total |-> counter.total + 1]
        /\ IF full THEN HandOver(Gathered(i), count, counter.total + 1)
                   ELSE UNCHANGED handed
    BY <1>5 DEF Take, Running
  <2>2. counter.batch \in Int /\ counter.total \in Int /\ job \in Jobs
    BY DEF UInv, TInv, TypeOK
  <2>3. CASE full
    <3>1. handed' = Append(handed, Batch(count, counter.total + 1))
      BY <2>1, <2>3 DEF HandOver
    <3>2. counter.total + 1 = Reported + count
      BY <2>1, <2>2, <2>3, ReportedType DEF UInv, CountsUp
    <3>3. counter'.total = counter.total + 1 /\ counter'.batch = 0
      BY <2>1, <2>3
    <3>4. count \in Int /\ counter.total + 1 \in Int
      BY <2>2
    <3>5. /\ handed' \in Seq(Handed)
          /\ \A k \in DOMAIN handed' : handed'[k].kind = "batch"
          /\ Reported' = counter.total + 1
          /\ UsageCounts'
      BY <1>1, <2>1, <3>1, <3>2, <3>4, UsageAppend
    <3> QED
      BY <1>1, <2>2, <3>3, <3>5 DEF UInv, NoErrorYet, CountsUp
  <2>4. CASE ~full
    <3>1. handed' = handed /\ counter'.total = counter.total + 1 /\ counter'.batch = count
      BY <2>1, <2>4
    <3>2. Reported' = Reported /\ Running' = Running
      BY <2>1, <3>1 DEF Reported, Running
    <3>3. CountsUp'
      <4> SUFFICES ASSUME job.stream PROVE counter'.total = Reported + counter'.batch
        BY <1>1, <3>2 DEF CountsUp
      <4>1. counter.total = Reported + counter.batch
        BY <2>1 DEF UInv, CountsUp
      <4> QED
        BY <2>1, <2>2, <3>1, <4>1, ReportedType DEF UInv
    <3> QED
      BY <1>1, <3>1, <3>2, <3>3 DEF UInv, NoErrorYet, UsageCounts
  <2> QED
    BY <2>3, <2>4
<1>6. CASE SourceEnds
  <2> DEFINE count == IF job.stream THEN counter.batch ELSE 1
  <2>1. Running /\ ~Running'
    BY <1>6 DEF SourceEnds, Running
  <2>2. counter.batch \in Int /\ counter.total \in Int
    BY DEF UInv, TInv, TypeOK
  <2>3. CASE handed' = Append(handed, Batch(count, counter.total))
    <3>1. job.stream => counter.total = Reported + count
      BY <2>1 DEF UInv, CountsUp
    <3>2. count \in Int
      BY <2>2
    <3>3. handed' \in Seq(Handed) /\ UsageCounts'
      BY <1>1, <2>1, <2>2, <2>3, <3>1, <3>2, UsageAppend
    <3> QED
      BY <1>1, <2>1, <3>3 DEF UInv, NoErrorYet, CountsUp
  <2>4. CASE handed' = handed
    BY <1>1, <2>1, <2>4 DEF UInv, NoErrorYet, CountsUp, UsageCounts
  <2> QED
    BY <1>6, <2>3, <2>4 DEF SourceEnds
<1> QED
  BY <1>2, <1>3, <1>4, <1>5, <1>6 DEF Next

\* At first nothing is counted and nothing handed over.
LEMMA InitUsage == Init => UInv
  BY InitTypes DEF Init, UInv, NoErrorYet, CountsUp, Reported, UsageCounts

\* Both hold of every reachable state.
LEMMA UInvHolds == Spec => []UInv
  BY InitUsage, NextUsage, PTL DEF Spec

\* The usage that a streaming job reports is exact with every batch, for every batch
\* size, growth and number of choices: the client may bill by the last batch it got.
THEOREM UsageIsExact == Spec => []UsageCounts
<1>1. UInv => UsageCounts
  BY DEF UInv
<1> QED
  BY <1>1, UInvHolds, PTL

(***************************************************************************)
(* The answer as AnswerRelay sees it.                                      *)
(***************************************************************************)
\* Of each choice, what was handed over and what is gathered are together all that was
\* seen of its text, in order; nothing is gathered of an answer that is not streamed.
InOrder ==
  \A i \in Indices :
    IF job.stream
    THEN \E h \in 0..last[i] : heard[i] = After(0, h) /\ batch[i] = After(h, last[i])
    ELSE heard[i] = <<>> /\ batch[i] = <<>>

\* A text is seen to its end once its choice has been looked at.
Seen == \A i \in Indices : last[i] <= text[i] /\ (i \notin pending => last[i] = text[i])

\* An uncounted batch is an empty one.
NothingUncounted == counter.batch = 0 => batch = EmptyBatch

\* Before the native generator runs, nothing is said, heard or handed over.
Untouched ==
  pc = "received" \/ job.route # "native" =>
    /\ \A i \in Indices : text[i] = 0 /\ heard[i] = <<>>
    /\ pending = {} /\ handed = <<>>

RInv == UInv /\ (Running => InOrder /\ Seen /\ NothingUncounted /\ Untouched)

\* The pieces of a text, joined.
LEMMA AfterJoins ==
  ASSUME NEW a \in Nat, NEW b \in Nat, NEW c \in Nat, a <= b, b <= c
  PROVE  After(a, b) \o After(b, c) = After(a, c)
<1>1. /\ After(a, b) \in Seq(Nat) /\ Len(After(a, b)) = b - a
      /\ \A j \in 1..(b - a) : After(a, b)[j] = a + j
  BY DEF After
<1>2. /\ After(b, c) \in Seq(Nat) /\ Len(After(b, c)) = c - b
      /\ \A j \in 1..(c - b) : After(b, c)[j] = b + j
  BY DEF After
<1>3. /\ After(a, c) \in Seq(Nat) /\ Len(After(a, c)) = c - a
      /\ \A j \in 1..(c - a) : After(a, c)[j] = a + j
  BY DEF After
<1> HIDE DEF After
<1> DEFINE joined == After(a, b) \o After(b, c)
<1>4. /\ joined \in Seq(Nat) /\ Len(joined) = c - a
      /\ \A j \in 1..(c - a) :
           joined[j] = IF j <= b - a THEN After(a, b)[j] ELSE After(b, c)[j - (b - a)]
  <2>1. /\ joined \in Seq(Nat)
        /\ Len(joined) = Len(After(a, b)) + Len(After(b, c))
        /\ \A j \in 1..Len(After(a, b)) + Len(After(b, c)) :
             joined[j] = IF j <= Len(After(a, b)) THEN After(a, b)[j]
                         ELSE After(b, c)[j - Len(After(a, b))]
    BY <1>1, <1>2, ConcatProperties, Zenon
  <2>2. (b - a) + (c - b) = c - a
    OBVIOUS
  <2> HIDE DEF joined
  <2> QED
    BY <1>1, <1>2, <2>1, <2>2
<1>5. ASSUME NEW j \in 1..(c - a) PROVE joined[j] = After(a, c)[j]
  <2>1. CASE j <= b - a
    BY <1>1, <1>3, <1>4, <2>1
  <2>2. CASE ~(j <= b - a)
    <3>1. j - (b - a) \in 1..(c - b) /\ b + (j - (b - a)) = a + j
      BY <2>2
    <3> QED
      BY <1>2, <1>3, <1>4, <2>2, <3>1
  <2> QED
    BY <2>1, <2>2
<1> HIDE DEF joined
<1>6. joined = After(a, c)
  BY <1>3, <1>4, <1>5, SeqEqual
<1> QED
  BY <1>6 DEF joined

\* Nothing comes after the end of a text.
LEMMA AfterEnd == \A n \in Nat : After(n, n) = <<>>
  BY DEF After

\* What AnswerRelay calls the first tokens are those after none.
LEMMA UptoIsAfter == \A n \in Nat : Relay!Upto(n) = After(0, n) /\ DOMAIN After(0, n) = 1..n
  BY DEF Relay!Upto, After

\* At first nothing is said, seen or gathered.
LEMMA InitRelay == Init => RInv
<1> SUFFICES ASSUME Init PROVE RInv
  OBVIOUS
<1>1. \A i \in Indices : last[i] = 0 /\ text[i] = 0 /\ heard[i] = <<>> /\ batch[i] = <<>>
  BY DEF Init, EmptyBatch
<1>2. InOrder
  <2>1. After(0, 0) = <<>> /\ 0 \in 0..0
    BY AfterEnd
  <2> QED
    BY <1>1, <2>1 DEF InOrder
<1> QED
  BY <1>1, <1>2, InitUsage DEF Init, RInv, Seen, NothingUncounted, Untouched

\* What the batch gathers when a choice has been looked at.
LEMMA TakeGathers ==
  ASSUME RInv, NEW i \in Indices, Take(i), job.stream
  PROVE  /\ \A k \in Indices : \E h \in 0..last'[k] :
              heard[k] = After(0, h) /\ Gathered(i)[k] = After(h, last'[k])
         /\ DOMAIN Gathered(i) = Indices
<1>1. /\ InOrder /\ Seen
      /\ last' = [last EXCEPT ![i] = text[i]]
      /\ last \in [Indices -> 0..MaxText] /\ text \in [Indices -> 0..MaxText]
      /\ DOMAIN batch = Indices
  BY DEF RInv, UInv, TInv, TypeOK, Running, Take
<1>2. Gathered(i) = [batch EXCEPT ![i] = @ \o After(last[i], text[i])]
  BY DEF Gathered
<1>3. ASSUME NEW k \in Indices
      PROVE  \E h \in 0..last'[k] :
               heard[k] = After(0, h) /\ Gathered(i)[k] = After(h, last'[k])
  <2>1. PICK h \in 0..last[k] : heard[k] = After(0, h) /\ batch[k] = After(h, last[k])
    BY <1>1 DEF InOrder
  <2>2. CASE k = i
    <3>1. last[k] \in Nat /\ text[k] \in Nat /\ h \in Nat /\ h <= last[k] /\ last[k] <= text[k]
      BY <1>1, <2>1 DEF Seen
    <3>2. Gathered(i)[k] = After(h, last[k]) \o After(last[k], text[k])
      BY <1>1, <1>2, <2>1, <2>2
    <3>3. After(h, last[k]) \o After(last[k], text[k]) = After(h, text[k])
      BY <3>1, AfterJoins, Zenon
    <3>4. last'[k] = text[k] /\ h \in 0..last'[k]
      BY <1>1, <2>2, <3>1
    <3> QED
      BY <2>1, <3>2, <3>3, <3>4
  <2>3. CASE k # i
    <3>1. last'[k] = last[k] /\ Gathered(i)[k] = batch[k]
      BY <1>1, <1>2, <2>3
    <3> QED
      BY <2>1, <3>1
  <2> QED
    BY <2>2, <2>3
<1> QED
  BY <1>1, <1>2, <1>3

\* Once delivered, the gathered pieces leave nothing of a text unheard that was seen.
LEMMA DeliveredAll ==
  ASSUME NEW tokens, NEW k \in Indices, NEW n \in Nat,
         \E h \in 0..n : heard[k] = After(0, h) /\ tokens[k] = After(h, n)
  PROVE  Delivered(tokens)[k] = After(0, n)
<1>1. PICK h \in 0..n : heard[k] = After(0, h) /\ tokens[k] = After(h, n)
  OBVIOUS
<1>2. 0 \in Nat /\ h \in Nat /\ 0 <= h /\ h <= n
  OBVIOUS
<1>3. After(0, h) \o After(h, n) = After(0, n)
  BY <1>2, AfterJoins, Zenon
<1> QED
  BY <1>1, <1>3 DEF Delivered

\* Taking a choice keeps the answer in order.
LEMMA TakeRelay == ASSUME RInv, NEW i \in Indices, Take(i) PROVE RInv'
<1> DEFINE count == IF job.stream THEN counter.batch + 1 ELSE counter.batch
           full  == job.stream /\ Full(count)
<1>1. /\ UInv' /\ Running /\ Running' /\ Indices' = Indices
      /\ job' = job /\ text' = text /\ pc' = pc /\ pc # "received"
  BY NextUsage DEF Next, RInv, Take, Running, Indices
<1>2. /\ last' = [last EXCEPT ![i] = text[i]] /\ pending' = pending \ {i}
      /\ counter' = [batch |-> IF full THEN 0 ELSE count, total |-> counter.total + 1]
      /\ IF full THEN HandOver(Gathered(i), count, counter.total + 1)
                 ELSE batch' = Gathered(i) /\ UNCHANGED <<heard, handed, size>>
  BY DEF Take
<1>3. /\ last \in [Indices -> 0..MaxText] /\ text \in [Indices -> 0..MaxText]
      /\ counter.batch \in Nat
      /\ \A k \in Indices : last'[k] \in Nat
  BY <1>1 DEF RInv, UInv, TInv, TypeOK
<1>4. InOrder /\ Seen /\ Untouched /\ NothingUncounted
  BY <1>1 DEF RInv
<1>5. Seen'
  BY <1>1, <1>2, <1>3, <1>4 DEF Seen
<1>6. Untouched'
  BY <1>1, <1>4 DEF Untouched, Take
<1>7. CASE full
  <2>1. batch' = EmptyBatch /\ heard' = Delivered(Gathered(i)) /\ EmptyBatch' = EmptyBatch
    BY <1>1, <1>2, <1>7 DEF HandOver, EmptyBatch
  <2>2. ASSUME NEW k \in Indices
        PROVE  /\ last'[k] \in 0..last'[k]
               /\ heard'[k] = After(0, last'[k]) /\ batch'[k] = After(last'[k], last'[k])
    <3>1. heard'[k] = After(0, last'[k])
      BY <1>3, <1>7, <2>1, TakeGathers, DeliveredAll
    <3>2. batch'[k] = <<>>
      BY <2>1 DEF EmptyBatch
    <3> QED
      BY <1>3, <3>1, <3>2, AfterEnd
  <2>3. InOrder'
    BY <1>1, <1>7, <2>2 DEF InOrder
  <2> QED
    BY <1>1, <1>5, <1>6, <2>1, <2>3 DEF RInv, NothingUncounted
<1>8. CASE ~full /\ job.stream
  <2>1. batch' = Gathered(i) /\ heard' = heard /\ counter'.batch # 0
    BY <1>2, <1>3, <1>8
  <2>2. InOrder'
    BY <1>1, <1>8, <2>1, TakeGathers DEF InOrder
  <2> QED
    BY <1>1, <1>5, <1>6, <2>1, <2>2 DEF RInv, NothingUncounted
<1>9. CASE ~job.stream
  <2>1. batch' = batch /\ heard' = heard /\ counter'.batch = counter.batch
    BY <1>2, <1>9 DEF Gathered
  <2>2. InOrder' /\ NothingUncounted'
    BY <1>1, <1>4, <1>9, <2>1 DEF InOrder, NothingUncounted, EmptyBatch
  <2> QED
    BY <1>1, <1>5, <1>6, <2>2 DEF RInv
<1> QED
  BY <1>7, <1>8, <1>9

\* Every step keeps the answer in order.
LEMMA NextRelay == RInv /\ [Next]_vars => RInv'
<1> SUFFICES ASSUME RInv, [Next]_vars PROVE RInv'
  OBVIOUS
<1>1. UInv' /\ job' = job /\ Indices' = Indices /\ EmptyBatch' = EmptyBatch
  BY NextUsage, JobStays DEF RInv, Indices, EmptyBatch
<1>2. CASE RefuseJob \/ RelayOpenAI \/ RaiseOpenAI \/ SourceEnds \/ SourceRaises
  <2>1. ~Running'
    BY <1>2 DEF RefuseJob, RelayOpenAI, RaiseOpenAI, HandleError, SourceEnds, SourceRaises, Running
  <2> QED
    BY <1>1, <2>1 DEF RInv
<1>3. CASE Begin \/ UNCHANGED vars
  <2>1. /\ Running' = Running /\ (pc' = "received" => pc = "received")
        /\ (Begin => pc = "received")
        /\ UNCHANGED <<text, pending, last, batch, counter, heard, handed>>
    BY <1>3 DEF Begin, vars, Running
  <2> QED
    BY <1>1, <2>1 DEF RInv, InOrder, Seen, NothingUncounted, Untouched
<1>4. CASE NextOutput
  <2>1. /\ Running /\ pending = {} /\ pc' = pc /\ job.route = "native" /\ pc # "received"
        /\ UNCHANGED <<last, batch, counter, heard, handed>>
        /\ \E grown \in [pending' -> 0..2] :
             text' = [k \in Indices |-> text[k] + IF k \in pending' THEN grown[k] ELSE 0]
    BY <1>4 DEF NextOutput, Running
  <2>2. last \in [Indices -> 0..MaxText] /\ text \in [Indices -> 0..MaxText]
    BY DEF RInv, UInv, TInv, TypeOK
  <2>3. Seen'
    BY <1>1, <2>1, <2>2 DEF RInv, Seen
  <2> QED
    BY <1>1, <2>1, <2>3 DEF RInv, InOrder, NothingUncounted, Untouched
<1>5. ASSUME NEW i \in Indices, Take(i) PROVE RInv'
  BY <1>5, TakeRelay
<1> QED
  BY <1>2, <1>3, <1>4, <1>5 DEF Next

\* The answer is in order in every reachable state.
LEMMA RInvHolds == Spec => []RInv
  BY InitRelay, NextRelay, PTL DEF Spec

(***************************************************************************)
(* The refinement, step by step.                                           *)
(***************************************************************************)
\* A job's choices are among the choices of any job.
LEMMA ChoicesOfAnyJob == ASSUME job \in Jobs PROVE Indices \subseteq AllIndices
  BY DEF Indices, AllIndices

\* A job that is still running is an open answer.
LEMMA RunningIsOpen == Running => Status = "open"
  BY DEF Running, Status

\* An answer that ends with an error is broken.
LEMMA ErrorBreaks ==
  ASSUME RInv, pc' = "ended", handed' = Append(handed, Error)
  PROVE  Status' = "broken"
<1>1. handed' # <<>> /\ handed'[Len(handed')] = Error
  BY ErrorType, HandedAppend DEF RInv, UInv, NoErrorYet
<1> QED
  BY <1>1 DEF Status, Last

\* An answer that ends with a batch, or without one, is complete.
LEMMA BatchCompletes ==
  ASSUME pc' = "ended", handed' \in Seq(Handed),
         \A k \in DOMAIN handed' : handed'[k].kind = "batch"
  PROVE  Status' = "complete"
<1>1. handed' # <<>> => Len(handed') \in DOMAIN handed'
  OBVIOUS
<1>2. handed' # <<>> => handed'[Len(handed')] # Error
  BY <1>1, ErrorType
<1> QED
  BY <1>2 DEF Status, Last

\* What the engine says, the receiver hears later: nothing is delivered with it.
LEMMA SayStep == ASSUME RInv, NextOutput PROVE Relay!Say
<1>1. /\ job' = job /\ heard' = heard /\ Indices' = Indices /\ Running /\ Running'
      /\ \E grown \in [pending' -> 0..2] :
           text' = [k \in Indices |-> text[k] + IF k \in pending' THEN grown[k] ELSE 0]
  BY DEF NextOutput, Running, Indices
<1>2. text \in [Indices -> 0..MaxText]
  BY DEF RInv, UInv, TInv, TypeOK
<1>3. \A k \in Indices : text'[k] >= text[k]
  BY <1>1, <1>2
<1>4. Status = "open" /\ Status' = "open"
  BY <1>1, RunningIsOpen DEF Running, Status
<1> QED
  BY <1>1, <1>3, <1>4 DEF Relay!Say

\* A batch that is handed over extends what is heard of every choice.
LEMMA HearStep ==
  ASSUME RInv, NEW i \in Indices, Take(i), job.stream, heard' = Delivered(Gathered(i))
  PROVE  Relay!Hear
<1>1. /\ job' = job /\ text' = text /\ Indices' = Indices /\ Running /\ Running'
      /\ InOrder /\ Seen
  BY DEF Take, Running, Indices, RInv
<1>2. /\ last \in [Indices -> 0..MaxText] /\ text \in [Indices -> 0..MaxText]
      /\ last' = [last EXCEPT ![i] = text[i]]
  BY DEF RInv, UInv, TInv, TypeOK, Take
<1>3. ASSUME NEW k \in Indices
      PROVE  /\ last'[k] \in 0..text[k] /\ \A j \in DOMAIN heard[k] : j <= last'[k]
             /\ heard'[k] = Relay!Upto(last'[k])
  <2>1. last'[k] \in 0..text[k] /\ last'[k] \in Nat
    BY <1>1, <1>2 DEF Seen
  <2>2. \E h \in 0..last'[k] : heard[k] = After(0, h) /\ Gathered(i)[k] = After(h, last'[k])
    BY TakeGathers
  <2>3. heard'[k] = After(0, last'[k])
    BY <2>1, <2>2, DeliveredAll
  <2>4. \A j \in DOMAIN heard[k] : j <= last'[k]
    BY <2>1, <2>2, UptoIsAfter
  <2> QED
    BY <2>1, <2>3, <2>4, UptoIsAfter
<1>4. Relay!Upto(0) = <<>>
  BY UptoIsAfter, AfterEnd
<1>5. Status = "open" /\ Status' = "open"
  BY <1>1, RunningIsOpen DEF Running, Status
<1> QED
  BY <1>1, <1>3, <1>4, <1>5 DEF Relay!Hear

\* The last batch, or the whole texts of an answer that is not streamed.
LEMMA LastBatch == ASSUME RInv, SourceEnds PROVE Relay!Complete
<1> DEFINE count == IF job.stream THEN counter.batch ELSE 1
           rest  == IF job.stream THEN batch ELSE [i \in Indices |-> After(0, last[i])]
<1>1. /\ Running /\ pending = {} /\ job' = job /\ Indices' = Indices /\ text' = text
      /\ pc' = "ended"
      /\ IF count > 0 THEN handed' = Append(handed, Batch(count, counter.total))
                            /\ heard' = Delivered(rest)
                      ELSE UNCHANGED <<handed, heard>>
  BY DEF SourceEnds, Running, Indices
<1>2. /\ InOrder /\ Seen /\ NothingUncounted /\ NoErrorYet
      /\ last \in [Indices -> 0..MaxText] /\ text \in [Indices -> 0..MaxText]
      /\ counter.batch \in Nat /\ counter.total \in Int
  BY <1>1 DEF RInv, UInv, TInv, TypeOK
<1>3. ASSUME NEW k \in Indices PROVE heard'[k] = After(0, text[k])
  <2>1. last[k] = text[k] /\ text[k] \in Nat
    BY <1>1, <1>2 DEF Seen
  <2>2. CASE job.stream
    <3>1. PICK h \in 0..last[k] : heard[k] = After(0, h) /\ batch[k] = After(h, last[k])
      BY <1>2, <2>2 DEF InOrder
    <3>2. Delivered(batch)[k] = After(0, text[k])
      BY <2>1, <3>1, DeliveredAll
    <3>3. CASE count > 0
      BY <1>1, <2>2, <3>2, <3>3
    <3>4. CASE ~(count > 0)
      <4>1. counter.batch = 0 /\ heard' = heard
        BY <1>1, <1>2, <2>2, <3>4
      <4>2. batch[k] = <<>>
        BY <1>2, <4>1 DEF NothingUncounted, EmptyBatch
      <4>3. heard[k] \in Seq(Nat)
        BY <3>1 DEF After
      <4>4. Delivered(batch)[k] = heard[k] \o <<>>
        BY <4>2 DEF Delivered
      <4>5. heard[k] \o <<>> = heard[k]
        BY <4>3, ConcatEmptySeq
      <4> QED
        BY <3>2, <4>1, <4>4, <4>5
    <3> QED
      BY <3>3, <3>4
  <2>3. CASE ~job.stream
    <3>1. heard' = Delivered(rest) /\ heard[k] = <<>> /\ rest[k] = After(0, last[k])
      BY <1>1, <1>2, <2>3 DEF InOrder
    <3>2. heard[k] = After(0, 0) /\ 0 \in 0..text[k]
      BY <2>1, <3>1, AfterEnd
    <3>3. Delivered(rest)[k] = After(0, text[k])
      BY <2>1, <3>1, <3>2, DeliveredAll
    <3> QED
      BY <3>1, <3>3
  <2> QED
    BY <2>2, <2>3
<1>4. Status' = "complete"
  <2>1. CASE handed' = handed
    BY <1>1, <1>2, <2>1, BatchCompletes DEF NoErrorYet
  <2>2. CASE handed' = Append(handed, Batch(count, counter.total))
    <3>1. count \in Int
      BY <1>2
    <3>2. /\ handed' \in Seq(Handed)
          /\ \A k \in DOMAIN handed' : handed'[k].kind = "batch"
      <4>1. Batch(count, counter.total) \in Handed /\ Batch(count, counter.total).kind = "batch"
        BY <1>2, <3>1, BatchType
      <4> QED
        BY <1>1, <1>2, <2>2, <4>1, HandedAppend DEF NoErrorYet
    <3> QED
      BY <1>1, <3>2, BatchCompletes
  <2> QED
    BY <1>1, <2>1, <2>2
<1>5. Status = "open"
  BY <1>1, RunningIsOpen
<1>6. Relay!Upto(0) = <<>> /\ \A k \in Indices : Relay!Upto(text[k]) = After(0, text[k])
  BY <1>2, UptoIsAfter, AfterEnd
<1> QED
  BY <1>1, <1>3, <1>4, <1>5, <1>6 DEF Relay!Complete

\* An error is the end of an answer, and nothing is delivered with it.
LEMMA BreakStep ==
  ASSUME Running, Status' = "broken", UNCHANGED <<job, text, heard>>
  PROVE  Relay!Break
<1>1. Status = "open" /\ Indices' = Indices
  BY RunningIsOpen DEF Indices
<1> QED
  BY <1>1 DEF Relay!Break

\* Every step of a job is a step of the answer, or invisible to its receiver.
LEMMA RelayStep == RInv /\ [Next]_vars => [Relay!Next]_(Relay!vars)
<1> SUFFICES ASSUME RInv, [Next]_vars PROVE [Relay!Next]_(Relay!vars)
  OBVIOUS
<1>1. CASE SourceRaises
  <2>1. /\ Running /\ pc' = "ended" /\ handed' = Append(handed, Error)
        /\ UNCHANGED <<job, text, heard>>
    BY <1>1 DEF SourceRaises, Running
  <2> QED
    BY <2>1, ErrorBreaks, BreakStep DEF Relay!Next
<1>2. CASE RefuseJob \/ RaiseOpenAI
  <2>1. Running /\ UNCHANGED <<job, text, heard>>
    BY <1>2 DEF RefuseJob, RaiseOpenAI, Running
  <2>2. Status' = "broken"
    <3>1. CASE pc' = "exited"
      BY <3>1 DEF Status
    <3>2. CASE pc' = "ended" /\ handed' = Append(handed, Error)
      BY <3>2, ErrorBreaks
    <3> QED
      BY <1>2, <3>1, <3>2 DEF RefuseJob, RaiseOpenAI, HandleError
  <2> QED
    BY <2>1, <2>2, BreakStep DEF Relay!Next
<1>3. CASE RelayOpenAI
  <2>1. /\ Running /\ job.route # "native" /\ pc' = "ended" /\ Indices' = Indices
        /\ UNCHANGED <<job, text, heard, handed>>
    BY <1>3 DEF RelayOpenAI, Running, Indices
  <2>2. handed = <<>> /\ \A k \in Indices : text[k] = 0 /\ heard[k] = <<>>
    BY <2>1 DEF RInv, Untouched
  <2>3. Status = "open" /\ Status' = "complete"
    BY <2>1, <2>2, RunningIsOpen DEF Status
  <2>4. Relay!Upto(0) = <<>>
    BY UptoIsAfter, AfterEnd
  <2>5. Relay!Complete
    BY <2>1, <2>2, <2>3, <2>4 DEF Relay!Complete
  <2> QED
    BY <2>5 DEF Relay!Next
<1>4. CASE Begin
  <2>1. Running /\ Running' /\ Indices' = Indices /\ UNCHANGED <<job, text, heard>>
    BY <1>4 DEF Begin, Running, Indices
  <2>2. Status' = Status
    BY <2>1 DEF Running, Status
  <2> QED
    BY <2>1, <2>2 DEF Relay!vars
<1>5. CASE UNCHANGED vars
  BY <1>5 DEF vars, Relay!vars, Indices, Status
<1>6. CASE NextOutput
  BY <1>6, SayStep DEF Relay!Next
<1>7. CASE SourceEnds
  BY <1>7, LastBatch DEF Relay!Next
<1>8. ASSUME NEW i \in Indices, Take(i) PROVE [Relay!Next]_(Relay!vars)
  <2> DEFINE count == IF job.stream THEN counter.batch + 1 ELSE counter.batch
             full  == job.stream /\ Full(count)
  <2>1. IF full THEN HandOver(Gathered(i), count, counter.total + 1)
                ELSE batch' = Gathered(i) /\ UNCHANGED <<heard, handed, size>>
    BY <1>8 DEF Take
  <2>2. CASE full
    <3>1. job.stream /\ heard' = Delivered(Gathered(i))
      BY <2>1, <2>2 DEF HandOver
    <3> QED
      BY <1>8, <3>1, HearStep DEF Relay!Next
  <2>3. CASE ~full
    <3>1. Running /\ Running' /\ Indices' = Indices /\ UNCHANGED <<job, text, heard>>
      BY <1>8, <2>1, <2>3 DEF Take, Running, Indices
    <3>2. Status' = Status
      BY <3>1 DEF Running, Status
    <3> QED
      BY <3>1, <3>2 DEF Relay!vars
  <2> QED
    BY <2>2, <2>3
<1> QED
  BY <1>1, <1>2, <1>3, <1>4, <1>5, <1>6, <1>7, <1>8 DEF Next

\* A job before its first step is an answer of which nothing is said.
LEMMA RelayInit == Init => Relay!Init
<1> SUFFICES ASSUME Init PROVE Relay!Init
  OBVIOUS
<1>1. \A k \in Indices : text[k] = 0 /\ heard[k] = <<>>
  BY DEF Init, EmptyBatch
<1>2. Status = "open" /\ Relay!Upto(0) = <<>>
  BY RunningIsOpen, UptoIsAfter, AfterEnd DEF Init, Running
<1> QED
  BY <1>1, <1>2 DEF Relay!Init

\* _generate_vllm implements AnswerRelay, whatever the batch sizes and however vLLM
\* spreads the tokens of the choices over its outputs: a client hears of each choice
\* a growing prefix, and an answer that ends without an error batch is whole.
THEOREM RelaysTheAnswer == Spec => ImplementsRelay
  BY RelayInit, RelayStep, RInvHolds, PTL DEF Spec, ImplementsRelay, Relay!Spec

(***************************************************************************)
(* Batch sizes.                                                            *)
(***************************************************************************)
\* A size is numerator over denominator of what has grown, until that reaches the
\* maximum.
Numerator   == Grown(Setting.min, Setting.factor)
Denominator == Grown(1, 2)

\* s is the size after m batches.
SizeAfter(s, m) ==
  IF IsDynamic
    THEN \/ /\ s.n = Numerator[m] /\ s.d = Denominator[m]
            /\ Numerator[m] < Setting.max * Denominator[m]
         \/ /\ s.n = Setting.max /\ s.d = 1
            /\ Numerator[m] >= Setting.max * Denominator[m]
    ELSE s.n = Setting.max /\ s.d = 1

\* The least number of a set of numbers.
LEMMA LeastNumber ==
  ASSUME NEW S \in SUBSET Nat, S # {}
  PROVE  \E n \in S : \A m \in S : n <= m
<1> DEFINE R == OpToRel(<, Nat)
<1>1. IsWellFoundedOn(R, Nat)
  BY NatLessThanWellFounded
<1>2. PICK n \in S : \A m \in S : <<m, n>> \notin R
  <2> HIDE DEF R
  <2> QED
    BY <1>1, WFMin
<1>3. \A m \in S : ~(m < n)
  BY <1>2 DEF OpToRel
<1> QED
  BY <1>3

\* Multiplying with a positive number keeps what is less.
LEMMA Monotone ==
  ASSUME NEW a \in Int, NEW b \in Int, NEW d \in Nat \ {0}
  PROVE  a * d < b * d <=> a < b
<1>1. ASSUME NEW x \in Int, NEW y \in Int, x < y PROVE x * d < y * d
  <2>1. \A e \in Nat \ {0} : e * d \in Nat \ {0}
    OBVIOUS
  <2>2. y - x \in Nat \ {0}
    BY <1>1
  <2>3. (y - x) * d \in Nat \ {0}
    BY <2>1, <2>2
  <2>4. y * d = x * d + (y - x) * d
    OBVIOUS
  <2> QED
    BY <2>3, <2>4
<1>2. CASE a < b
  BY <1>1, <1>2
<1>3. CASE a = b
  BY <1>3
<1>4. CASE b < a
  BY <1>1, <1>4
<1> QED
  BY <1>2, <1>3, <1>4

\* Numerator and denominator are positive, and grow as the code multiplies.
LEMMA Fractions ==
  ASSUME job \in Jobs, IsDynamic, NEW m \in Nat
  PROVE  /\ Numerator[m] \in Nat \ {0} /\ Denominator[m] \in Nat \ {0}
         /\ Numerator[m + 1] = Numerator[m] * Setting.factor
         /\ Denominator[m + 1] = Denominator[m] * 2
         /\ Numerator[m + 1] \in Nat /\ Numerator[m + 1] >= 2 * Numerator[m]
<1>1. /\ Setting.min \in Int /\ Setting.factor \in Int
      /\ Setting.min >= 1 /\ Setting.factor >= 2
  BY SettingType DEF IsDynamic
<1>2. /\ Numerator[m] \in Int /\ Numerator[m + 1] = Numerator[m] * Setting.factor
      /\ Numerator[m + 1] \in Int
  <2>1. \A k \in Nat : /\ Numerator[k] \in Int
                      /\ Numerator[k + 1] = Numerator[k] * Setting.factor
    BY <1>1, GrowthLaw DEF Numerator
  <2> QED
    BY <2>1
<1>3. Denominator[m] \in Int /\ Denominator[m + 1] = Denominator[m] * 2
  <2>1. \A k \in Nat : /\ Denominator[k] \in Int
                      /\ Denominator[k + 1] = Denominator[k] * 2
    <3>1. 1 \in Int /\ 2 \in Int
      OBVIOUS
    <3> QED
      BY <3>1, GrowthLaw, Zenon DEF Denominator
  <2> QED
    BY <2>1
<1>4. Numerator[m] >= 1 /\ Numerator[m + 1] >= 2 * Numerator[m]
  BY <1>1, GrowthGrows DEF Numerator
<1>5. Denominator[m] >= 1
  BY GrowthGrows DEF Denominator
<1> QED
  BY <1>2, <1>3, <1>4, <1>5

\* The first size is the minimum.
LEMMA FirstSizeAfter == ASSUME job \in Jobs PROVE SizeAfter(FirstSize, 0)
<1>1. CASE IsDynamic
  <2>1. /\ Setting.min \in Int /\ Setting.factor \in Int /\ Setting.max \in Int
        /\ Setting.min < Setting.max
    BY <1>1, SettingType DEF IsDynamic
  <2>2. Numerator[0] = Setting.min
    BY <2>1, GrowthLaw DEF Numerator
  <2>3. Denominator[0] = 1
    BY GrowthLaw DEF Denominator
  <2> QED
    BY <1>1, <2>1, <2>2, <2>3 DEF SizeAfter, FirstSize
<1>2. CASE ~IsDynamic
  BY <1>2 DEF SizeAfter, FirstSize
<1> QED
  BY <1>1, <1>2

\* NextSize computes the size after one more batch.
LEMMA NextSizeAfter ==
  ASSUME job \in Jobs, NEW m \in Nat, SizeAfter(size, m)
  PROVE  SizeAfter(NextSize(size), m + 1)
<1>1. CASE ~IsDynamic
  BY <1>1 DEF SizeAfter, NextSize
<1>2. CASE IsDynamic
  <2>1. /\ Numerator[m] \in Nat \ {0} /\ Denominator[m] \in Nat \ {0}
        /\ Numerator[m + 1] = Numerator[m] * Setting.factor
        /\ Denominator[m + 1] = Denominator[m] * 2
        /\ Numerator[m + 1] \in Nat /\ Numerator[m + 1] >= 2 * Numerator[m]
    BY <1>2, Fractions
  <2>2. Setting.max \in Int /\ Setting.max > 1 /\ Setting.factor \in Int /\ Setting.factor > 2
    BY <1>2, SettingType
  <2>3. Setting.max * Denominator[m] \in Int
        /\ Setting.max * Denominator[m] * 2 = Setting.max * Denominator[m + 1]
    BY <2>1, <2>2
  <2>4. CASE /\ size.n = Numerator[m] /\ size.d = Denominator[m]
             /\ Numerator[m] < Setting.max * Denominator[m]
    <3>1. CASE size.n * Setting.factor < Setting.max * size.d * 2
      <4>1. NextSize(size) = [n |-> Numerator[m + 1], d |-> Denominator[m + 1]]
        BY <1>2, <2>1, <2>4, <3>1 DEF NextSize
      <4>2. Numerator[m + 1] < Setting.max * Denominator[m + 1]
        BY <2>1, <2>3, <2>4, <3>1
      <4> QED
        BY <1>2, <4>1, <4>2 DEF SizeAfter
    <3>2. CASE ~(size.n * Setting.factor < Setting.max * size.d * 2)
      <4>1. NextSize(size) = [n |-> Setting.max, d |-> 1]
        BY <1>2, <3>2 DEF NextSize
      <4>2. Numerator[m + 1] >= Setting.max * Denominator[m + 1]
        BY <2>1, <2>3, <2>4, <3>2
      <4> QED
        BY <1>2, <4>1, <4>2 DEF SizeAfter
    <3> QED
      BY <3>1, <3>2
  <2>5. CASE /\ size.n = Setting.max /\ size.d = 1
             /\ Numerator[m] >= Setting.max * Denominator[m]
    <3>1. 2 * Setting.max < Setting.factor * Setting.max
      BY <2>2, Monotone
    <3>2. ~(size.n * Setting.factor < Setting.max * size.d * 2)
      BY <2>2, <2>5, <3>1
    <3>3. NextSize(size) = [n |-> Setting.max, d |-> 1]
      BY <1>2, <3>2 DEF NextSize
    <3>4. Numerator[m + 1] >= Setting.max * Denominator[m + 1]
      BY <2>1, <2>3, <2>5
    <3> QED
      BY <1>2, <3>3, <3>4 DEF SizeAfter
  <2> QED
    BY <1>2, <2>4, <2>5 DEF SizeAfter
<1> QED
  BY <1>1, <1>2

\* The count at which a batch is first full is the documented one.
LEMMA FullIsDocumented ==
  ASSUME job \in Jobs, NEW m \in Nat, SizeAfter(size, m),
         NEW count \in Nat \ {0}, Full(count), count = 1 \/ ~Full(count - 1)
  PROVE  DocumentedCount(m + 1, count)
<1>1. Setting.max \in Int /\ m + 1 - 1 = m
  BY SettingType
<1>2. CASE ~IsDynamic
  <2>1. count >= Setting.max /\ (count = 1 \/ count - 1 < Setting.max)
    BY <1>1, <1>2 DEF SizeAfter, Full
  <2> QED
    BY <1>1, <1>2, <2>1 DEF DocumentedCount, Larger
<1>3. CASE IsDynamic
  <2>1. Numerator[m] \in Nat \ {0} /\ Denominator[m] \in Nat \ {0}
    BY <1>3, Fractions
  <2>2. Setting.max > 1 /\ Larger(1, Setting.max) = Setting.max
    BY <1>1, <1>3, SettingType DEF Larger
  <2>3. DocumentedCount(m + 1, count) <=>
          /\ count <= Setting.max /\ (count - 1) * Denominator[m] < Numerator[m]
          /\ count = Setting.max \/ count * Denominator[m] >= Numerator[m]
    BY <1>1, <1>3, <2>2 DEF DocumentedCount, Numerator, Denominator
  <2>4. CASE /\ size.n = Numerator[m] /\ size.d = Denominator[m]
             /\ Numerator[m] < Setting.max * Denominator[m]
    <3>1. count * Denominator[m] >= Numerator[m]
      BY <2>4 DEF Full
    <3>2. (count - 1) * Denominator[m] < Numerator[m]
      <4>1. CASE count = 1
        BY <2>1, <4>1
      <4>2. CASE ~Full(count - 1)
        BY <2>1, <2>4, <4>2 DEF Full
      <4> QED
        BY <4>1, <4>2
    <3>3. (count - 1) * Denominator[m] < Setting.max * Denominator[m]
      <4>1. (count - 1) * Denominator[m] \in Int /\ Setting.max * Denominator[m] \in Int
        BY <1>1, <2>1
      <4> QED
        BY <2>1, <2>4, <3>2, <4>1
    <3>4. count - 1 < Setting.max
      BY <1>1, <2>1, <3>3, Monotone
    <3> QED
      BY <1>1, <2>3, <3>1, <3>2, <3>4
  <2>5. CASE /\ size.n = Setting.max /\ size.d = 1
             /\ Numerator[m] >= Setting.max * Denominator[m]
    <3>1. count >= Setting.max /\ (count = 1 \/ count - 1 < Setting.max)
      BY <1>1, <2>5 DEF Full
    <3>2. count = Setting.max
      BY <1>1, <2>2, <3>1
    <3>3. (count - 1) * Denominator[m] < count * Denominator[m]
      BY <2>1, Monotone
    <3>4. (count - 1) * Denominator[m] < Numerator[m]
      <4>1. (count - 1) * Denominator[m] \in Int /\ count * Denominator[m] \in Int
        BY <2>1
      <4> QED
        BY <2>1, <2>5, <3>2, <3>3, <4>1
    <3> QED
      BY <1>1, <2>3, <3>2, <3>4
  <2> QED
    BY <1>3, <2>4, <2>5 DEF SizeAfter
<1> QED
  BY <1>2, <1>3

\* A count that is not yet full is within some documented one.
LEMMA ShortIsDocumented ==
  ASSUME job \in Jobs, NEW m \in Nat, SizeAfter(size, m), NEW count \in Nat, ~Full(count)
  PROVE  \E n \in count .. Larger(1, Setting.max) : DocumentedCount(m + 1, n)
<1>1. Setting.max \in Int /\ m + 1 - 1 = m
  BY SettingType
<1>2. CASE ~IsDynamic
  <2>1. count < Setting.max
    BY <1>1, <1>2 DEF SizeAfter, Full
  <2>2. Larger(1, Setting.max) \in count .. Larger(1, Setting.max)
    BY <1>1, <2>1 DEF Larger
  <2>3. DocumentedCount(m + 1, Larger(1, Setting.max))
    BY <1>2 DEF DocumentedCount
  <2> QED
    BY <2>2, <2>3
<1>3. CASE IsDynamic
  <2>1. Numerator[m] \in Nat \ {0} /\ Denominator[m] \in Nat \ {0}
    BY <1>3, Fractions
  <2>2. Setting.max > 1 /\ Larger(1, Setting.max) = Setting.max
    BY <1>1, <1>3, SettingType DEF Larger
  <2>3. \A n : DocumentedCount(m + 1, n) <=>
          /\ n <= Setting.max /\ (n - 1) * Denominator[m] < Numerator[m]
          /\ n = Setting.max \/ n * Denominator[m] >= Numerator[m]
    BY <1>1, <1>3, <2>2 DEF DocumentedCount, Numerator, Denominator
  <2>4. CASE /\ size.n = Numerator[m] /\ size.d = Denominator[m]
             /\ Numerator[m] < Setting.max * Denominator[m]
    <3> DEFINE S == {n \in Nat : n * Denominator[m] >= Numerator[m]}
    <3>1. Setting.max \in S
      <4>1. Setting.max \in Nat /\ Setting.max * Denominator[m] \in Int
        BY <1>1, <2>1, <2>2
      <4> QED
        BY <2>1, <2>4, <4>1
    <3>2. PICK n \in S : \A k \in S : n <= k
      BY <3>1, LeastNumber
    <3>3. n \in Nat /\ n * Denominator[m] >= Numerator[m] /\ n <= Setting.max
      BY <3>1, <3>2
    <3>4. n # 0
      BY <2>1, <3>3
    <3>5. n - 1 \in Nat /\ n - 1 \notin S
      BY <3>2, <3>3, <3>4
    <3>6. (n - 1) * Denominator[m] < Numerator[m]
      <4>1. (n - 1) * Denominator[m] \in Int
        BY <2>1, <3>5
      <4> QED
        BY <2>1, <3>5, <4>1
    <3>7. count * Denominator[m] < n * Denominator[m]
      <4>1. count * Denominator[m] < Numerator[m]
        BY <2>1, <2>4 DEF Full
      <4>2. count * Denominator[m] \in Int /\ n * Denominator[m] \in Int
        BY <2>1, <3>3
      <4> QED
        BY <2>1, <3>3, <4>1, <4>2
    <3>8. count < n
      BY <2>1, <3>3, <3>7, Monotone
    <3>9. n \in count .. Larger(1, Setting.max)
      BY <1>1, <2>2, <3>3, <3>8
    <3>10. DocumentedCount(m + 1, n)
      BY <2>3, <3>3, <3>6
    <3> QED
      BY <3>9, <3>10
  <2>5. CASE /\ size.n = Setting.max /\ size.d = 1
             /\ Numerator[m] >= Setting.max * Denominator[m]
    <3>1. count < Setting.max
      BY <1>1, <2>5 DEF Full
    <3>2. (Setting.max - 1) * Denominator[m] < Setting.max * Denominator[m]
      BY <1>1, <2>1, Monotone
    <3>3. (Setting.max - 1) * Denominator[m] < Numerator[m]
      <4>1. /\ (Setting.max - 1) * Denominator[m] \in Int
            /\ Setting.max * Denominator[m] \in Int
        BY <1>1, <2>1
      <4> QED
        BY <2>1, <2>5, <3>2, <4>1
    <3>4. DocumentedCount(m + 1, Setting.max)
      BY <1>1, <2>3, <3>3
    <3>5. Setting.max \in count .. Larger(1, Setting.max)
      BY <1>1, <2>2, <3>1
    <3> QED
      BY <3>4, <3>5
  <2> QED
    BY <1>3, <2>4, <2>5 DEF SizeAfter
<1> QED
  BY <1>2, <1>3

\* A running stream's batches have their documented sizes, the size is that of the next
\* one, and what is gathered does not reach it.
Sized ==
  /\ pc = "received" => handed = <<>> /\ counter.batch = 0
  /\ Running /\ job.stream =>
       /\ \A k \in DOMAIN handed : DocumentedCount(k, handed[k].count)
       /\ SizeAfter(size, Len(handed))
       /\ counter.batch = 0 \/ ~Full(counter.batch)
  /\ DocumentedSizes

SInv == UInv /\ Sized

\* The documented sizes do not change while a job runs.
LEMMA DocumentedFixed ==
  ASSUME job' = job
  PROVE  /\ Setting' = Setting /\ IsDynamic' = IsDynamic
         /\ \A k, n : DocumentedCount(k, n)' = DocumentedCount(k, n)
         /\ \A s, m : SizeAfter(s, m)' = SizeAfter(s, m)
  BY DEF Setting, IsDynamic, DocumentedCount, SizeAfter, Numerator, Denominator

\* At first nothing is handed over.
LEMMA InitSized == Init => Sized
<1> SUFFICES ASSUME Init PROVE Sized
  OBVIOUS
<1>1. job \in Jobs /\ handed = <<>> /\ counter.batch = 0 /\ size = FirstSize /\ Len(handed) = 0
  BY DEF Init
<1>2. SizeAfter(size, Len(handed))
  BY <1>1, FirstSizeAfter
<1> QED
  BY <1>1, <1>2 DEF Sized, DocumentedSizes

\* A job that is over, and handed over at most an error since it ran.
LEMMA EndedSized ==
  ASSUME SInv, Running, ~Running', job' = job,
         handed' = handed \/ handed' = Append(handed, Error)
  PROVE  Sized'
<1>1. \A k, n : DocumentedCount(k, n)' = DocumentedCount(k, n)
  BY DocumentedFixed
<1>2. DocumentedSizes'
  <2> SUFFICES ASSUME job.stream, NEW k \in DOMAIN handed', handed'[k].kind = "batch"
               PROVE  DocumentedCount(k, handed'[k].count)
    BY <1>1 DEF DocumentedSizes
  <2>1. k \in DOMAIN handed /\ handed'[k] = handed[k]
    <3>1. CASE handed' = handed
      BY <3>1
    <3>2. CASE handed' = Append(handed, Error)
      BY <3>2, ErrorType, HandedAppend DEF SInv, UInv, NoErrorYet
    <3> QED
      BY <3>1, <3>2
  <2> QED
    BY <2>1 DEF SInv, Sized
<1> QED
  BY <1>2 DEF Sized, Running

\* Taking a choice: a batch that is handed over has its documented size.
LEMMA TakeSized == ASSUME SInv, NEW i \in Indices, Take(i) PROVE Sized'
<1> DEFINE count == IF job.stream THEN counter.batch + 1 ELSE counter.batch
           full  == job.stream /\ Full(count)
<1>1. /\ job \in Jobs /\ job' = job /\ pc' = pc /\ pc = "open" /\ Running /\ Running'
      /\ counter' = [batch |-> IF full THEN 0 ELSE count, total |-> counter.total + 1]
      /\ IF full THEN HandOver(Gathered(i), count, counter.total + 1)
                 ELSE batch' = Gathered(i) /\ UNCHANGED <<heard, handed, size>>
  BY DEF SInv, UInv, TInv, TypeOK, Take, Running
<1>2. counter.batch \in Nat /\ counter.total \in Int /\ handed \in Seq(Handed)
  <2>1. counter.batch \in 0..Larger(1, Setting.max) - 1 /\ Setting.max \in Int
    BY <1>1, SettingType DEF SInv, UInv, TInv, TypeOK
  <2> QED
    BY <2>1 DEF SInv, UInv, TInv, TypeOK, NoErrorYet
<1>3. /\ Setting' = Setting /\ IsDynamic' = IsDynamic
      /\ \A k, n : DocumentedCount(k, n)' = DocumentedCount(k, n)
      /\ \A s, m : SizeAfter(s, m)' = SizeAfter(s, m)
  BY <1>1, DocumentedFixed
<1>4. CASE ~job.stream
  BY <1>1, <1>4 DEF Sized, DocumentedSizes
<1>5. CASE job.stream /\ ~Full(count)
  <2>1. UNCHANGED <<handed, size>> /\ counter'.batch = count
    BY <1>1, <1>5
  <2>2. ~Full(counter.batch)'
    BY <1>5, <2>1 DEF Full
  <2>3. DocumentedSizes'
    BY <1>1, <1>3, <2>1 DEF DocumentedSizes, SInv, Sized
  <2>4. SizeAfter(size, Len(handed))'
    BY <1>1, <1>3, <1>5, <2>1 DEF SInv, Sized, SizeAfter
  <2> QED
    BY <1>1, <1>3, <1>5, <2>1, <2>2, <2>3, <2>4 DEF SInv, Sized
<1>6. CASE job.stream /\ Full(count)
  <2>1. /\ handed' = Append(handed, Batch(count, counter.total + 1))
        /\ size' = NextSize(size) /\ counter'.batch = 0
    BY <1>1, <1>6 DEF HandOver
  <2>2. count \in Nat \ {0} /\ (count = 1 \/ ~Full(count - 1))
    <3>1. count = counter.batch + 1 /\ (counter.batch = 0 \/ ~Full(counter.batch))
      BY <1>1, <1>6 DEF SInv, Sized
    <3>2. count - 1 = counter.batch
      BY <1>2, <3>1
    <3> QED
      BY <1>2, <3>1, <3>2
  <2>3. /\ handed' \in Seq(Handed)
        /\ Len(handed) \in Nat /\ Len(handed') = Len(handed) + 1
        /\ DOMAIN handed' = 1..(Len(handed) + 1) /\ DOMAIN handed = 1..Len(handed)
        /\ \A k \in 1..Len(handed) : handed'[k] = handed[k]
        /\ handed'[Len(handed) + 1].count = count
    <3>1. count \in Int /\ counter.total + 1 \in Int
      BY <1>2, <2>2
    <3> HIDE DEF count
    <3>2. /\ Batch(count, counter.total + 1) \in Handed
          /\ Batch(count, counter.total + 1).count = count
      BY <3>1, BatchType
    <3> QED
      BY <1>2, <2>1, <3>2, HandedAppend
  <2>4. SizeAfter(size, Len(handed)) /\ \A k \in DOMAIN handed : DocumentedCount(k, handed[k].count)
    BY <1>1, <1>6 DEF SInv, Sized
  <2>5. DocumentedCount(Len(handed) + 1, count)
    BY <1>1, <1>6, <2>2, <2>3, <2>4, FullIsDocumented
  <2> HIDE DEF count
  <2>6. \A k \in DOMAIN handed' : DocumentedCount(k, handed'[k].count)
    <3> SUFFICES ASSUME NEW k \in DOMAIN handed' PROVE DocumentedCount(k, handed'[k].count)
      OBVIOUS
    <3>1. CASE k \in DOMAIN handed
      BY <2>3, <2>4, <3>1
    <3>2. CASE k = Len(handed) + 1
      BY <2>3, <2>5, <3>2
    <3> QED
      BY <2>3, <3>1, <3>2
  <2>7. SizeAfter(size', Len(handed'))
    BY <1>1, <2>1, <2>3, <2>4, NextSizeAfter
  <2>8. SizeAfter(size, Len(handed))'
    BY <1>3, <2>7 DEF SizeAfter
  <2>9. DocumentedSizes'
    BY <1>3, <2>6 DEF DocumentedSizes
  <2> QED
    BY <1>1, <1>3, <2>1, <2>6, <2>8, <2>9 DEF Sized
<1> QED
  BY <1>4, <1>5, <1>6

\* The last batch may be short.
LEMMA LastSized == ASSUME SInv, SourceEnds PROVE Sized'
<1> DEFINE count == IF job.stream THEN counter.batch ELSE 1
           rest  == IF job.stream THEN batch ELSE [i \in Indices |-> After(0, last[i])]
<1>1. /\ job \in Jobs /\ job' = job /\ Running /\ ~Running' /\ pc' = "ended"
      /\ IF count > 0 THEN handed' = Append(handed, Batch(count, counter.total))
                            /\ heard' = Delivered(rest)
                      ELSE UNCHANGED <<handed, heard>>
  BY DEF SInv, UInv, TInv, TypeOK, SourceEnds, Running
<1>2. counter.batch \in Nat /\ counter.total \in Int /\ handed \in Seq(Handed)
  <2>1. counter.batch \in 0..Larger(1, Setting.max) - 1 /\ Setting.max \in Int
    BY <1>1, SettingType DEF SInv, UInv, TInv, TypeOK
  <2> QED
    BY <2>1 DEF SInv, UInv, TInv, TypeOK, NoErrorYet
<1>3. Setting' = Setting /\ \A k, n : DocumentedCount(k, n)' = DocumentedCount(k, n)
  BY <1>1, DocumentedFixed
<1>4. CASE ~(count > 0)
  BY <1>1, <1>4, EndedSized
<1>5. CASE ~job.stream
  BY <1>1, <1>5 DEF Sized, DocumentedSizes, Running
<1>6. CASE job.stream /\ count > 0
  <2>1. /\ count = counter.batch /\ ~Full(count) /\ SizeAfter(size, Len(handed))
        /\ \A k \in DOMAIN handed : DocumentedCount(k, handed[k].count)
    BY <1>1, <1>2, <1>6 DEF SInv, Sized
  <2>2. /\ handed' \in Seq(Handed)
        /\ Len(handed) \in Nat /\ Len(handed') = Len(handed) + 1
        /\ DOMAIN handed' = 1..(Len(handed) + 1) /\ DOMAIN handed = 1..Len(handed)
        /\ \A k \in 1..Len(handed) : handed'[k] = handed[k]
        /\ handed'[Len(handed) + 1].count = count
    <3>1. Batch(count, counter.total) \in Handed /\ Batch(count, counter.total).count = count
      BY <1>2, <2>1, BatchType
    <3> QED
      BY <1>1, <1>2, <1>6, <3>1, HandedAppend
  <2>3. \E n \in count .. Larger(1, Setting.max) : DocumentedCount(Len(handed) + 1, n)
    BY <1>1, <1>2, <2>1, <2>2, ShortIsDocumented
  <2> HIDE DEF count
  <2>4. ASSUME NEW k \in DOMAIN handed'
        PROVE  \/ DocumentedCount(k, handed'[k].count)
               \/ /\ k = Len(handed')
                  /\ \E n \in handed'[k].count .. Larger(1, Setting.max) : DocumentedCount(k, n)
    <3>1. CASE k \in DOMAIN handed
      BY <2>1, <2>2, <3>1
    <3>2. CASE k = Len(handed) + 1
      BY <2>2, <2>3, <3>2
    <3> QED
      BY <2>2, <3>1, <3>2
  <2>5. DocumentedSizes'
    BY <1>1, <1>3, <2>4 DEF DocumentedSizes
  <2> QED
    BY <1>1, <2>5 DEF Sized, Running
<1> QED
  BY <1>4, <1>5, <1>6

\* Every step keeps to the documented sizes.
LEMMA NextSized == SInv /\ [Next]_vars => SInv'
<1> SUFFICES ASSUME SInv, [Next]_vars PROVE Sized'
  BY NextUsage DEF SInv
<1>1. job \in Jobs /\ job' = job
  BY JobStays DEF SInv, UInv, TInv, TypeOK
<1>2. /\ Setting' = Setting /\ IsDynamic' = IsDynamic
      /\ \A k, n : DocumentedCount(k, n)' = DocumentedCount(k, n)
      /\ \A s, m : SizeAfter(s, m)' = SizeAfter(s, m)
  BY <1>1, DocumentedFixed
<1>3. CASE RefuseJob \/ RelayOpenAI \/ RaiseOpenAI \/ SourceRaises
  <2>1. Running /\ ~Running' /\ (handed' = handed \/ handed' = Append(handed, Error))
    BY <1>3 DEF RefuseJob, RelayOpenAI, RaiseOpenAI, HandleError, SourceRaises, Running
  <2> QED
    BY <1>1, <2>1, EndedSized
<1>4. CASE Begin
  <2>1. /\ handed = <<>> /\ handed' = <<>> /\ counter'.batch = 0 /\ size' = FirstSize
        /\ pc' = "open" /\ Len(handed') = 0
    BY <1>4 DEF Begin, SInv, Sized
  <2>2. SizeAfter(size', Len(handed'))
    BY <1>1, <2>1, FirstSizeAfter
  <2>3. SizeAfter(size, Len(handed))'
    BY <1>2, <2>2 DEF SizeAfter
  <2> QED
    BY <2>1, <2>3 DEF Sized, DocumentedSizes
<1>5. CASE NextOutput \/ UNCHANGED vars
  <2>1. UNCHANGED <<pc, counter, size, handed>>
    BY <1>5 DEF NextOutput, vars
  <2>2. DocumentedSizes'
    BY <1>1, <1>2, <2>1 DEF DocumentedSizes, SInv, Sized
  <2>3. SizeAfter(size, Len(handed))' = SizeAfter(size, Len(handed))
    BY <1>2, <2>1 DEF SizeAfter
  <2>4. Full(counter.batch)' = Full(counter.batch)
    BY <2>1 DEF Full
  <2> QED
    BY <1>1, <1>2, <2>1, <2>2, <2>3, <2>4 DEF SInv, Sized, Running
<1>6. CASE SourceEnds
  BY <1>6, LastSized
<1>7. ASSUME NEW i \in Indices, Take(i) PROVE Sized'
  BY <1>7, TakeSized
<1> QED
  BY <1>3, <1>4, <1>5, <1>6, <1>7 DEF Next

\* The batches of a stream have the documented sizes, whatever the job asks for, for
\* fractional factors and streams of any length.
THEOREM SizesAsDocumented == Spec => []DocumentedSizes
<1>1. Init => SInv
  BY InitUsage, InitSized DEF SInv
<1>2. SInv => DocumentedSizes
  BY DEF SInv, Sized
<1> QED
  BY <1>1, <1>2, NextSized, PTL DEF Spec
=============================================================================
