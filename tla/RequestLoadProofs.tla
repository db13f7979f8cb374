-------------------------- MODULE RequestLoadProofs --------------------------
(***************************************************************************)
(* Proofs about RequestLoad for every finite set of requests, every idle   *)
(* timeout and every check interval: the load counter is exact and the     *)
(* monitor fires only after a whole quiet period.  And about GatedRequests *)
(* for every window and clock error: the gate in front of the handler lets *)
(* nothing late or foreign pass, and nothing prompt is locked out.         *)
(***************************************************************************)
EXTENDS GatedRequests, FiniteSetTheorems, TLAPS

USE RequestsAssumption, IdleTimeoutAssumption, CheckIntervalAssumption

\* The counted requests form a finite set.
LEMMA CountedFinite == IsFiniteSet(Counted) /\ Cardinality(Counted) \in Nat
<1>1. Counted \subseteq Requests
  BY DEF Counted
<1> QED
  BY <1>1, FS_Subset, FS_CardinalityType

\* A request that is not counted and becomes so adds one.
LEMMA CountedGrows ==
  ASSUME TypeOK, NEW r \in Requests, NEW s \in CountedStates,
         req[r] \notin CountedStates, req' = [req EXCEPT ![r] = s]
  PROVE  Counted' # {} /\ Cardinality(Counted') = Cardinality(Counted) + 1
<1>1. r \notin Counted
  BY DEF Counted
<1>2. Counted' = Counted \cup {r}
  BY DEF Counted, TypeOK
<1> QED
  BY <1>1, <1>2, CountedFinite, FS_AddElement

\* A counted request that stops being so takes one away.
LEMMA CountedShrinks ==
  ASSUME TypeOK, NEW r \in Requests, req[r] \in CountedStates,
         req' = [req EXCEPT ![r] = "free"]
  PROVE  Cardinality(Counted) # 0 /\ Cardinality(Counted') = Cardinality(Counted) - 1
<1>1. r \in Counted
  BY DEF Counted
<1>2. "free" \notin CountedStates
  BY DEF CountedStates
<1>3. Counted' = Counted \ {r}
  BY <1>2 DEF Counted, TypeOK
<1>4. Cardinality(Counted) # 0
  BY <1>1, CountedFinite, FS_EmptySet
<1> QED
  BY <1>1, <1>3, <1>4, CountedFinite, FS_RemoveElement

\* Any other move of a request leaves the counted set alone.
LEMMA CountedSame ==
  ASSUME TypeOK, NEW r \in Requests, NEW s, req' = [req EXCEPT ![r] = s],
         req[r] \in CountedStates <=> s \in CountedStates
  PROVE  Counted' = Counted
  BY DEF Counted, TypeOK

-----------------------------------------------------------------------------
\* The inductive invariant.  LoadExact lets the monitor read an empty server off the
\* counter, ClockIsQuiet lets it read a quiet period off the activity clock.
IInv == TypeOK /\ LoadExact /\ ClockIsQuiet

\* The ends of the clocks' ranges are in them.
LEMMA Bounds == 0 \in 0..IdleTimeout /\ {0, CheckInterval} \subseteq 0..CheckInterval
  OBVIOUS

\* Initially nothing is counted and both clocks start.
LEMMA InitIInv == Init => IInv
<1> SUFFICES ASSUME Init PROVE IInv
  OBVIOUS
<1>1. TypeOK
  <2>1. 0 \in 0..IdleTimeout /\ 0 \in 0..CheckInterval
    BY Bounds
  <2>2. req \in [Requests -> ReqStates]
    BY DEF Init, ReqStates
  <2> QED
    BY <2>1, <2>2 DEF Init, TypeOK
<1>2. Counted = {}
  BY DEF Init, Counted, CountedStates
<1>3. Cardinality(Counted) = 0
  BY <1>2, FS_EmptySet
<1> QED
  BY <1>1, <1>3 DEF Init, IInv, LoadExact, ClockIsQuiet

\* A tick keeps an age within the timeout.
LEMMA CapType == \A n \in 0..IdleTimeout : Cap(n) \in 0..IdleTimeout
  BY DEF Cap

\* Every step of a request keeps the invariant.
LEMMA RequestIInv ==
  ASSUME IInv, NEW r \in Requests, RequestStep(r)
  PROVE  IInv'
<1> TypeOK /\ LoadExact /\ ClockIsQuiet
  BY DEF IInv
<1>1. CASE Admit(r) \/ BadBody(r) \/ StartStream(r) \/ DropUnstarted(r) \/ Detach(r)
  <2>1. UNCHANGED <<ready, load, idleAge, monitor, wake, quiet>>
    BY <1>1 DEF Admit, BadBody, StartStream, DropUnstarted, Detach
  <2>2. PICK s \in ReqStates : /\ req' = [req EXCEPT ![r] = s]
                               /\ req[r] \in CountedStates <=> s \in CountedStates
    BY <1>1 DEF Admit, BadBody, StartStream, DropUnstarted, Detach, ReqStates, CountedStates
  <2>3. Counted' = Counted
    BY <2>2, CountedSame
  <2>4. TypeOK'
    BY <2>1, <2>2 DEF TypeOK
  <2> QED
    BY <2>1, <2>3, <2>4 DEF IInv, LoadExact, ClockIsQuiet
<1>2. CASE Count(r)
  <2>1. PICK s \in CountedStates : req' = [req EXCEPT ![r] = s]
    BY <1>2 DEF Count, CountedStates
  <2>2. req[r] \notin CountedStates
    BY <1>2 DEF Count, CountedStates
  <2>3. Counted' # {} /\ Cardinality(Counted') = Cardinality(Counted) + 1
    BY <2>1, <2>2, CountedGrows
  <2>4. TypeOK'
    BY <1>2, <2>1 DEF Count, IncrementLoad, TypeOK, ReqStates
  <2> QED
    BY <1>2, <2>3, <2>4 DEF Count, IncrementLoad, IInv, LoadExact, ClockIsQuiet
<1>3. CASE FinishNonStream(r) \/ EndStream(r) \/ Collect(r)
  <2>1. /\ req[r] \in CountedStates
        /\ req' = [req EXCEPT ![r] = "free"]
        /\ DecrementLoad
        /\ quiet' = 0
        /\ UNCHANGED <<ready, monitor, wake>>
    BY <1>3 DEF FinishNonStream, NonStreamEnds, EndStream, Collect, CountedStates
  <2>2. Cardinality(Counted) # 0 /\ Cardinality(Counted') = Cardinality(Counted) - 1
    BY <2>1, CountedShrinks
  <2>3. load' = Cardinality(Counted')
    BY <2>1, <2>2 DEF DecrementLoad, LoadExact
  <2>4. TypeOK'
    BY <2>1 DEF DecrementLoad, TypeOK, ReqStates
  <2> QED
    BY <2>1, <2>3, <2>4 DEF DecrementLoad, IInv, LoadExact, ClockIsQuiet
<1> QED
  BY <1>1, <1>2, <1>3 DEF RequestStep

\* Every step keeps the invariant.
LEMMA NextIInv == IInv /\ [Next]_vars => IInv'
<1> SUFFICES ASSUME IInv, [Next]_vars PROVE IInv'
  OBVIOUS
<1> TypeOK /\ LoadExact /\ ClockIsQuiet
  BY DEF IInv
<1>1. ASSUME NEW r \in Requests, RequestStep(r) PROVE IInv'
  BY <1>1, RequestIInv
<1>2. CASE Tick
  <2>1. Counted' = Counted
    BY <1>2 DEF Tick, Counted
  <2>2. TypeOK'
    BY <1>2, CapType DEF Tick, TypeOK
  <2> QED
    BY <1>2, <2>1, <2>2 DEF Tick, IInv, LoadExact, ClockIsQuiet
<1>3. CASE \/ EnginesReady \/ StartIdleTimeout \/ CheckFires \/ CheckSleeps
           \/ StopIdleTimeout \/ UNCHANGED vars
  <2>1. UNCHANGED <<req, load, idleAge, quiet>>
    BY <1>3 DEF EnginesReady, StartIdleTimeout, CheckFires, CheckSleeps, StopIdleTimeout, vars
  <2>2. Counted' = Counted
    BY <2>1 DEF Counted
  <2>3. TypeOK'
    BY <1>3, <2>1, Bounds DEF EnginesReady, StartIdleTimeout, CheckFires, CheckSleeps,
                      StopIdleTimeout, vars, TypeOK
  <2> QED
    BY <2>1, <2>2, <2>3 DEF IInv, LoadExact, ClockIsQuiet
<1> QED
  BY <1>1, <1>2, <1>3 DEF Next

\* The invariant holds of every reachable state.
LEMMA IInvHolds == Spec => []IInv
  BY InitIInv, NextIInv, PTL DEF Spec

\* Every variable keeps its type and its bound.
THEOREM TypeCorrect == Spec => []TypeOK
<1>1. IInv => TypeOK
  BY DEF IInv
<1> QED
  BY <1>1, IInvHolds, PTL

\* The reported load is the number of requests counted and not yet uncounted.
THEOREM LoadIsExact == Spec => []LoadExact
<1>1. IInv => LoadExact
  BY DEF IInv
<1> QED
  BY <1>1, IInvHolds, PTL

\* With nothing counted, the activity clock is the time since a request last was.
THEOREM ClockShowsQuiet == Spec => []ClockIsQuiet
<1>1. IInv => ClockIsQuiet
  BY DEF IInv
<1> QED
  BY <1>1, IInvHolds, PTL

\* A step that fires the monitor finds nothing counted and a whole quiet period.
LEMMA FiringStep ==
  IInv /\ [Next]_vars =>
    (monitor # "fired" /\ monitor' = "fired" => Counted = {} /\ quiet = IdleTimeout)
<1> SUFFICES ASSUME IInv, [Next]_vars, monitor # "fired", monitor' = "fired"
             PROVE  Counted = {} /\ quiet = IdleTimeout
  OBVIOUS
<1>1. CheckFires
  BY DEF Next, vars, RequestStep, Admit, BadBody, Count, FinishNonStream, StartStream,
         DropUnstarted, EndStream, Detach, Collect, EnginesReady, StartIdleTimeout, Tick,
         CheckSleeps, StopIdleTimeout
<1>2. Cardinality(Counted) = 0 /\ idleAge >= IdleTimeout
  BY <1>1 DEF CheckFires, Idle, IInv, LoadExact
<1>3. Counted = {}
  BY <1>2, CountedFinite, FS_EmptySet
<1> QED
  BY <1>2, <1>3 DEF IInv, ClockIsQuiet, TypeOK

\* The monitor fires only after a whole timeout without a counted request, however
\* requests begin, end, fail and disconnect around its checks.
THEOREM FiresOnlyAfterQuiet == Spec => FiresAfterQuiet
  BY FiringStep, IInvHolds, PTL DEF Spec, FiresAfterQuiet

(***************************************************************************)
(* The server behind the gate is RequestLoad's, by construction.           *)
(***************************************************************************)
\* A step of the gated server is a step of the server behind the gate, or none.
LEMMA GatedStep == [GatedNext]_gatedVars => [Next]_vars
<1> SUFFICES ASSUME [GatedNext]_gatedVars PROVE [Next]_vars
  OBVIOUS
<1>1. ASSUME NEW r \in Requests, Send(r) \/ Answer(r) PROVE [Next]_vars
  BY <1>1 DEF Send, Answer
<1>2. ASSUME NEW r \in Requests, Enter(r) PROVE [Next]_vars
  BY <1>2 DEF Enter, Next, RequestStep
<1>3. CASE GatedTick
  BY <1>3 DEF GatedTick, Next
<1>4. CASE Behind
  <2>1. ASSUME NEW r \in Requests, HandlerStep(r) PROVE Next
    BY <2>1 DEF HandlerStep, Next, RequestStep
  <2> QED
    BY <1>4, <2>1 DEF Behind, Next
<1>5. CASE UNCHANGED gatedVars
  BY <1>5 DEF gatedVars
<1> QED
  BY <1>1, <1>2, <1>3, <1>4, <1>5 DEF GatedNext

\* What holds of RequestLoad may be used behind the gate.
LEMMA GatedIsLoad == GatedSpec => Spec
<1>1. GatedInit => Init
  BY DEF GatedInit
<1> QED
  BY <1>1, GatedStep, PTL DEF GatedSpec, Spec

(***************************************************************************)
(* The gate: what passes it, and what does not.                            *)
(***************************************************************************)
\* What is on its way is a request, and has been for some time.
GateTypeOK ==
  /\ pod \in [secret : {"none", "shared", "other"}, named : BOOLEAN, skew : Skews]
  /\ post \in [Requests -> {NoPost} \cup [path : Paths, headers : Headers, delay : Nat]]

\* Requests on their way grow older and stay what they are.
LEMMA LaterType ==
  ASSUME NEW p \in {NoPost} \cup [path : Paths, headers : Headers, delay : Nat]
  PROVE  Later(p) \in {NoPost} \cup [path : Paths, headers : Headers, delay : Nat]
<1>1. CASE p = NoPost
  BY <1>1 DEF Later
<1>2. CASE p # NoPost
  <2>1. p \in [path : Paths, headers : Headers, delay : Nat]
    BY <1>2
  <2>2. Later(p) = [p EXCEPT !.delay = IF p.delay < MaxDelay THEN p.delay + 1 ELSE p.delay]
    BY <1>2 DEF Later
  <2> HIDE DEF MaxDelay
  <2>3. (IF p.delay < MaxDelay THEN p.delay + 1 ELSE p.delay) \in Nat
    BY <2>1
  <2> QED
    BY <2>1, <2>2, <2>3
<1> QED
  BY <1>1, <1>2

\* The gate's type invariant holds throughout.
LEMMA GateTypeCorrect == GatedSpec => []GateTypeOK
<1>1. GatedInit => GateTypeOK
  BY DEF GatedInit, GateTypeOK
<1>2. GateTypeOK /\ [GatedNext]_gatedVars => GateTypeOK'
  <2> SUFFICES ASSUME GateTypeOK, [GatedNext]_gatedVars PROVE GateTypeOK'
    OBVIOUS
  <2>1. ASSUME NEW r \in Requests, Send(r) PROVE GateTypeOK'
    <3>1. PICK p \in Paths, h \in Headers :
            post' = [post EXCEPT ![r] = [path |-> p, headers |-> h, delay |-> 0]]
      BY <2>1 DEF Send
    <3>2. [path |-> p, headers |-> h, delay |-> 0] \in [path : Paths, headers : Headers, delay : Nat]
      OBVIOUS
    <3> QED
      BY <2>1, <3>1, <3>2 DEF Send, GateTypeOK
  <2>2. ASSUME NEW r \in Requests, Answer(r) \/ Enter(r) PROVE GateTypeOK'
    BY <2>2 DEF Answer, Enter, GateTypeOK
  <2>3. CASE GatedTick
    BY <2>3, LaterType DEF GatedTick, GateTypeOK
  <2>4. CASE Behind
    BY <2>4 DEF Behind, GateTypeOK
  <2>5. CASE UNCHANGED gatedVars
    BY <2>5 DEF gatedVars, GateTypeOK
  <2> QED
    BY <2>1, <2>2, <2>3, <2>4, <2>5 DEF GatedNext
<1> QED
  BY <1>1, <1>2, PTL DEF GatedSpec

\* The handler is entered through the gate only.
LEMMA EntryIsEnter ==
  ASSUME TypeOK, [GatedNext]_gatedVars, NEW r \in Requests, req[r] = "free", req'[r] # "free"
  PROVE  Enter(r)
<1>1. ASSUME NEW q \in Requests, Send(q) \/ Answer(q) PROVE FALSE
  BY <1>1 DEF Send, Answer, vars
<1>2. ASSUME NEW q \in Requests, Enter(q) PROVE Enter(r)
  <2>1. req' = [req EXCEPT ![q] = "parsing"]
    BY <1>2 DEF Enter, Admit
  <2>2. q = r
    BY <2>1 DEF TypeOK
  <2> QED
    BY <1>2, <2>2
<1>3. CASE GatedTick
  BY <1>3 DEF GatedTick, Tick
<1>4. CASE Behind
  <2>1. ASSUME NEW q \in Requests, HandlerStep(q) PROVE FALSE
    <3>1. PICK s : req' = [req EXCEPT ![q] = s] /\ req[q] # "free"
      BY <2>1 DEF HandlerStep, BadBody, Count, FinishNonStream, StartStream, DropUnstarted,
                  EndStream, Detach, Collect
    <3> QED
      BY <3>1 DEF TypeOK
  <2>2. CASE EnginesReady \/ StartIdleTimeout \/ CheckFires \/ CheckSleeps \/ StopIdleTimeout
    BY <2>2 DEF EnginesReady, StartIdleTimeout, CheckFires, CheckSleeps, StopIdleTimeout
  <2> QED
    BY <1>4, <2>1, <2>2 DEF Behind
<1>5. CASE UNCHANGED gatedVars
  BY <1>5 DEF gatedVars, vars
<1> QED
  BY <1>1, <1>2, <1>3, <1>4, <1>5 DEF GatedNext

\* What the gate lets pass was signed for this pod, and its age as the pod reckons it
\* is within the window; so is its real age, but for the error of the clock.
LEMMA PassedInTime ==
  ASSUME GateTypeOK, NEW r \in Requests, post[r] # NoPost, Verify(post[r]) = "pass"
  PROVE  /\ post[r].headers = "this" /\ pod.secret = "shared" /\ pod.named
         /\ post[r].delay <= Window + Abs(pod.skew)
<1>1. /\ post[r].headers \notin {"none", "garbled", "other"}
      /\ pod.secret \notin {"none", "other"} /\ pod.named
      /\ ~(Abs(post[r].delay + pod.skew) > Window)
  BY DEF Verify
<1>2. post[r] \in [path : Paths, headers : Headers, delay : Nat]
  BY DEF GateTypeOK
<1>3. post[r].delay \in Nat /\ post[r].headers \in Headers
  BY <1>2
<1>4. pod.skew \in Int /\ pod.secret \in {"none", "shared", "other"}
  BY SkewsAssumption DEF GateTypeOK
<1>5. post[r].delay <= Window + Abs(pod.skew)
  BY <1>1, <1>3, <1>4, WindowAssumption DEF Abs
<1> QED
  BY <1>1, <1>3, <1>4, <1>5 DEF Headers

\* A request that enters the handler was signed for this very pod and, but for the
\* error of the pod's clock, at most a window ago: cp_hmac_auth.py's replay protection,
\* for every window and every error.
THEOREM OnlyTimelyRequestsEnter == GatedSpec => EntersInTime
<1>1. ASSUME TypeOK, GateTypeOK, [GatedNext]_gatedVars
      PROVE  \A r \in Requests :
               req[r] = "free" /\ req'[r] # "free" =>
                 /\ post[r].headers = "this" /\ pod.secret = "shared" /\ pod.named
                 /\ post[r].delay <= Window + Abs(pod.skew)
  <2> SUFFICES ASSUME NEW r \in Requests, req[r] = "free", req'[r] # "free"
               PROVE  /\ post[r].headers = "this" /\ pod.secret = "shared" /\ pod.named
                      /\ post[r].delay <= Window + Abs(pod.skew)
    OBVIOUS
  <2>1. post[r] # NoPost /\ Verify(post[r]) = "pass"
    BY <1>1, EntryIsEnter DEF Enter
  <2> QED
    BY <1>1, <2>1, PassedInTime
<1> QED
  BY <1>1, GatedIsLoad, TypeCorrect, GateTypeCorrect, PTL DEF GatedSpec, EntersInTime

\* No signed request is locked out: whatever the window and the clock error, what the
\* control plane signed for a configured pod passes verify_cp_hmac as long as delay and
\* error together stay within the window.
THEOREM PromptRequestsPass == GatedSpec => []PromptPasses
<1>1. ASSUME GateTypeOK PROVE PromptPasses
  <2> SUFFICES ASSUME NEW r \in Requests,
                      post[r] # NoPost, post[r].headers = "this",
                      pod.secret = "shared", pod.named,
                      post[r].delay + Abs(pod.skew) <= Window
               PROVE  Verify(post[r]) = "pass"
    BY DEF PromptPasses
  <2>1. post[r] \in [path : Paths, headers : Headers, delay : Nat] /\ pod.skew \in Int
    BY <1>1, SkewsAssumption DEF GateTypeOK
  <2>2. post[r].delay \in Nat
    BY <2>1
  <2>3. ~(Abs(post[r].delay + pod.skew) > Window)
    BY <2>1, <2>2, WindowAssumption DEF Abs
  <2> QED
    BY <2>3 DEF Verify
<1> QED
  BY <1>1, GateTypeCorrect, PTL
=============================================================================
