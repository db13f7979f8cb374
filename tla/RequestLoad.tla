---------------------------- MODULE RequestLoad ----------------------------
(***************************************************************************)
(* The load counter, the activity clock and the idle monitor that reads    *)
(* both, under requests that end in every way a request can end: answered, *)
(* streamed, refused, failed, abandoned before or during the stream.  The  *)
(* handler runs alone between two awaits, so each action is the code from  *)
(* one await to the next.  The clock is in ticks: a tick is any divisor of *)
(* IDLE_CHECK_INTERVAL_S.  HeartbeatLifecycle says what happens once the   *)
(* monitor has fired.                                                      *)
(***************************************************************************)
EXTENDS Integers, FiniteSets

CONSTANTS
  Requests,       \* the requests clients may have at the server at once
  IdleTimeout,    \* IDLE_TIMEOUT_S in ticks; 0 is the persistent mode
  CheckInterval   \* IDLE_CHECK_INTERVAL_S in ticks

ASSUME RequestsAssumption == IsFiniteSet(Requests)
ASSUME IdleTimeoutAssumption == IdleTimeout \in Nat
ASSUME CheckIntervalAssumption == CheckInterval \in Nat \ {0}

VARIABLES
  ready,    \* _engines_ready
  req,      \* where each request is
  load,     \* _current_load
  idleAge,  \* ticks since _last_activity, up to IdleTimeout
  monitor,  \* the idle monitor task
  wake,     \* ticks until the monitor's sleep is over
  quiet     \* history: ticks since a counted request was last there, up to IdleTimeout

vars == <<ready, req, load, idleAge, monitor, wake, quiet>>

\* A request that increment_load has counted and decrement_load has not.
CountedStates == {"running", "returned", "streaming", "detached", "leaked"}
ReqStates     == {"free", "parsing"} \cup CountedStates
Counted       == {r \in Requests : req[r] \in CountedStates}

Cap(n) == IF n < IdleTimeout THEN n + 1 ELSE n

\* _current_load += 1 and _last_activity = now (touch_activity repeats the latter).
IncrementLoad ==
  /\ load' = load + 1
  /\ idleAge' = 0

\* Mutant: decrement_load keeps _last_activity.
DecrementUntouched ==
  /\ load' = IF load = 0 THEN 0 ELSE load - 1
  /\ UNCHANGED idleAge

\* Mutant: two clauses decrement for one request, and nothing clamps the counter.
DecrementUnclamped ==
  /\ load' = load - 2
  /\ idleAge' = 0

\* _current_load -= 1, clamped at zero, and _last_activity = now.
DecrementLoad ==
  /\ load' = IF load = 0 THEN 0 ELSE load - 1
  /\ idleAge' = 0

\* Two such calls with no await between them.
DecrementTwice ==
  /\ load' = IF load < 2 THEN 0 ELSE load - 2
  /\ idleAge' = 0

(***************************************************************************)
(* The request handler.                                                    *)
(***************************************************************************)

\* Mutant: the activity clock is touched on arrival.
AdmitTouching(r) ==
  /\ req[r] = "free" /\ ready
  /\ req' = [req EXCEPT ![r] = "parsing"]
  /\ idleAge' = 0
  /\ UNCHANGED <<ready, load, monitor, wake, quiet>>

\* A request arrives at a ready server, which awaits its body.  Before that the
\* answer is 503 and nothing changes.
Admit(r) ==
  /\ req[r] = "free" /\ ready
  /\ req' = [req EXCEPT ![r] = "parsing"]
  /\ UNCHANGED <<ready, load, idleAge, monitor, wake, quiet>>

\* The body is not JSON, or not an object: refused before it is counted.
BadBody(r) ==
  /\ req[r] = "parsing"
  /\ req' = [req EXCEPT ![r] = "free"]
  /\ UNCHANGED <<ready, load, idleAge, monitor, wake, quiet>>

\* The request is counted and handed to the engine, or to a StreamingResponse
\* whose generator nobody has started yet.
Count(r) ==
  /\ req[r] = "parsing"
  /\ \E next \in {"running", "returned"} : req' = [req EXCEPT ![r] = next]
  /\ IncrementLoad
  /\ quiet' = 0
  /\ UNCHANGED <<ready, monitor, wake>>

\* Mutant: _non_stream_response passes the engine's exceptions on.
NonStreamEndsRaising == {"answered", "raised", "cancelled"}

\* How _non_stream_response may end: it turns whatever the engine raises into an answer,
\* and a cancellation is no Exception, so that no except clause sees it.
NonStreamEnds == {"answered", "cancelled"}

\* The finally clause around _non_stream_response decrements; what is raised through it
\* comes to the outer except clause, which decrements again.
FinishNonStream(r) ==
  /\ req[r] = "running"
  /\ req' = [req EXCEPT ![r] = "free"]
  /\ \E end \in NonStreamEnds : IF end = "raised" THEN DecrementTwice ELSE DecrementLoad
  /\ quiet' = 0
  /\ UNCHANGED <<ready, monitor, wake>>

\* The server iterates the generator: from here its finally clause will run.
StartStream(r) ==
  /\ req[r] = "returned"
  /\ req' = [req EXCEPT ![r] = "streaming"]
  /\ UNCHANGED <<ready, load, idleAge, monitor, wake, quiet>>

\* The client leaves before the first iteration: a generator that never started
\* has no finally clause to run.
DropUnstarted(r) ==
  /\ req[r] = "returned"
  /\ req' = [req EXCEPT ![r] = "leaked"]
  /\ UNCHANGED <<ready, load, idleAge, monitor, wake, quiet>>

\* The stream ends, fails, or is cancelled while it awaits the engine.
EndStream(r) ==
  /\ req[r] = "streaming"
  /\ req' = [req EXCEPT ![r] = "free"]
  /\ DecrementLoad
  /\ quiet' = 0
  /\ UNCHANGED <<ready, monitor, wake>>

\* The client leaves while the generator is suspended at a yield ...
Detach(r) ==
  /\ req[r] = "streaming"
  /\ req' = [req EXCEPT ![r] = "detached"]
  /\ UNCHANGED <<ready, load, idleAge, monitor, wake, quiet>>

\* ... and the collector closes it later.
Collect(r) ==
  /\ req[r] = "detached"
  /\ req' = [req EXCEPT ![r] = "free"]
  /\ DecrementLoad
  /\ quiet' = 0
  /\ UNCHANGED <<ready, monitor, wake>>

(***************************************************************************)
(* The idle monitor.                                                       *)
(***************************************************************************)

EnginesReady ==
  /\ ~ready
  /\ ready' = TRUE
  /\ UNCHANGED <<req, load, idleAge, monitor, wake, quiet>>

\* start_idle_timeout, after mark_healthy; a no-op in persistent mode.
StartIdleTimeout ==
  /\ monitor = "off" /\ ready /\ IdleTimeout # 0
  /\ monitor' = "sleeping"
  /\ wake' = CheckInterval
  /\ UNCHANGED <<ready, req, load, idleAge, quiet>>

\* Time passes.  A counted request keeps the server from being quiet, but not
\* _last_activity from ageing.
Tick ==
  /\ idleAge' = Cap(idleAge)
  /\ quiet' = IF Counted = {} THEN Cap(quiet) ELSE 0
  /\ wake' = IF wake = 0 THEN 0 ELSE wake - 1
  /\ UNCHANGED <<ready, req, load, monitor>>

Idle == load = 0 /\ idleAge >= IdleTimeout

\* The monitor wakes up: it shuts the worker down and ends, or sleeps again.
CheckFires ==
  /\ monitor = "sleeping" /\ wake = 0 /\ Idle
  /\ monitor' = "fired"
  /\ UNCHANGED <<ready, req, load, idleAge, wake, quiet>>

CheckSleeps ==
  /\ monitor = "sleeping" /\ wake = 0 /\ ~Idle
  /\ wake' = CheckInterval
  /\ UNCHANGED <<ready, req, load, idleAge, monitor, quiet>>

\* stop_idle_timeout, when something else shuts the worker down.
StopIdleTimeout ==
  /\ monitor = "sleeping"
  /\ monitor' = "stopped"
  /\ wake' = 0
  /\ UNCHANGED <<ready, req, load, idleAge, quiet>>

\* _last_activity starts when the module is imported: booting counts as idling.
Init ==
  /\ ready = FALSE
  /\ req = [r \in Requests |-> "free"]
  /\ load = 0
  /\ idleAge = 0
  /\ monitor = "off"
  /\ wake = 0
  /\ quiet = 0

RequestStep(r) ==
  \/ Admit(r) \/ BadBody(r) \/ Count(r) \/ FinishNonStream(r) \/ StartStream(r)
  \/ DropUnstarted(r) \/ EndStream(r) \/ Detach(r) \/ Collect(r)

Next ==
  \/ \E r \in Requests : RequestStep(r)
  \/ EnginesReady \/ StartIdleTimeout \/ Tick
  \/ CheckFires \/ CheckSleeps \/ StopIdleTimeout

Spec == Init /\ [][Next]_vars

\* Boot finishes, time passes and the event loop runs the monitor.  Requests owe
\* nothing: they may stay, come and go for ever.
Fairness ==
  /\ WF_vars(EnginesReady)
  /\ WF_vars(StartIdleTimeout)
  /\ WF_vars(Tick)
  /\ WF_vars(CheckFires \/ CheckSleeps)

FairSpec == Spec /\ Fairness

(***************************************************************************)
(* Properties.                                                             *)
(***************************************************************************)

\* Every variable holds a value of its kind and within its bound.
TypeOK ==
  /\ ready \in BOOLEAN
  /\ req \in [Requests -> ReqStates]
  /\ load \in Nat
  /\ idleAge \in 0..IdleTimeout
  /\ monitor \in {"off", "sleeping", "fired", "stopped"}
  /\ wake \in 0..CheckInterval
  /\ quiet \in 0..IdleTimeout

\* The reported load is the number of requests counted and not yet uncounted, on
\* every path out of the handler: nothing is counted or uncounted twice, and the
\* clamp at zero never hides a mistake.
LoadExact == load = Cardinality(Counted)

\* With no request counted, the activity clock is the time since the last one ended.
ClockIsQuiet == Counted = {} => idleAge = quiet

\* The monitor fires only when nothing is counted and nothing has been for a whole
\* timeout: a request that has just ended, however long it ran, restarts the period.
FiresAfterQuiet ==
  [][monitor # "fired" /\ monitor' = "fired" => Counted = {} /\ quiet = IdleTimeout]_vars

\* A worker whose load drops to zero for good scales to zero, even if refused
\* requests keep arriving, unless another shutdown stops the monitor.
ScalesToZero ==
  (IdleTimeout # 0 /\ <>[](load = 0)) => <>(monitor \in {"fired", "stopped"})

\* heartbeat.md:20 calls load "Current concurrent request count": once no request is
\* left at the server it is zero.  A stream dropped before it starts stays counted.
LoadDrains == (\A r \in Requests : req[r] \in {"free", "leaked"}) => load = 0
=============================================================================
