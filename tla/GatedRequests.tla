---------------------------- MODULE GatedRequests ----------------------------
(***************************************************************************)
(* The server's front door: CpHmacMiddleware decides about each request    *)
(* before RequestLoad's handler sees it.  The control plane stamps a       *)
(* request with its own clock and signs it for one instance; on the way it *)
(* may be delayed, and reach a pod that is another instance, has another   *)
(* secret, or whose clock is off.  Load balancers probe without signing.   *)
(* Control plane, proxies and probes are external.                         *)
(***************************************************************************)
EXTENDS RequestLoad

CONSTANTS
  Window,  \* MAX_REQUEST_AGE_MS in ticks
  Skews,   \* by how much the pod's clock may be ahead of the control plane's
  NoPost   \* nothing is on its way

ASSUME WindowAssumption == Window \in Nat
ASSUME SkewsAssumption == Skews \subseteq Int

VARIABLES
  pod,   \* CP_INSTANCE_HMAC_SECRET, NEXUS_INSTANCE_ID and the clock of this pod
  post   \* the request that is on its way to each handler slot

gatedVars == <<vars, pod, post>>

Abs(n) == IF n < 0 THEN -n ELSE n

\* The exempt health routes, /v1/models, and the two routes that generate.
Paths == {"probe", "models", "route"}

\* What the headers hold: nothing, a timestamp that is no number, or a signature made
\* with the control plane's secret for this instance or for another one.
Headers == {"none", "garbled", "this", "other"}

\* A delay past every window is as good as any longer one.
MaxDelay == Window + 1 + (CHOOSE n \in {Abs(s) : s \in Skews} : \A s \in Skews : Abs(s) <= n)

(***************************************************************************)
(* verify_cp_hmac: the status of the refusal, or "pass".                   *)
(***************************************************************************)

\* Mutant: the age is counted in the wrong unit.
VerifyHalfWindow(p) ==
  IF p.headers \in {"none", "garbled"} THEN "401"
  ELSE IF Abs(p.delay + pod.skew) > Window \div 2 THEN "401"
  ELSE IF pod.secret = "none" \/ ~pod.named THEN "500"
  ELSE IF pod.secret = "other" \/ p.headers = "other" THEN "401"
  ELSE "pass"

\* Mutant: the instance is not part of what is signed.
VerifyUnbound(p) ==
  IF p.headers \in {"none", "garbled"} THEN "401"
  ELSE IF Abs(p.delay + pod.skew) > Window THEN "401"
  ELSE IF pod.secret = "none" THEN "500"
  ELSE IF pod.secret = "other" THEN "401"
  ELSE "pass"

\* Checked in this order; the last line but one is one comparison of signatures.
Verify(p) ==
  IF p.headers \in {"none", "garbled"} THEN "401"
  ELSE IF Abs(p.delay + pod.skew) > Window THEN "401"
  ELSE IF pod.secret = "none" \/ ~pod.named THEN "500"
  ELSE IF pod.secret = "other" \/ p.headers = "other" THEN "401"
  ELSE "pass"

(***************************************************************************)
(* Requests on their way.                                                  *)
(***************************************************************************)
\* Probes do not sign.
Send(r) ==
  /\ post[r] = NoPost /\ req[r] = "free"
  /\ \E p \in Paths, h \in Headers :
       /\ p = "probe" => h = "none"
       /\ post' = [post EXCEPT ![r] = [path |-> p, headers |-> h, delay |-> 0]]
  /\ UNCHANGED <<vars, pod>>

\* What is answered without being counted: /health, /ready and /ping are exempt and
\* only read, a request the gate refuses never reaches a route, before the engines are
\* ready a route answers 503, and /v1/models lists.
Answer(r) ==
  /\ post[r] # NoPost
  /\ post[r].path \in {"probe", "models"} \/ Verify(post[r]) # "pass" \/ ~ready
  /\ post' = [post EXCEPT ![r] = NoPost]
  /\ UNCHANGED <<vars, pod>>

\* call_next: the request goes on to its route.
Enter(r) ==
  /\ post[r] # NoPost /\ post[r].path = "route" /\ Verify(post[r]) = "pass"
  /\ Admit(r)
  /\ post' = [post EXCEPT ![r] = NoPost]
  /\ UNCHANGED pod

\* Time passes for what is on its way, too.
Later(p) == IF p = NoPost THEN p ELSE [p EXCEPT !.delay = IF @ < MaxDelay THEN @ + 1 ELSE @]

GatedTick ==
  /\ Tick
  /\ post' = [r \in Requests |-> Later(post[r])]
  /\ UNCHANGED pod

HandlerStep(r) ==
  \/ BadBody(r) \/ Count(r) \/ FinishNonStream(r) \/ StartStream(r)
  \/ DropUnstarted(r) \/ EndStream(r) \/ Detach(r) \/ Collect(r)

Behind ==
  /\ \/ \E r \in Requests : HandlerStep(r)
     \/ EnginesReady \/ StartIdleTimeout \/ CheckFires \/ CheckSleeps \/ StopIdleTimeout
  /\ UNCHANGED <<pod, post>>

GatedInit ==
  /\ Init
  /\ pod \in [secret : {"none", "shared", "other"}, named : BOOLEAN, skew : Skews]
  /\ post = [r \in Requests |-> NoPost]

GatedNext ==
  \/ \E r \in Requests : Send(r) \/ Answer(r) \/ Enter(r)
  \/ GatedTick
  \/ Behind

GatedSpec == GatedInit /\ [][GatedNext]_gatedVars

\* RequestLoad's fairness.  Whatever is sent may take for ever to arrive.
GatedFairness ==
  /\ WF_gatedVars(EnginesReady /\ UNCHANGED <<pod, post>>)
  /\ WF_gatedVars(StartIdleTimeout /\ UNCHANGED <<pod, post>>)
  /\ WF_gatedVars(GatedTick)
  /\ WF_gatedVars((CheckFires \/ CheckSleeps) /\ UNCHANGED <<pod, post>>)

GatedFairSpec == GatedSpec /\ GatedFairness

(***************************************************************************)
(* Properties.                                                             *)
(***************************************************************************)

\* A request that enters the handler was signed for this very pod, with the secret both
\* share, and really at most a window ago, give or take the error of the pod's clock.
EntersInTime ==
  [][\A r \in Requests :
       req[r] = "free" /\ req'[r] # "free" =>
         /\ post[r].headers = "this" /\ pod.secret = "shared" /\ pod.named
         /\ post[r].delay <= Window + Abs(pod.skew)]_gatedVars

\* The control plane is never locked out: what it signs for a configured pod passes as
\* long as delay and clock error together stay within the window.
PromptPasses ==
  \A r \in Requests :
    (/\ post[r] # NoPost /\ post[r].headers = "this" /\ pod.secret = "shared" /\ pod.named
     /\ post[r].delay + Abs(pod.skew) <= Window) => Verify(post[r]) = "pass"
=============================================================================
