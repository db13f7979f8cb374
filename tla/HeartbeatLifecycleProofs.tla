---------------------- MODULE HeartbeatLifecycleProofs ----------------------
(***************************************************************************)
(* Proofs about HeartbeatLifecycle for every set of CUDA tasks, with a     *)
(* Redis that may fail and one that may not: type correctness, that one    *)
(* process never gives the control plane two different reasons, and on top *)
(* of the invariant for this that deregistration follows the verdict and   *)
(* that the whole implements TerminationContract.                          *)
(***************************************************************************)
EXTENDS HeartbeatLifecycle, TLAPS

\* What graceful_shutdown passes on is always one of the three documented reasons.
LEMMA ReasonType == \A c : Reason(c) \in Reasons
  BY DEF Reason, Reasons

\* Whatever a task awaits is one of the commands of the module.
LEMMA CommandType ==
  ASSUME TypeOK, NEW t \in Tasks
  PROVE  Command(t) \in Commands
<1>1. beat \in Statuses /\ "booting" \in Statuses
  BY DEF TypeOK, Statuses
<1>2. Reason(t) \in Reasons
  BY ReasonType
<1>3. CASE pc[t] = "beat"
  BY <1>1, <1>3 DEF Command, Commands
<1>4. CASE pc[t] = "publish"
  BY <1>2, <1>4 DEF Command, Commands
<1>5. CASE pc[t] \notin {"beat", "publish"}
  BY <1>5 DEF Command, Commands
<1> QED
  BY <1>3, <1>4, <1>5

\* Commands in flight are commands.
LEMMA InFlightType == TypeOK => InFlight \subseteq Commands
  BY CommandType DEF InFlight, Waiters

\* A command leaves the registry well typed.
LEMMA ApplyType ==
  ASSUME TypeOK, NEW cmd \in Commands, Apply(cmd)
  PROVE  /\ hash' \in [status : Statuses \cup {"none"}, ttl : BOOLEAN]
         /\ member' \in BOOLEAN
         /\ published' \subseteq Reasons
<1>1. cmd.op = "beat" => cmd.arg \in Statuses
  BY DEF Commands, Cmd
<1>2. cmd.op = "publish" => cmd.arg \in Reasons
  BY DEF Commands, Cmd
<1>3. hash' \in [status : Statuses \cup {"none"}, ttl : BOOLEAN]
  <2>1. hash \in [status : Statuses \cup {"none"}, ttl : BOOLEAN]
    BY DEF TypeOK
  <2>2. CASE cmd.op = "beat" /\ hash' = [status |-> cmd.arg, ttl |-> TRUE]
    BY <1>1, <2>2
  <2>3. CASE hash' = [hash EXCEPT !.status = "healthy"]
    BY <2>1, <2>3 DEF Statuses
  <2>4. CASE hash' = NoHash
    BY <2>4 DEF NoHash
  <2>5. CASE hash' = hash
    BY <2>1, <2>5
  <2> QED
    BY <2>2, <2>3, <2>4, <2>5 DEF Apply
<1>4. member' \in BOOLEAN
  BY DEF Apply, TypeOK
<1>5. published' \subseteq Reasons
  BY <1>2 DEF Apply, TypeOK
<1> QED
  BY <1>3, <1>4, <1>5

\* So does a command that its task sees answered or failed.
LEMMA WaitType ==
  ASSUME TypeOK, NEW t \in Tasks, Answered(t) \/ Failed(t)
  PROVE  /\ hash' \in [status : Statuses \cup {"none"}, ttl : BOOLEAN]
         /\ member' \in BOOLEAN
         /\ published' \subseteq Reasons
         /\ stray' \subseteq Commands
<1>1. CASE Answered(t)
  BY <1>1, CommandType, ApplyType DEF Answered, TypeOK
<1>2. CASE Failed(t)
  BY <1>2, CommandType DEF Failed, TypeOK, registry
<1> QED
  BY <1>1, <1>2

\* graceful_shutdown leaves what it changes well typed.
LEMMA GracefulShutdownType ==
  ASSUME TypeOK, NEW c \in Tasks, GracefulShutdown(c)
  PROVE  /\ signaled' \in BOOLEAN
         /\ pc' \in [Tasks -> Labels]
         /\ broken' \subseteq Tasks
         /\ stray' \subseteq Commands
<1>1. CASE AlreadySignaled(c)
  BY <1>1 DEF AlreadySignaled, CloseRedis, Waiters, TypeOK, Labels
<1>2. CASE FirstSignal(c)
  <2>1. pc' \in [Tasks -> Labels]
    <3>1. \A t \in Tasks : (IF t = c THEN IF env.enabled THEN "publish" ELSE "return"
                             ELSE IF Stopped(t) THEN "cancelled" ELSE pc[t]) \in Labels
      BY DEF TypeOK, Labels, Waiting
    <3> QED
      BY <1>2, <3>1 DEF FirstSignal
  <2>2. stray' \subseteq Commands
    BY <1>2, CommandType DEF FirstSignal, Waiters, TypeOK
  <2> QED
    BY <1>2, <2>1, <2>2 DEF FirstSignal, TypeOK
<1> QED
  BY <1>1, <1>2 DEF GracefulShutdown

\* Type correctness of the initial states.
LEMMA InitType == Init => TypeOK
<1> SUFFICES ASSUME Init PROVE TypeOK
  OBVIOUS
<1>1. pc \in [Tasks -> Labels]
  BY DEF Init, Labels
<1>2. hash \in [status : Statuses \cup {"none"}, ttl : BOOLEAN]
  <2>1. NoHash \in [status : Statuses \cup {"none"}, ttl : BOOLEAN]
    BY DEF NoHash
  <2>2. [status |-> "booting", ttl |-> TRUE] \in [status : Statuses \cup {"none"}, ttl : BOOLEAN]
    BY DEF Statuses
  <2> QED
    BY <2>1, <2>2 DEF Init
<1> QED
  BY <1>1, <1>2 DEF Init, TypeOK, Statuses

\* Type correctness is kept by the boot task.
LEMMA BootType == TypeOK /\ BootStep => TypeOK'
<1> SUFFICES ASSUME TypeOK, BootStep PROVE TypeOK'
  OBVIOUS
<1> USE DEF TypeOK, Labels, Waiting
<1>1. CASE SkipModelLoad
  BY <1>1 DEF SkipModelLoad, registry
<1>2. CASE StartHeartbeat
  BY <1>2 DEF StartHeartbeat, registry
<1>3. CASE ModelDownloaded
  BY <1>3 DEF ModelDownloaded, registry
<1>4. CASE EngineLoaded
  BY <1>4 DEF EngineLoaded, registry, Statuses
<1>5. CASE BootFails
  <2>1. CASE GracefulShutdown("boot") /\ UNCHANGED proc
    BY <1>5, <2>1, GracefulShutdownType DEF BootFails, registry, Tasks, Callers
  <2>2. CASE Exit("exited") /\ UNCHANGED <<signaled, pc, broken>>
    BY <1>5, <2>2, InFlightType DEF BootFails, registry, Exit
  <2> QED
    BY <1>5, <2>1, <2>2 DEF BootFails
<1>6. CASE MarkHealthyReturns
  BY <1>6, WaitType DEF MarkHealthyReturns, Tasks, Callers
<1> QED
  BY <1>1, <1>2, <1>3, <1>4, <1>5, <1>6 DEF BootStep

\* Type correctness is kept by every caller inside graceful_shutdown.
LEMMA CallerType ==
  ASSUME TypeOK, NEW c \in Callers, CallerStep(c)
  PROVE  TypeOK'
<1> c \in Tasks
  BY DEF Tasks
<1> USE DEF TypeOK, Labels, Waiting
<1>1. CASE PublishReturns(c)
  BY <1>1, WaitType DEF PublishReturns
<1>2. CASE PublishFails(c)
  BY <1>2, WaitType DEF PublishFails
<1>3. CASE DeleteReturns(c)
  BY <1>3, WaitType DEF DeleteReturns, CloseRedis, Waiters
<1>4. CASE RemoveReturns(c)
  BY <1>4, WaitType DEF RemoveReturns, CloseRedis, Waiters
<1>5. CASE ShutdownReturns(c)
  <2>1. proc' \in {"up", "killed", "stopped", "exited"} /\ stray' \subseteq Commands
    BY <1>5, InFlightType DEF ShutdownReturns, Exit
  <2> QED
    BY <1>5, <2>1 DEF ShutdownReturns, registry
<1> QED
  BY <1>1, <1>2, <1>3, <1>4, <1>5 DEF CallerStep

\* Type correctness is kept by every step.
LEMMA NextType == TypeOK /\ [Next]_vars => TypeOK'
<1> SUFFICES ASSUME TypeOK, [Next]_vars PROVE TypeOK'
  OBVIOUS
<1>1. CASE BootStep
  BY <1>1, BootType
<1>2. ASSUME NEW c \in Callers, CallerStep(c) PROVE TypeOK'
  BY <1>2, CallerType
<1> USE DEF TypeOK, Labels, Waiting
<1>3. ASSUME NEW t \in Beats, BeatReturns(t) PROVE TypeOK'
  BY <1>3, WaitType DEF BeatReturns, Tasks
<1>4. CASE NextBeat
  BY <1>4 DEF NextBeat, registry
<1>5. CASE IdleTimeoutFires
  BY <1>5, GracefulShutdownType DEF IdleTimeoutFires, registry, Tasks, Callers
<1>6. CASE SelfCancelDelivered
  <2>1. \A t \in Waiters \cap {"idle"} : Command(t) \in Commands
    BY CommandType DEF Waiters
  <2>2. stray' \subseteq Commands
    BY <1>6, <2>1 DEF SelfCancelDelivered
  <2>3. pc' \in [Tasks -> Labels]
    BY <1>6 DEF SelfCancelDelivered
  <2> QED
    BY <1>6, <2>2, <2>3 DEF SelfCancelDelivered, registry
<1>7. CASE SigtermShutdown
  BY <1>7, GracefulShutdownType DEF SigtermShutdown, registry, Tasks, Callers
<1>8. ASSUME NEW f \in Fatal, CudaFatal(f) PROVE TypeOK'
  BY <1>8, GracefulShutdownType DEF CudaFatal, registry, Tasks, Callers
<1>9. ASSUME NEW cmd \in Commands, StrayResolved(cmd) PROVE TypeOK'
  BY <1>9, ApplyType DEF StrayResolved, registry
<1>10. CASE HashExpires
  BY <1>10 DEF HashExpires, NoHash
<1>11. CASE Kill
  BY <1>11, InFlightType DEF Kill, Exit, registry
<1>12. CASE UNCHANGED vars
  BY <1>12 DEF vars, registry
<1> QED
  BY <1>1, <1>2, <1>3, <1>4, <1>5, <1>6, <1>7, <1>8, <1>9, <1>10, <1>11, <1>12 DEF Next

\* Every variable of the worker keeps its type, for every set of CUDA tasks.
THEOREM TypeCorrect == Spec => []TypeOK
  BY InitType, NextType, PTL DEF Spec

-----------------------------------------------------------------------------
(***************************************************************************)
(* One reason.  Verdicts is what the control plane knows or may still      *)
(* learn.  Only the first call of graceful_shutdown adds to it, and it     *)
(* adds to the empty set: every other step moves a reason from a task to   *)
(* the wire, from the wire to the channel, or loses it.                    *)
(***************************************************************************)

\* The task t is publishing the reason r.
Publishes(t, r) == proc = "up" /\ pc[t] = "publish" /\ Reason(t) = r

\* A task awaits the publication of r exactly when it is at its publish.
LEMMA PublishCommand ==
  ASSUME NEW t \in Tasks, NEW r
  PROVE  Command(t) = Cmd("publish", r) <=> pc[t] = "publish" /\ Reason(t) = r
<1>1. CASE pc[t] = "publish"
  BY <1>1 DEF Command, Cmd
<1>2. CASE pc[t] # "publish"
  BY <1>2 DEF Command, Cmd
<1> QED
  BY <1>1, <1>2

\* Where a verdict can be.
LEMMA VerdictPlaces ==
  ASSUME TypeOK, NEW r
  PROVE  r \in Verdicts <=> \/ r \in published
                            \/ r \in Reasons /\ Cmd("publish", r) \in stray
                            \/ \E t \in Tasks : Publishes(t, r)
<1>1. Cmd("publish", r) \in InFlight <=> \E t \in Tasks : Publishes(t, r)
  <2>1. ASSUME Cmd("publish", r) \in InFlight PROVE \E t \in Tasks : Publishes(t, r)
    <3>1. PICK t \in Waiters : Command(t) = Cmd("publish", r)
      BY <2>1 DEF InFlight
    <3> QED
      BY <3>1, PublishCommand DEF Waiters, Publishes
  <2>2. ASSUME NEW t \in Tasks, Publishes(t, r) PROVE Cmd("publish", r) \in InFlight
    <3>1. t \in Waiters
      BY <2>2 DEF Waiters, Waiting, Publishes
    <3>2. Command(t) = Cmd("publish", r)
      BY <2>2, PublishCommand DEF Publishes
    <3> QED
      BY <3>1, <3>2 DEF InFlight
  <2> QED
    BY <2>1, <2>2
<1>2. (\E t \in Tasks : Publishes(t, r)) => r \in Reasons
  BY ReasonType DEF Publishes
<1>3. published \subseteq Reasons
  BY DEF TypeOK
<1> QED
  BY <1>1, <1>2, <1>3 DEF Verdicts, Issued

\* The same places after a step.
LEMMA VerdictPlacesNext ==
  ASSUME TypeOK', NEW r \in Verdicts'
  PROVE  \/ r \in published'
         \/ r \in Reasons /\ Cmd("publish", r) \in stray'
         \/ \E t \in Tasks : Publishes(t, r)'
<1>1. r \in Reasons
  BY DEF Verdicts, TypeOK
<1>2. r \in published' \/ Cmd("publish", r) \in stray' \/ Cmd("publish", r) \in InFlight'
  BY DEF Verdicts, Issued
<1>3. ASSUME Cmd("publish", r) \in InFlight' PROVE \E t \in Tasks : Publishes(t, r)'
  <2>1. PICK t \in Tasks : proc' = "up" /\ Command(t)' = Cmd("publish", r)
    BY <1>3 DEF InFlight, Waiters
  <2>2. pc'[t] = "publish" /\ Reason(t) = r
    <3>1. CASE pc'[t] = "publish"
      BY <2>1, <3>1 DEF Command, Cmd
    <3>2. CASE pc'[t] # "publish"
      BY <2>1, <3>2 DEF Command, Cmd
    <3> QED
      BY <3>1, <3>2
  <2> QED
    BY <2>1, <2>2 DEF Publishes, Reason
<1> QED
  BY <1>1, <1>2, <1>3

\* A step that issues no publication adds no verdict.
LEMMA NoNewVerdict ==
  ASSUME TypeOK, TypeOK',
         UNCHANGED published \/ \E cmd \in Issued : Apply(cmd),
         stray' \subseteq Issued,
         \A t \in Tasks : proc' = "up" /\ pc'[t] = "publish" => proc = "up" /\ pc[t] = "publish"
  PROVE  Verdicts' \subseteq Verdicts
<1> SUFFICES ASSUME NEW r \in Verdicts' PROVE r \in Verdicts
  OBVIOUS
<1>1. \/ r \in published'
      \/ r \in Reasons /\ Cmd("publish", r) \in stray'
      \/ \E t \in Tasks : Publishes(t, r)'
  BY VerdictPlacesNext
<1>2. CASE r \in published'
  <2>1. CASE UNCHANGED published
    BY <1>2, <2>1, VerdictPlaces
  <2>2. ASSUME NEW cmd \in Issued, Apply(cmd) PROVE r \in Verdicts
    <3>1. cmd \in Commands
      BY InFlightType DEF Issued, TypeOK
    <3>2. r \in published \/ (cmd.op = "publish" /\ cmd.arg = r)
      BY <1>2, <2>2 DEF Apply
    <3>3. (cmd.op = "publish" /\ cmd.arg = r) => cmd = Cmd("publish", r)
      BY <3>1 DEF Commands, Cmd
    <3>4. r \in Reasons
      BY <1>2 DEF TypeOK
    <3> QED
      BY <3>2, <3>3, <3>4 DEF Verdicts
  <2> QED
    BY <2>1, <2>2
<1>3. CASE r \in Reasons /\ Cmd("publish", r) \in stray'
  BY <1>3 DEF Verdicts
<1>4. ASSUME NEW t \in Tasks, Publishes(t, r)' PROVE r \in Verdicts
  <2>1. Publishes(t, r)
    BY <1>4 DEF Publishes, Reason
  <2> QED
    BY <2>1, VerdictPlaces
<1> QED
  BY <1>1, <1>2, <1>3, <1>4

\* The inductive invariant: OneReason alone says nothing of a worker that has not
\* signalled yet, and needs the guard to rule a verdict out before the first call.
IInv == TypeOK /\ GuardBeforeVerdict /\ OneReason

\* A step that adds no verdict and leaves the guard alone keeps the invariant.
LEMMA QuietStep ==
  ASSUME IInv, TypeOK', Verdicts' \subseteq Verdicts, signaled' = signaled
  PROVE  IInv'
<1>1. GuardBeforeVerdict'
  BY DEF IInv, GuardBeforeVerdict
<1>2. OneReason'
  BY DEF IInv, OneReason
<1> QED
  BY <1>1, <1>2 DEF IInv

\* The first call of graceful_shutdown finds no verdict and adds its own reason only.
LEMMA FirstVerdict ==
  ASSUME IInv, TypeOK', NEW c \in Tasks, FirstSignal(c), UNCHANGED <<proc, published>>
  PROVE  IInv'
<1>1. Verdicts = {}
  BY DEF IInv, GuardBeforeVerdict, FirstSignal
<1>2. ASSUME NEW r \in Verdicts' PROVE r = Reason(c)
  <2>1. r \in Reasons /\ r \notin published'
    BY <1>1 DEF Verdicts, IInv, TypeOK
  <2>2. Cmd("publish", r) \notin stray /\ Cmd("publish", r) \notin InFlight
    BY <1>1, <2>1 DEF Verdicts, Issued
  <2>3. Cmd("publish", r) \notin stray'
    BY <2>2 DEF FirstSignal, InFlight
  <2>4. PICK t \in Tasks : Publishes(t, r)'
    BY <2>1, <2>3, VerdictPlacesNext
  <2>5. ~Publishes(t, r)
    BY <2>1, <1>1, VerdictPlaces DEF IInv
  <2>6. t = c
    BY <2>4, <2>5 DEF FirstSignal, Publishes, Reason
  <2> QED
    BY <2>4, <2>6 DEF Publishes, Reason
<1>3. signaled'
  BY DEF FirstSignal
<1> QED
  BY <1>2, <1>3 DEF IInv, GuardBeforeVerdict, OneReason

\* Any call of graceful_shutdown keeps the invariant.
LEMMA GracefulVerdict ==
  ASSUME IInv, TypeOK', NEW c \in Tasks, GracefulShutdown(c), UNCHANGED <<proc, published>>
  PROVE  IInv'
<1>1. CASE AlreadySignaled(c)
  <2>1. \A t \in Tasks : pc'[t] = "publish" => pc[t] = "publish"
    BY <1>1 DEF AlreadySignaled, IInv, TypeOK
  <2>2. Verdicts' \subseteq Verdicts
    BY <1>1, <2>1, NoNewVerdict DEF AlreadySignaled, IInv, Issued
  <2> QED
    BY <1>1, <2>2, QuietStep DEF AlreadySignaled
<1>2. CASE FirstSignal(c)
  BY <1>2, FirstVerdict
<1> QED
  BY <1>1, <1>2 DEF GracefulShutdown

\* What the answer, the failure or the loss of a command does to the wire.
LEMMA WaitVerdict ==
  ASSUME NEW t \in Tasks, Answered(t) \/ Failed(t)
  PROVE  /\ UNCHANGED published \/ \E cmd \in Issued : Apply(cmd)
         /\ stray' \subseteq Issued
<1>1. Command(t) \in Issued
  BY DEF Answered, Failed, Issued, InFlight
<1> QED
  BY <1>1 DEF Answered, Failed, Issued, registry

\* The boot task keeps the invariant.
LEMMA BootVerdict == IInv /\ TypeOK' /\ BootStep => IInv'
<1> SUFFICES ASSUME IInv, TypeOK', BootStep PROVE IInv'
  OBVIOUS
<1> pc \in [Tasks -> Labels] /\ {"boot", "idle"} \subseteq Tasks
  BY DEF IInv, TypeOK, Tasks, Callers
<1>1. CASE SkipModelLoad \/ StartHeartbeat \/ ModelDownloaded \/ EngineLoaded
  <2>1. \A t \in Tasks : pc'[t] = "publish" => pc[t] = "publish"
    BY <1>1 DEF SkipModelLoad, StartHeartbeat, ModelDownloaded, EngineLoaded
  <2>2. UNCHANGED <<proc, signaled, stray, published>>
    BY <1>1 DEF SkipModelLoad, StartHeartbeat, ModelDownloaded, EngineLoaded, registry
  <2>3. Verdicts' \subseteq Verdicts
    BY <2>1, <2>2, NoNewVerdict DEF IInv, Issued
  <2> QED
    BY <2>2, <2>3, QuietStep
<1>2. CASE BootFails
  <2>1. CASE GracefulShutdown("boot") /\ UNCHANGED proc
    BY <1>2, <2>1, GracefulVerdict DEF BootFails, registry
  <2>2. CASE Exit("exited") /\ UNCHANGED <<signaled, pc, broken>>
    <3>1. proc' # "up" /\ stray' \subseteq Issued /\ UNCHANGED published
      BY <1>2, <2>2 DEF BootFails, Exit, Issued, registry
    <3>2. Verdicts' \subseteq Verdicts
      BY <3>1, NoNewVerdict DEF IInv
    <3> QED
      BY <2>2, <3>2, QuietStep
  <2> QED
    BY <1>2, <2>1, <2>2 DEF BootFails
<1>3. CASE MarkHealthyReturns
  <2>1. \A t \in Tasks : pc'[t] = "publish" => pc[t] = "publish"
    BY <1>3 DEF MarkHealthyReturns
  <2>2. Verdicts' \subseteq Verdicts
    BY <1>3, <2>1, WaitVerdict, NoNewVerdict DEF MarkHealthyReturns, IInv
  <2> QED
    BY <1>3, <2>2, QuietStep DEF MarkHealthyReturns
<1> QED
  BY <1>1, <1>2, <1>3 DEF BootStep

\* So does every caller inside graceful_shutdown: its own publication becomes a
\* verdict that the control plane has, or one that is on the wire.
LEMMA CallerVerdict ==
  ASSUME IInv, TypeOK', NEW c \in Callers, CallerStep(c)
  PROVE  IInv'
<1> c \in Tasks /\ pc \in [Tasks -> Labels]
  BY DEF IInv, TypeOK, Tasks
<1>1. CASE PublishReturns(c) \/ PublishFails(c) \/ DeleteReturns(c) \/ RemoveReturns(c)
  <2>1. /\ Answered(c) \/ Failed(c)
        /\ UNCHANGED <<proc, signaled>>
    BY <1>1 DEF PublishReturns, PublishFails, DeleteReturns, RemoveReturns
  <2>2. \A t \in Tasks : pc'[t] = "publish" => pc[t] = "publish"
    BY <1>1 DEF PublishReturns, PublishFails, DeleteReturns, RemoveReturns
  <2>3. Verdicts' \subseteq Verdicts
    BY <2>1, <2>2, WaitVerdict, NoNewVerdict DEF IInv
  <2> QED
    BY <2>1, <2>3, QuietStep
<1>2. CASE ShutdownReturns(c)
  <2>1. \A t \in Tasks : pc'[t] = "publish" => pc[t] = "publish"
    BY <1>2 DEF ShutdownReturns
  <2>2. stray' \subseteq Issued /\ UNCHANGED <<signaled, published>> /\ (proc' = "up" => proc = "up")
    BY <1>2 DEF ShutdownReturns, Exit, Issued, registry
  <2>3. Verdicts' \subseteq Verdicts
    BY <2>1, <2>2, NoNewVerdict DEF IInv
  <2> QED
    BY <2>2, <2>3, QuietStep
<1> QED
  BY <1>1, <1>2 DEF CallerStep

\* Every step keeps the invariant.
LEMMA NextVerdict == IInv /\ [Next]_vars => IInv'
<1> SUFFICES ASSUME IInv, [Next]_vars PROVE IInv'
  OBVIOUS
<1> TypeOK'
  BY NextType DEF IInv
<1> pc \in [Tasks -> Labels] /\ {"loop", "idle", "lifespan"} \cup Fatal \cup Beats \subseteq Tasks
  BY DEF IInv, TypeOK, Tasks, Callers, Beats
<1>1. CASE BootStep
  BY <1>1, BootVerdict
<1>2. ASSUME NEW c \in Callers, CallerStep(c) PROVE IInv'
  BY <1>2, CallerVerdict
<1>3. ASSUME NEW t \in Beats, BeatReturns(t) PROVE IInv'
  <2>1. \A u \in Tasks : pc'[u] = "publish" => pc[u] = "publish"
    BY <1>3 DEF BeatReturns
  <2>2. Verdicts' \subseteq Verdicts
    BY <1>3, <2>1, WaitVerdict, NoNewVerdict DEF BeatReturns, IInv
  <2> QED
    BY <1>3, <2>2, QuietStep DEF BeatReturns
<1>4. CASE NextBeat
  <2>1. \A u \in Tasks : pc'[u] = "publish" => pc[u] = "publish"
    BY <1>4 DEF NextBeat
  <2>2. Verdicts' \subseteq Verdicts
    BY <1>4, <2>1, NoNewVerdict DEF NextBeat, IInv, Issued, registry
  <2> QED
    BY <1>4, <2>2, QuietStep DEF NextBeat
<1>5. CASE SelfCancelDelivered
  <2>1. \A u \in Tasks : pc'[u] = "publish" => pc[u] = "publish"
    BY <1>5 DEF SelfCancelDelivered
  <2>2. stray' \subseteq Issued
    BY <1>5 DEF SelfCancelDelivered, Issued, InFlight
  <2>3. Verdicts' \subseteq Verdicts
    BY <1>5, <2>1, <2>2, NoNewVerdict DEF SelfCancelDelivered, IInv, registry
  <2> QED
    BY <1>5, <2>3, QuietStep DEF SelfCancelDelivered
<1>6. CASE IdleTimeoutFires
  BY <1>6, GracefulVerdict DEF IdleTimeoutFires, registry
<1>7. CASE SigtermShutdown
  BY <1>7, GracefulVerdict DEF SigtermShutdown, registry
<1>8. ASSUME NEW f \in Fatal, CudaFatal(f) PROVE IInv'
  BY <1>8, GracefulVerdict DEF CudaFatal, registry
<1>9. ASSUME NEW cmd \in Commands, StrayResolved(cmd) PROVE IInv'
  <2>1. UNCHANGED published \/ \E d \in Issued : Apply(d)
    BY <1>9 DEF StrayResolved, registry, Issued
  <2>2. Verdicts' \subseteq Verdicts
    BY <1>9, <2>1, NoNewVerdict DEF StrayResolved, IInv, Issued
  <2> QED
    BY <1>9, <2>2, QuietStep DEF StrayResolved
<1>10. CASE HashExpires \/ UNCHANGED vars
  <2>1. UNCHANGED <<proc, pc, signaled, stray, published>>
    BY <1>10 DEF HashExpires, vars, registry
  <2>2. Verdicts' \subseteq Verdicts
    BY <2>1, NoNewVerdict DEF IInv, Issued
  <2> QED
    BY <2>1, <2>2, QuietStep
<1>11. CASE Kill
  <2>1. proc' # "up" /\ stray' \subseteq Issued /\ UNCHANGED <<signaled, published>>
    BY <1>11 DEF Kill, Exit, Issued, registry
  <2>2. Verdicts' \subseteq Verdicts
    BY <2>1, NoNewVerdict DEF IInv
  <2> QED
    BY <2>1, <2>2, QuietStep
<1> QED
  BY <1>1, <1>2, <1>3, <1>4, <1>5, <1>6, <1>7, <1>8, <1>9, <1>10, <1>11 DEF Next

\* Nothing is issued before the worker starts.
LEMMA InitVerdict == Init => IInv
<1> SUFFICES ASSUME Init PROVE IInv
  OBVIOUS
<1>1. TypeOK
  BY InitType
<1>2. ASSUME NEW r \in Verdicts PROVE FALSE
  <2>1. PICK t \in Tasks : Publishes(t, r)
    BY <1>1, VerdictPlaces DEF Init
  <2> QED
    BY <2>1 DEF Publishes, Init
<1> QED
  BY <1>1, <1>2 DEF IInv, GuardBeforeVerdict, OneReason

\* The invariant holds of every reachable state.
LEMMA IInvHolds == Spec => []IInv
  BY InitVerdict, NextVerdict, PTL DEF Spec

\* The control plane never receives two different reasons from one process, however
\* many CUDA tasks, signals and monitors race and whatever Redis does.
THEOREM OneReasonAlways == Spec => []OneReason
<1>1. IInv => OneReason
  BY DEF IInv
<1> QED
  BY <1>1, IInvHolds, PTL

\* The guard is taken before the first publication is issued.
THEOREM GuardFirst == Spec => []GuardBeforeVerdict
<1>1. IInv => GuardBeforeVerdict
  BY DEF IInv
<1> QED
  BY <1>1, IInvHolds, PTL

(***************************************************************************)
(* Deregistration.                                                         *)
(***************************************************************************)
Removals == {Cmd("delete", "hash"), Cmd("srem", "member")}

\* Only a reason that destroys the pod, once published, lets a removal be issued.
RemovalHasReason == Issued \cap Removals # {} => published \ {"idle-timeout"} # {}

\* Before the boot task has started the heartbeat nothing can have been signalled:
\* each trigger waits for the boot task, for the monitor that it starts, or for ready.
StartIsSilent ==
  pc["boot"] = "start" => ~signaled /\ ~ready /\ pc["idle"] = "off"

CInv == IInv /\ RemovalHasReason /\ StartIsSilent

\* A removal is in flight when its task is at that label.
LEMMA RemovalCommand ==
  ASSUME NEW t \in Tasks, pc[t] \in Waiting
  PROVE  Command(t) \in Removals <=> pc[t] \in {"delete", "srem"}
<1>1. CASE pc[t] \in {"delete", "srem"}
  BY <1>1 DEF Command, Removals
<1>2. CASE pc[t] \in {"beat", "publish", "hset"}
  BY <1>2 DEF Command, Cmd, Removals
<1> QED
  BY <1>1, <1>2 DEF Waiting

\* What has been issued after a step was issued before, unless a task has just come to
\* its removal.
LEMMA RemovalNext ==
  ASSUME published \subseteq published',
         stray' \subseteq Issued,
         \A t \in Tasks : proc' = "up" /\ pc'[t] \in {"delete", "srem"}
                            => \/ proc = "up" /\ pc[t] \in {"delete", "srem"}
                               \/ published' \ {"idle-timeout"} # {},
         RemovalHasReason
  PROVE  RemovalHasReason'
<1> SUFFICES ASSUME Issued' \cap Removals # {}, published \ {"idle-timeout"} = {},
                    published' \ {"idle-timeout"} = {}
             PROVE  FALSE
  BY DEF RemovalHasReason, Removals
<1>1. Issued \cap Removals = {}
  BY DEF RemovalHasReason
<1>2. PICK cmd \in Removals : cmd \in InFlight'
  BY <1>1 DEF Issued, Removals
<1>3. PICK t \in Tasks : proc' = "up" /\ pc'[t] \in Waiting /\ Command(t)' = cmd
  BY <1>2 DEF InFlight, Waiters
<1>4. pc'[t] \in {"delete", "srem"}
  <2>1. CASE pc'[t] \in {"beat", "publish", "hset"}
    BY <1>3, <2>1 DEF Command, Cmd, Removals
  <2> QED
    BY <1>3, <2>1 DEF Waiting
<1>5. proc = "up" /\ pc[t] \in {"delete", "srem"}
  BY <1>3, <1>4
<1>6. Command(t) \in Issued \cap Removals
  BY <1>5, RemovalCommand DEF Issued, InFlight, Waiters, Waiting
<1> QED
  BY <1>1, <1>6

\* Publications only add up.
LEMMA PublishedGrows ==
  /\ \A cmd : Apply(cmd) => published \subseteq published'
  /\ \A t : Answered(t) \/ Failed(t) => published \subseteq published' /\ stray' \subseteq Issued
<1>1. \A cmd : Apply(cmd) => published \subseteq published'
  BY DEF Apply
<1>2. ASSUME NEW t, Answered(t) \/ Failed(t) PROVE Command(t) \in InFlight
  BY <1>2 DEF Answered, Failed, InFlight
<1> QED
  BY <1>1, <1>2 DEF Answered, Failed, registry, Issued

\* graceful_shutdown, called when the boot task has left its start.
LEMMA GracefulRemoval ==
  ASSUME CInv, NEW c \in Callers, GracefulShutdown(c), UNCHANGED <<proc, registry>>
  PROVE  RemovalHasReason'
<1> c \in Tasks /\ pc \in [Tasks -> Labels]
  BY DEF Tasks, CInv, IInv, TypeOK
<1>1. stray' \subseteq Issued
  BY DEF GracefulShutdown, AlreadySignaled, FirstSignal, Issued, InFlight
<1>2. \A t \in Tasks : pc'[t] \in {"delete", "srem"} => pc[t] \in {"delete", "srem"}
  BY DEF GracefulShutdown, AlreadySignaled, FirstSignal
<1> QED
  BY <1>1, <1>2, RemovalNext DEF CInv, registry

\* Every step issues removals only after such a reason.
LEMMA NextRemoval == CInv /\ [Next]_vars => RemovalHasReason'
<1> SUFFICES ASSUME CInv, [Next]_vars PROVE RemovalHasReason'
  OBVIOUS
<1> pc \in [Tasks -> Labels] /\ Callers \cup Beats \cup Fatal \cup {"boot", "idle", "loop", "lifespan"} \subseteq Tasks
  BY DEF Tasks, Callers, Beats, CInv, IInv, TypeOK
<1> RemovalHasReason
  BY DEF CInv
<1>1. CASE BootStep
  <2>1. CASE SkipModelLoad \/ StartHeartbeat \/ ModelDownloaded \/ EngineLoaded
    <3>1. \A t \in Tasks : pc'[t] \in {"delete", "srem"} => pc[t] \in {"delete", "srem"}
      BY <2>1 DEF SkipModelLoad, StartHeartbeat, ModelDownloaded, EngineLoaded
    <3>2. UNCHANGED <<proc, stray, published>>
      BY <2>1 DEF SkipModelLoad, StartHeartbeat, ModelDownloaded, EngineLoaded, registry
    <3> QED
      BY <3>1, <3>2, RemovalNext DEF Issued
  <2>2. CASE BootFails
    <3>1. CASE GracefulShutdown("boot") /\ UNCHANGED proc
      BY <2>2, <3>1, GracefulRemoval DEF BootFails, Callers
    <3>2. CASE Exit("exited")
      BY <2>2, <3>2, RemovalNext DEF BootFails, Exit, Issued, registry
    <3> QED
      BY <2>2, <3>1, <3>2 DEF BootFails
  <2>3. CASE MarkHealthyReturns
    <3>1. \A t \in Tasks : pc'[t] \in {"delete", "srem"} => pc[t] \in {"delete", "srem"}
      BY <2>3 DEF MarkHealthyReturns
    <3> QED
      BY <2>3, <3>1, PublishedGrows, RemovalNext DEF MarkHealthyReturns
  <2> QED
    BY <1>1, <2>1, <2>2, <2>3 DEF BootStep
<1>2. ASSUME NEW c \in Callers, CallerStep(c) PROVE RemovalHasReason'
  <2>1. CASE PublishReturns(c)
    <3>1. c # "idle" => Reason(c) \in published' /\ Reason(c) # "idle-timeout"
      BY <2>1 DEF PublishReturns, Answered, Command, Cmd, Apply, Reason
    <3>2. \A t \in Tasks : pc'[t] \in {"delete", "srem"}
                             => pc[t] \in {"delete", "srem"} \/ c # "idle"
      BY <2>1 DEF PublishReturns
    <3> QED
      BY <2>1, <3>1, <3>2, PublishedGrows, RemovalNext DEF PublishReturns
  <2>2. CASE PublishFails(c) \/ DeleteReturns(c) \/ RemoveReturns(c)
    <3>1. \A t \in Tasks : pc'[t] \in {"delete", "srem"} => pc[t] \in {"delete", "srem"}
      BY <2>2 DEF PublishFails, DeleteReturns, RemoveReturns
    <3>2. UNCHANGED proc /\ (Answered(c) \/ Failed(c))
      BY <2>2 DEF PublishFails, DeleteReturns, RemoveReturns
    <3> QED
      BY <3>1, <3>2, PublishedGrows, RemovalNext
  <2>3. CASE ShutdownReturns(c)
    <3>1. \A t \in Tasks : pc'[t] \in {"delete", "srem"} => pc[t] \in {"delete", "srem"}
      BY <2>3 DEF ShutdownReturns
    <3>2. stray' \subseteq Issued /\ UNCHANGED published /\ proc = "up"
      BY <2>3 DEF ShutdownReturns, Exit, Issued, registry
    <3> QED
      BY <3>1, <3>2, RemovalNext
  <2> QED
    BY <1>2, <2>1, <2>2, <2>3 DEF CallerStep
<1>3. ASSUME NEW t \in Beats, BeatReturns(t) PROVE RemovalHasReason'
  <2>1. \A u \in Tasks : pc'[u] \in {"delete", "srem"} => pc[u] \in {"delete", "srem"}
    BY <1>3 DEF BeatReturns
  <2> QED
    BY <1>3, <2>1, PublishedGrows, RemovalNext DEF BeatReturns
<1>4. CASE NextBeat \/ SelfCancelDelivered
  <2>1. \A u \in Tasks : pc'[u] \in {"delete", "srem"} => pc[u] \in {"delete", "srem"}
    BY <1>4 DEF NextBeat, SelfCancelDelivered
  <2>2. stray' \subseteq Issued /\ UNCHANGED <<proc, published>>
    BY <1>4 DEF NextBeat, SelfCancelDelivered, Issued, InFlight, registry
  <2> QED
    BY <2>1, <2>2, RemovalNext
<1>5. CASE IdleTimeoutFires \/ SigtermShutdown
  BY <1>5, GracefulRemoval DEF IdleTimeoutFires, SigtermShutdown, Callers
<1>6. ASSUME NEW f \in Fatal, CudaFatal(f) PROVE RemovalHasReason'
  BY <1>6, GracefulRemoval DEF CudaFatal, Callers
<1>7. ASSUME NEW cmd \in Commands, StrayResolved(cmd) PROVE RemovalHasReason'
  BY <1>7, PublishedGrows, RemovalNext DEF StrayResolved, registry, Issued
<1>8. CASE HashExpires \/ UNCHANGED vars
  BY <1>8, RemovalNext DEF HashExpires, vars, registry, Issued
<1>9. CASE Kill
  BY <1>9, RemovalNext DEF Kill, Exit, registry, Issued
<1> QED
  BY <1>1, <1>2, <1>3, <1>4, <1>5, <1>6, <1>7, <1>8, <1>9 DEF Next

\* Every step leaves a boot task at its start undisturbed.
LEMMA NextSilent == CInv /\ [Next]_vars => StartIsSilent'
<1> SUFFICES ASSUME CInv, [Next]_vars, pc'["boot"] = "start"
             PROVE  ~signaled' /\ ~ready' /\ pc'["idle"] = "off"
  BY DEF StartIsSilent
<1> pc \in [Tasks -> Labels] /\ {"boot", "idle", "loop", "lifespan"} \subseteq Tasks
  BY DEF Tasks, Callers, Beats, CInv, IInv, TypeOK
<1> "boot" \notin Fatal /\ "idle" \notin Fatal /\ "boot" \notin Beats /\ "idle" \notin Beats
  BY FatalAssumption DEF Beats
<1> Callers \subseteq Tasks /\ Beats \subseteq Tasks /\ Fatal \subseteq Tasks
  BY DEF Tasks, Callers
<1> DEFINE Same == /\ pc["boot"] = "start" /\ pc'["idle"] = pc["idle"]
                   /\ signaled' = signaled /\ ready' = ready
<1>0. Same => ~signaled' /\ ~ready' /\ pc'["idle"] = "off"
  BY DEF CInv, StartIsSilent
<1>1. CASE BootStep
  BY <1>1 DEF BootStep, SkipModelLoad, StartHeartbeat, ModelDownloaded, EngineLoaded,
              BootFails, MarkHealthyReturns, GracefulShutdown, AlreadySignaled, FirstSignal, Stopped
<1>2. ASSUME NEW c \in Callers, CallerStep(c) PROVE Same
  <2>1. pc["boot"] = "start"
    BY <1>2 DEF CallerStep, PublishReturns, PublishFails, DeleteReturns, RemoveReturns, ShutdownReturns
  <2>2. pc["idle"] = "off" /\ pc[c] \in {"publish", "delete", "srem", "close", "return"}
    BY <1>2, <2>1
    DEF CInv, StartIsSilent, CallerStep, PublishReturns, PublishFails, DeleteReturns,
        RemoveReturns, ShutdownReturns
  <2> QED
    BY <1>2, <2>1, <2>2
    DEF CallerStep, PublishReturns, PublishFails, DeleteReturns, RemoveReturns, ShutdownReturns
<1>3. ASSUME NEW t \in Beats, BeatReturns(t) PROVE Same
  BY <1>3 DEF BeatReturns
<1>4. CASE NextBeat
  BY <1>0, <1>4 DEF NextBeat
<1>5. CASE SelfCancelDelivered \/ IdleTimeoutFires
  <2>1. pc["boot"] = "start"
    BY <1>5 DEF SelfCancelDelivered, IdleTimeoutFires, GracefulShutdown, AlreadySignaled,
                FirstSignal, Stopped
  <2> QED
    BY <1>5, <2>1 DEF CInv, StartIsSilent, SelfCancelDelivered, IdleTimeoutFires
<1>6. CASE SigtermShutdown
  BY <1>6 DEF SigtermShutdown, GracefulShutdown, AlreadySignaled, FirstSignal, Stopped
<1>7. ASSUME NEW f \in Fatal, CudaFatal(f) PROVE FALSE
  <2>1. pc["boot"] = "start"
    BY <1>7 DEF CudaFatal, GracefulShutdown, AlreadySignaled, FirstSignal, Stopped
  <2> QED
    BY <1>7, <2>1 DEF CInv, StartIsSilent, CudaFatal
<1>8. ASSUME NEW cmd \in Commands, StrayResolved(cmd) PROVE Same
  BY <1>8 DEF StrayResolved
<1>9. CASE HashExpires \/ Kill \/ UNCHANGED vars
  BY <1>0, <1>9 DEF HashExpires, Kill, vars
<1> QED
  BY <1>0, <1>1, <1>2, <1>3, <1>4, <1>5, <1>6, <1>7, <1>8, <1>9 DEF Next

\* The strengthened invariant holds of the initial states.
LEMMA InitCInv == Init => CInv
<1> SUFFICES ASSUME Init PROVE CInv
  OBVIOUS
<1>1. Waiters = {} /\ {"boot", "idle"} \subseteq Tasks
  BY DEF Init, Waiters, Waiting, Tasks, Callers
<1>2. Issued = {}
  BY <1>1 DEF Init, Issued, InFlight
<1> QED
  BY <1>1, <1>2, InitVerdict DEF CInv, RemovalHasReason, StartIsSilent, Init

\* ... and of all others.
LEMMA CInvHolds == Spec => []CInv
<1>1. CInv /\ [Next]_vars => CInv'
  BY NextVerdict, NextRemoval, NextSilent DEF CInv
<1> QED
  BY <1>1, InitCInv, PTL DEF Spec

\* The worker takes itself off the registry only once its reason has been received.
THEOREM SignalThenDeregister == Spec => []SignalBeforeDeregister
<1>1. CInv => SignalBeforeDeregister
  BY DEF CInv, RemovalHasReason, SignalBeforeDeregister, Removals
<1> QED
  BY <1>1, CInvHolds, PTL

\* After the pause may have gone out nobody removes the registration, however many CUDA
\* errors and signals follow: the only published reason would be another one.
THEOREM PauseKeepsRegistered == Spec => []PauseKeepsRegistration
<1>1. CInv => PauseKeepsRegistration
  <2> SUFFICES ASSUME CInv, "idle-timeout" \in Verdicts PROVE Issued \cap Removals = {}
    BY DEF PauseKeepsRegistration, Removals
  <2>1. published \subseteq Verdicts
    BY DEF Verdicts
  <2>2. published \ {"idle-timeout"} = {}
    BY <2>1 DEF CInv, IInv, OneReason
  <2> QED
    BY <2>2 DEF CInv, RemovalHasReason
<1> QED
  BY <1>1, CInvHolds, PTL

-----------------------------------------------------------------------------
(***************************************************************************)
(* The refinement.  Most steps move the verdict at most and leave the      *)
(* heartbeat and the active set alone: they are Deliver or a stutter.  The *)
(* others leave every publication where it is, except the first call of    *)
(* graceful_shutdown, which is Decide.                                     *)
(***************************************************************************)

\* ObservedVerdict as a function of what it depends on.
View(pub, ver, sig) ==
  IF pub # {} THEN [state |-> "received", reason |-> CHOOSE r \in pub : TRUE]
  ELSE IF ver # {} THEN [state |-> "sent", reason |-> CHOOSE r \in ver : TRUE]
  ELSE [state |-> IF sig THEN "lost" ELSE "none"]

\* That is what it is, before and after a step.
LEMMA Views ==
  /\ ObservedVerdict = View(published, Verdicts, signaled)
  /\ ObservedVerdict' = View(published', Verdicts', signaled')
  BY DEF ObservedVerdict, View

\* With one reason there is nothing to choose.
LEMMA ViewOfOne ==
  ASSUME NEW pub, NEW ver, NEW sig, pub \subseteq ver, \A r, s \in ver : r = s, NEW r \in ver
  PROVE  View(pub, ver, sig) = IF pub # {} THEN Contract!Received(r) ELSE Contract!Sent(r)
<1>1. CASE pub # {}
  <2>1. (CHOOSE s \in pub : TRUE) \in pub
    BY <1>1
  <2>2. (CHOOSE s \in pub : TRUE) = r
    BY <2>1
  <2> QED
    BY <1>1, <2>2 DEF View, Contract!Received
<1>2. CASE pub = {}
  <2>1. (CHOOSE s \in ver : TRUE) \in ver
    OBVIOUS
  <2>2. (CHOOSE s \in ver : TRUE) = r
    BY <2>1
  <2> QED
    BY <1>2, <2>2 DEF View, Contract!Sent
<1> QED
  BY <1>1, <1>2

\* A verdict that moves, or is lost, is a delivery or no change at all.
LEMMA ViewMoves ==
  ASSUME NEW pub, NEW ver, NEW pub2, NEW ver2, NEW sig,
         pub \subseteq ver, \A r, s \in ver : r = s, ~sig => ver = {},
         pub \subseteq pub2, pub2 \subseteq ver2, ver2 \subseteq ver
  PROVE  \/ View(pub2, ver2, sig) = View(pub, ver, sig)
         \/ \E r \in ver : /\ View(pub, ver, sig) = Contract!Sent(r)
                           /\ View(pub2, ver2, sig) \in {Contract!Received(r), Contract!Lost}
<1>1. CASE pub # {} \/ ver = {}
  <2>1. pub2 = pub
    BY <1>1
  <2>2. pub = {} => ver2 = ver
    BY <1>1
  <2> QED
    BY <2>1, <2>2 DEF View
<1>2. CASE pub = {} /\ ver # {}
  <2>1. PICK r \in ver : TRUE
    BY <1>2
  <2>2. View(pub, ver, sig) = Contract!Sent(r)
    BY <1>2, <2>1, ViewOfOne
  <2>3. CASE ver2 = {}
    BY <1>2, <2>1, <2>2, <2>3 DEF View, Contract!Lost
  <2>4. CASE ver2 # {}
    <3>1. r \in ver2
      BY <2>1, <2>4
    <3>2. View(pub2, ver2, sig) = IF pub2 # {} THEN Contract!Received(r) ELSE Contract!Sent(r)
      BY <3>1, ViewOfOne
    <3> QED
      BY <2>1, <2>2, <3>2
  <2> QED
    BY <2>3, <2>4
<1> QED
  BY <1>1, <1>2

\* A step of the contract, or none that it can see.
ContractStep == [Contract!Next]_(Contract!vars)

\* A step that issues no publication, composes the same heartbeats and changes no
\* membership delivers the verdict, loses it or leaves it alone.
LEMMA QuietContract ==
  ASSUME CInv, IInv',
         signaled' = signaled, member' = member, Beating' = Beating,
         UNCHANGED published \/ \E cmd \in Issued : Apply(cmd),
         stray' \subseteq Issued,
         \A t \in Tasks : proc' = "up" /\ pc'[t] = "publish" => proc = "up" /\ pc[t] = "publish"
  PROVE  ContractStep
<1>1. Verdicts' \subseteq Verdicts
  BY NoNewVerdict DEF CInv, IInv
<1>2. published \subseteq published'
  BY PublishedGrows
<1>3. published \subseteq Verdicts /\ published' \subseteq Verdicts' /\ Verdicts \subseteq Reasons
  BY DEF Verdicts, CInv, IInv, TypeOK
<1>4. (\A r, s \in Verdicts : r = s) /\ (~signaled => Verdicts = {})
  BY DEF CInv, IInv, OneReason, GuardBeforeVerdict
<1>5. \/ ObservedVerdict' = ObservedVerdict
      \/ \E r \in Verdicts : /\ ObservedVerdict = Contract!Sent(r)
                             /\ ObservedVerdict' \in {Contract!Received(r), Contract!Lost}
  BY <1>1, <1>2, <1>3, <1>4, ViewMoves, Views
<1>6. CASE ObservedVerdict' = ObservedVerdict
  BY <1>6 DEF ContractStep, Contract!vars
<1>7. ASSUME NEW r \in Verdicts, ObservedVerdict = Contract!Sent(r),
             ObservedVerdict' \in {Contract!Received(r), Contract!Lost}
      PROVE  Contract!Deliver
  BY <1>3, <1>7 DEF Contract!Deliver
<1> QED
  BY <1>5, <1>6, <1>7 DEF ContractStep, Contract!Next

\* A step that leaves every publication where it is leaves the verdict alone.
LEMMA SteadyVerdict ==
  ASSUME UNCHANGED <<proc, signaled, published>>,
         \A r : Cmd("publish", r) \in stray' <=> Cmd("publish", r) \in stray,
         \A t \in Tasks : pc'[t] = "publish" <=> pc[t] = "publish"
  PROVE  ObservedVerdict' = ObservedVerdict
<1>1. ASSUME NEW r PROVE Cmd("publish", r) \in InFlight' <=> Cmd("publish", r) \in InFlight
  <2>1. ASSUME NEW t \in Tasks
        PROVE  Command(t)' = Cmd("publish", r) <=> Command(t) = Cmd("publish", r)
    <3>1. CASE pc[t] = "publish"
      BY <3>1 DEF Command
    <3>2. CASE pc[t] # "publish"
      BY <3>2 DEF Command, Cmd
    <3> QED
      BY <3>1, <3>2
  <2>2. \A t \in Tasks : Command(t) = Cmd("publish", r) => pc[t] = "publish"
    BY PublishCommand
  <2> QED
    BY <2>1, <2>2 DEF InFlight, Waiters, Waiting
<1>2. Verdicts' = Verdicts
  BY <1>1 DEF Verdicts, Issued
<1> QED
  BY <1>2 DEF ObservedVerdict

\* The process ends: what was in flight is left to the network, and the heart stops.
LEMMA ExitContract ==
  ASSUME proc = "up", NEW how, how # "up", Exit(how), UNCHANGED <<signaled, registry>>
  PROVE  ContractStep
<1>1. InFlight' = {} /\ stray' = Issued
  BY DEF Exit, InFlight, Waiters, Issued
<1>2. Verdicts' = Verdicts
  BY <1>1 DEF Verdicts, Issued, registry
<1>3. ObservedVerdict' = ObservedVerdict /\ member' = member /\ Beating' = FALSE
  BY <1>2 DEF ObservedVerdict, registry, Beating, Exit
<1> QED
  BY <1>3 DEF ContractStep, Contract!Next, Contract!StopBeating

\* The first call decides, and the heart stops with it.
LEMMA FirstContract ==
  ASSUME CInv, IInv', NEW c \in Callers, FirstSignal(c), UNCHANGED <<proc, registry>>
  PROVE  ContractStep
<1> c \in Tasks /\ c \notin Beats /\ "loop" \in Tasks /\ "loop" \in Beats
  BY FatalAssumption DEF Tasks, Callers, Beats
<1>1. Verdicts = {} /\ published = {} /\ published' = {} /\ ~signaled /\ signaled'
  BY DEF CInv, IInv, GuardBeforeVerdict, FirstSignal, Verdicts, registry
<1>2. ObservedVerdict = Contract!NoVerdict
  BY <1>1 DEF ObservedVerdict, Contract!NoVerdict
<1>3. ObservedVerdict' \in {Contract!Lost} \cup {Contract!Sent(r) : r \in Reasons}
  <2>1. CASE Verdicts' = {}
    BY <1>1, <2>1 DEF ObservedVerdict, Contract!Lost
  <2>2. CASE Verdicts' # {}
    <3>1. PICK r \in Verdicts' : TRUE
      BY <2>2
    <3>2. \A s, q \in Verdicts' : s = q
      BY DEF IInv, OneReason
    <3>3. ObservedVerdict' = Contract!Sent(r)
      BY <1>1, <3>2, ViewOfOne, Views
    <3>4. r \in Reasons
      BY <1>1 DEF Verdicts
    <3> QED
      BY <3>3, <3>4
  <2> QED
    BY <2>1, <2>2
<1>4. Beating' = FALSE
  BY DEF FirstSignal, Stopped, Beating
<1>5. member' = member
  BY DEF registry
<1> QED
  BY <1>2, <1>3, <1>4, <1>5 DEF ContractStep, Contract!Next, Contract!Decide

\* Every call of graceful_shutdown, from a label at which nothing is published.
LEMMA GracefulContract ==
  ASSUME CInv, IInv', NEW c \in Callers, GracefulShutdown(c), UNCHANGED <<proc, registry>>
  PROVE  ContractStep
<1>1. CASE AlreadySignaled(c)
  <2> c \in Tasks /\ c # "loop" /\ "loop" \in Tasks /\ pc \in [Tasks -> Labels]
    BY FatalAssumption DEF Tasks, Callers, Beats, CInv, IInv, TypeOK
  <2>1. Beating' = Beating
    BY <1>1 DEF AlreadySignaled, Beating
  <2>2. \A t \in Tasks : pc'[t] = "publish" => pc[t] = "publish"
    BY <1>1 DEF AlreadySignaled
  <2>3. stray' \subseteq Issued /\ UNCHANGED <<signaled, member, published, proc>>
    BY <1>1 DEF AlreadySignaled, Issued, registry
  <2> QED
    BY <2>1, <2>2, <2>3, QuietContract
<1>2. CASE FirstSignal(c)
  BY <1>2, FirstContract
<1> QED
  BY <1>1, <1>2 DEF GracefulShutdown

\* A removal is issued only under a received verdict that is not a pause.
LEMMA RemovalReceived ==
  ASSUME CInv, Cmd("srem", "member") \in Issued
  PROVE  \E r \in Reasons \ {"idle-timeout"} : ObservedVerdict = Contract!Received(r)
<1>1. PICK r \in published : r # "idle-timeout"
  BY DEF CInv, RemovalHasReason, Removals
<1>2. r \in Reasons /\ r \in Verdicts /\ published \subseteq Verdicts
  BY <1>1 DEF Verdicts, CInv, IInv, TypeOK
<1>3. ObservedVerdict = Contract!Received(r)
  BY <1>1, <1>2, ViewOfOne, Views DEF CInv, IInv, OneReason
<1> QED
  BY <1>1, <1>2, <1>3

\* The boot task keeps the contract: it starts the heart before anything is decided.
LEMMA BootContract ==
  ASSUME CInv, IInv', BootStep
  PROVE  ContractStep
<1> {"boot", "idle", "loop"} \subseteq Tasks /\ "boot" \in Callers /\ Beats \subseteq Tasks
    /\ pc \in [Tasks -> Labels] /\ "boot" \notin Beats /\ "loop" \in Beats
  BY DEF Tasks, Callers, Beats, CInv, IInv, TypeOK
<1>1. CASE SkipModelLoad \/ ModelDownloaded \/ EngineLoaded
  <2>1. /\ Beating' = Beating
        /\ \A t \in Tasks : pc'[t] = "publish" => pc[t] = "publish"
    BY <1>1 DEF SkipModelLoad, ModelDownloaded, EngineLoaded, Beating
  <2>2. UNCHANGED <<proc, signaled, stray, member, published>>
    BY <1>1 DEF SkipModelLoad, ModelDownloaded, EngineLoaded, registry
  <2> QED
    BY <2>1, <2>2, QuietContract DEF Issued
<1>2. CASE StartHeartbeat
  <2>1. ObservedVerdict = Contract!NoVerdict
    BY <1>2 DEF StartHeartbeat, CInv, IInv, StartIsSilent, GuardBeforeVerdict, Verdicts,
                ObservedVerdict, Contract!NoVerdict
  <2>2. ObservedVerdict' = ObservedVerdict
    <3>1. \A t \in Tasks : pc'[t] = "publish" <=> pc[t] = "publish"
      <4>1. \A t \in Beats : pc[t] # "publish" \/ Publishes(t, Reason(t))
        BY <1>2 DEF StartHeartbeat, Publishes
      <4>2. Verdicts = {}
        BY <1>2 DEF StartHeartbeat, CInv, IInv, StartIsSilent, GuardBeforeVerdict
      <4>3. \A t \in Beats : pc[t] # "publish"
        BY <4>1, <4>2, VerdictPlaces DEF CInv, IInv
      <4> QED
        BY <1>2, <4>3 DEF StartHeartbeat
    <3> QED
      BY <1>2, <3>1, SteadyVerdict DEF StartHeartbeat, registry
  <2>3. Beating' \in BOOLEAN /\ member' = member
    BY <1>2 DEF StartHeartbeat, Beating, registry
  <2>4. CASE Beating' = TRUE
    BY <2>1, <2>2, <2>3, <2>4 DEF ContractStep, Contract!Next, Contract!StartBeating
  <2>5. CASE Beating' = FALSE
    BY <2>2, <2>3, <2>5 DEF ContractStep, Contract!Next, Contract!StopBeating
  <2> QED
    BY <2>3, <2>4, <2>5
<1>3. CASE BootFails
  <2>1. CASE GracefulShutdown("boot") /\ UNCHANGED proc
    BY <1>3, <2>1, GracefulContract DEF BootFails
  <2>2. CASE Exit("exited") /\ UNCHANGED signaled
    BY <1>3, <2>2, ExitContract DEF BootFails
  <2> QED
    BY <1>3, <2>1, <2>2 DEF BootFails
<1>4. CASE MarkHealthyReturns
  <2>1. \A t \in Tasks : pc'[t] = "publish" => pc[t] = "publish"
    BY <1>4 DEF MarkHealthyReturns
  <2>2. UNCHANGED <<proc, signaled>> /\ Beating' = Beating
    BY <1>4 DEF MarkHealthyReturns, Beating
  <2>3. member' = member
    BY <1>4 DEF MarkHealthyReturns, Answered, Failed, Apply, Command, Cmd, registry
  <2>4. (UNCHANGED published \/ \E cmd \in Issued : Apply(cmd)) /\ stray' \subseteq Issued
    BY <1>4, WaitVerdict DEF MarkHealthyReturns
  <2> QED
    BY <2>1, <2>2, <2>3, <2>4, QuietContract
<1> QED
  BY <1>1, <1>2, <1>3, <1>4 DEF BootStep

\* So does every caller inside graceful_shutdown: SREM follows the verdict.
LEMMA CallerContract ==
  ASSUME CInv, IInv', NEW c \in Callers, CallerStep(c)
  PROVE  ContractStep
<1> c \in Tasks /\ c # "loop" /\ "loop" \in Tasks /\ pc \in [Tasks -> Labels]
  BY FatalAssumption DEF Tasks, Callers, Beats, CInv, IInv, TypeOK
<1>1. CASE \/ PublishReturns(c) \/ PublishFails(c) \/ DeleteReturns(c)
           \/ RemoveReturns(c) /\ UNCHANGED member
  <2>1. UNCHANGED <<proc, signaled>> /\ (Answered(c) \/ Failed(c)) /\ Beating' = Beating
    BY <1>1 DEF PublishReturns, PublishFails, DeleteReturns, RemoveReturns, Beating
  <2>2. \A t \in Tasks : pc'[t] = "publish" => pc[t] = "publish"
    BY <1>1 DEF PublishReturns, PublishFails, DeleteReturns, RemoveReturns
  <2>3. member' = member
    BY <1>1 DEF PublishReturns, PublishFails, DeleteReturns, Answered, Failed, Apply,
                Command, Cmd, registry
  <2> QED
    BY <2>1, <2>2, <2>3, WaitVerdict, QuietContract
<1>2. CASE RemoveReturns(c) /\ member' # member
  <2>1. Answered(c) /\ Command(c) = Cmd("srem", "member")
    BY <1>2 DEF RemoveReturns, Failed, Command, registry
  <2>2. member' = FALSE /\ UNCHANGED <<published, stray, proc, signaled>>
    BY <1>2, <2>1 DEF Answered, Apply, Cmd, RemoveReturns
  <2>3. \A t \in Tasks : pc'[t] = "publish" <=> pc[t] = "publish"
    BY <1>2 DEF RemoveReturns
  <2>4. ObservedVerdict' = ObservedVerdict /\ Beating' = Beating
    BY <1>2, <2>2, <2>3, SteadyVerdict DEF RemoveReturns, Beating
  <2>5. \E r \in Reasons \ {"idle-timeout"} : ObservedVerdict = Contract!Received(r)
    <3>1. Cmd("srem", "member") \in Issued
      BY <2>1 DEF Answered, Issued, InFlight
    <3> QED
      BY <3>1, RemovalReceived
  <2> QED
    BY <2>2, <2>4, <2>5 DEF ContractStep, Contract!Next, Contract!Strike
<1>3. CASE ShutdownReturns(c)
  <2>1. CASE UNCHANGED <<proc, stray>>
    <3>1. \A t \in Tasks : pc'[t] = "publish" => pc[t] = "publish"
      BY <1>3 DEF ShutdownReturns
    <3>2. Beating' = Beating /\ UNCHANGED <<signaled, member, published>>
      BY <1>3, <2>1 DEF ShutdownReturns, Beating, registry
    <3> QED
      BY <2>1, <3>1, <3>2, QuietContract DEF Issued
  <2>2. CASE Exit("stopped") \/ Exit("exited")
    BY <1>3, <2>2, ExitContract DEF ShutdownReturns
  <2> QED
    BY <1>3, <2>1, <2>2 DEF ShutdownReturns
<1> QED
  BY <1>1, <1>2, <1>3 DEF CallerStep

\* Every step of the worker is a step of its contract, or none.
LEMMA NextContract == CInv /\ IInv' /\ [Next]_vars => ContractStep
<1> SUFFICES ASSUME CInv, IInv', [Next]_vars PROVE ContractStep
  OBVIOUS
<1> pc \in [Tasks -> Labels] /\ Callers \cup Beats \cup Fatal \cup {"idle", "loop", "lifespan"} \subseteq Tasks
  BY DEF Tasks, Callers, Beats, CInv, IInv, TypeOK
<1>1. CASE BootStep
  BY <1>1, BootContract
<1>2. ASSUME NEW c \in Callers, CallerStep(c) PROVE ContractStep
  BY <1>2, CallerContract
<1>3. ASSUME NEW t \in Beats, BeatReturns(t) PROVE ContractStep
  <2>1. Beating' = Beating
    BY <1>3 DEF BeatReturns, Beating, Beats
  <2>2. \A u \in Tasks : pc'[u] = "publish" <=> pc[u] = "publish"
    BY <1>3 DEF BeatReturns
  <2>3. member' = member \/ member' = TRUE
    BY <1>3 DEF BeatReturns, Answered, Failed, Apply, Command, Cmd, registry
  <2>4. UNCHANGED <<proc, signaled, published>>
    BY <1>3 DEF BeatReturns, Answered, Failed, Apply, Command, Cmd, registry
  <2>5. \A r : Cmd("publish", r) \in stray' <=> Cmd("publish", r) \in stray
    BY <1>3 DEF BeatReturns, Answered, Failed, Command, Cmd
  <2>6. ObservedVerdict' = ObservedVerdict
    BY <2>2, <2>4, <2>5, SteadyVerdict
  <2> QED
    BY <2>1, <2>3, <2>6 DEF ContractStep, Contract!Next, Contract!List, Contract!vars
<1>4. CASE NextBeat \/ SelfCancelDelivered
  <2>1. \A u \in Tasks : pc'[u] = "publish" => pc[u] = "publish"
    BY <1>4 DEF NextBeat, SelfCancelDelivered
  <2>2. Beating' = Beating
    BY <1>4 DEF NextBeat, SelfCancelDelivered, Beating
  <2>3. stray' \subseteq Issued /\ UNCHANGED <<proc, signaled, published, member>>
    BY <1>4 DEF NextBeat, SelfCancelDelivered, Issued, InFlight, registry
  <2> QED
    BY <2>1, <2>2, <2>3, QuietContract
<1>5. CASE IdleTimeoutFires \/ SigtermShutdown
  BY <1>5, GracefulContract DEF IdleTimeoutFires, SigtermShutdown, Callers
<1>6. ASSUME NEW f \in Fatal, CudaFatal(f) PROVE ContractStep
  BY <1>6, GracefulContract DEF CudaFatal, Callers
<1>7. ASSUME NEW cmd \in Commands, StrayResolved(cmd) PROVE ContractStep
  <2>1. UNCHANGED <<proc, signaled, pc>> /\ Beating' = Beating /\ cmd \in Issued
    BY <1>7 DEF StrayResolved, Beating, Issued
  <2>2. CASE member' = member
    BY <1>7, <2>1, <2>2, QuietContract DEF StrayResolved, Issued, registry
  <2>3. CASE member' # member
    <3>1. Apply(cmd) /\ cmd.op \in {"beat", "srem"} /\ UNCHANGED published
      BY <1>7, <2>3 DEF StrayResolved, Apply, registry
    <3>2. \A r : Cmd("publish", r) \in stray' <=> Cmd("publish", r) \in stray
      BY <1>7, <3>1 DEF StrayResolved, Cmd
    <3>3. ObservedVerdict' = ObservedVerdict
      BY <2>1, <3>1, <3>2, SteadyVerdict
    <3>4. CASE cmd.op = "beat"
      <4>1. member' = TRUE
        BY <3>1, <3>4 DEF Apply
      <4> QED
        BY <2>1, <3>3, <4>1 DEF ContractStep, Contract!Next, Contract!List
    <3>5. CASE cmd.op = "srem"
      <4>1. cmd = Cmd("srem", "member")
        BY <3>5 DEF Commands, Cmd
      <4>2. \E r \in Reasons \ {"idle-timeout"} : ObservedVerdict = Contract!Received(r)
        BY <2>1, <4>1, RemovalReceived
      <4>3. member' = FALSE
        BY <3>1, <3>5 DEF Apply
      <4> QED
        BY <2>1, <3>3, <4>2, <4>3 DEF ContractStep, Contract!Next, Contract!Strike
    <3> QED
      BY <3>1, <3>4, <3>5
  <2> QED
    BY <2>2, <2>3
<1>8. CASE HashExpires \/ UNCHANGED vars
  <2>1. UNCHANGED <<proc, pc, signaled, stray, member, published>>
    BY <1>8 DEF HashExpires, vars, registry
  <2>2. Beating' = Beating
    BY <2>1 DEF Beating
  <2> QED
    BY <2>1, <2>2, QuietContract DEF Issued
<1>9. CASE Kill
  BY <1>9, ExitContract DEF Kill
<1> QED
  BY <1>1, <1>2, <1>3, <1>4, <1>5, <1>6, <1>7, <1>8, <1>9 DEF Next

\* A worker that has just started has said nothing.
LEMMA InitContract == Init => Contract!Init
<1> SUFFICES ASSUME Init PROVE Contract!Init
  OBVIOUS
<1>1. Waiters = {} /\ "loop" \in Tasks
  BY DEF Init, Waiters, Waiting, Tasks, Beats
<1>2. Verdicts = {} /\ published = {} /\ ~signaled
  BY <1>1 DEF Init, Verdicts, Issued, InFlight
<1>3. ObservedVerdict = Contract!NoVerdict
  BY <1>2 DEF ObservedVerdict, Contract!NoVerdict
<1>4. Beating = FALSE /\ member = FALSE
  BY <1>1 DEF Init, Beating
<1> QED
  BY <1>3, <1>4 DEF Contract!Init

\* The worker implements its contract with the control plane, for every set of CUDA
\* tasks and any Redis: one verdict, silence once it is decided, and no removal from
\* the active set before a verdict other than a pause was received.
THEOREM KeepsContract == Spec => ImplementsContract
<1>1. CInv /\ IInv' /\ [Next]_vars => [Contract!Next]_(Contract!vars)
  BY NextContract DEF ContractStep
<1> QED
  BY <1>1, InitContract, CInvHolds, IInvHolds, PTL DEF Spec, ImplementsContract, Contract!Spec
=============================================================================
