------------------------- MODULE HeartbeatLifecycle -------------------------
(***************************************************************************)
(* The life of one worker process as the control plane sees it: the boot   *)
(* task, the heartbeat tasks, the idle monitor, the lifespan exit and the  *)
(* tasks that react to CUDA errors share one event loop, one guard         *)
(* (_shutdown_signaled) and one Redis client.  Between two awaits a task   *)
(* runs alone, so each action below is the code from one await to the next.*)
(* A task that awaits Redis has a command in flight; the commands of       *)
(* different tasks travel on different connections and are applied in any  *)
(* order.  Redis, the control plane's keys, asyncio's cancellation and     *)
(* uvicorn's exit are external: they appear as this code uses them.        *)
(***************************************************************************)

CONSTANTS
  Fatal,       \* the tasks that CUDA errors may create, one per failed request
  RedisFails   \* TRUE: any Redis command may fail by itself

Callers == {"boot", "idle", "lifespan"} \cup Fatal  \* who call graceful_shutdown
Beats   == {"oneshot", "loop"}                      \* who call send_heartbeat
Tasks   == Callers \cup Beats

ASSUME FatalAssumption ==
  Fatal \cap {"boot", "idle", "lifespan", "oneshot", "loop"} = {}
ASSUME RedisFailsAssumption == RedisFails \in BOOLEAN

VARIABLES
  env,        \* the environment variables read at start, never changed
  proc,       \* "up", or how the process ended
  ready,      \* _engines_ready
  status,     \* _current_status
  signaled,   \* _shutdown_signaled
  pc,         \* where each task is
  beat,       \* the status in the heartbeat the loop is sending
  broken,     \* tasks whose connection was closed while they wait on it
  stray,      \* commands sent, or half sent, that no task waits for
  hash,       \* the instance's hash in Redis
  member,     \* is the instance in the active set?
  published   \* the reasons that reached the termination channel

registry == <<hash, member, published>>
vars == <<env, proc, ready, status, signaled, pc, beat, broken, stray, registry>>

Statuses == {"booting", "healthy"}
Reasons  == {"idle-timeout", "shutdown", "unhealthy"}
NoHash   == [status |-> "none", ttl |-> FALSE]

(***************************************************************************)
(* Redis commands, and what each does to the registry.                     *)
(***************************************************************************)
Cmd(op, arg) == [op |-> op, arg |-> arg]

Commands == {Cmd("beat", s) : s \in Statuses} \cup {Cmd("publish", r) : r \in Reasons}
              \cup {Cmd("hset", "healthy"), Cmd("delete", "hash"), Cmd("srem", "member")}

\* The reason each caller passes to graceful_shutdown.
Reason(c) == CASE c = "idle"     -> "idle-timeout"
               [] c = "lifespan" -> "shutdown"
               [] OTHER          -> "unhealthy"

\* The labels of a task that awaits Redis, and the command it awaits.
Waiting == {"beat", "hset", "publish", "delete", "srem"}

Command(t) ==
  CASE pc[t] = "beat"    -> Cmd("beat", IF t = "loop" THEN beat ELSE "booting")
    [] pc[t] = "publish" -> Cmd("publish", Reason(t))
    [] pc[t] = "hset"    -> Cmd("hset", "healthy")
    [] pc[t] = "delete"  -> Cmd("delete", "hash")
    [] OTHER             -> Cmd("srem", "member")

Waiters  == {t \in Tasks : proc = "up" /\ pc[t] \in Waiting}
InFlight == {Command(t) : t \in Waiters}

\* Mutant: a heartbeat pipeline that refreshes no TTL.
ApplyWithoutExpire(cmd) ==
  /\ hash' = CASE cmd.op = "beat"   -> [hash EXCEPT !.status = cmd.arg]
               [] cmd.op = "hset"   -> [hash EXCEPT !.status = "healthy"]
               [] cmd.op = "delete" -> NoHash
               [] OTHER             -> hash
  /\ member' = IF cmd.op \in {"beat", "srem"} THEN cmd.op = "beat" ELSE member
  /\ published' = IF cmd.op = "publish" THEN published \cup {cmd.arg} ELSE published

\* The heartbeat pipeline is a transaction that writes the hash, its TTL and
\* the set; mark_healthy writes one field and no TTL, creating the hash if needed.
Apply(cmd) ==
  \/ /\ cmd.op = "beat"
     /\ hash' = [status |-> cmd.arg, ttl |-> TRUE]
     /\ member' = TRUE
     /\ UNCHANGED published
  \/ /\ cmd.op = "hset"
     /\ hash' = [hash EXCEPT !.status = "healthy"]
     /\ UNCHANGED <<member, published>>
  \/ /\ cmd.op = "publish"
     /\ published' = published \cup {cmd.arg}
     /\ UNCHANGED <<hash, member>>
  \/ /\ cmd.op = "delete"
     /\ hash' = NoHash
     /\ UNCHANGED <<member, published>>
  \/ /\ cmd.op = "srem"
     /\ member' = FALSE
     /\ UNCHANGED <<hash, published>>

\* The command t awaits is applied and answered.
Answered(t) == t \in Waiters /\ Apply(Command(t)) /\ UNCHANGED stray

\* The command t awaits fails: it may or may not have reached Redis.
Failed(t) == /\ t \in Waiters
             /\ RedisFails \/ t \in broken
             /\ stray' = stray \cup {Command(t)}
             /\ UNCHANGED registry

\* Nobody awaits c any more: Redis applies it, or it is lost on the way.
StrayResolved(cmd) ==
  /\ cmd \in stray
  /\ stray' = stray \ {cmd}
  /\ Apply(cmd) \/ UNCHANGED registry
  /\ UNCHANGED <<env, proc, ready, status, signaled, pc, beat, broken>>

\* 30 s without a refresh.  Time is not modelled: any two steps may be that far apart.
HashExpires ==
  /\ hash.ttl
  /\ hash' = NoHash
  /\ UNCHANGED <<env, proc, ready, status, signaled, pc, beat, broken, stray, member, published>>

(***************************************************************************)
(* The end of the process: what is in flight is left to the network.       *)
(***************************************************************************)
Exit(how) == proc' = how /\ stray' = stray \cup InFlight

\* SIGKILL, an out-of-memory kill, or a second SIGTERM: no Python code runs.
Kill ==
  /\ proc = "up"
  /\ Exit("killed")
  /\ UNCHANGED <<env, ready, status, signaled, pc, beat, broken, registry>>

(***************************************************************************)
(* graceful_shutdown(reason), called by c.                                 *)
(***************************************************************************)

\* close_redis disconnects the pool, under the feet of whoever awaits Redis.
CloseRedis(c) == broken' = (broken \cup Waiters) \ {c}

\* Mutant: graceful_shutdown forgets stop_heartbeat.
StoppedMonitorOnly(t) == t = "idle" /\ pc[t] = "sleep"

\* stop_heartbeat and stop_idle_timeout.  The monitor that calls this cancelled
\* itself before: see IdleTimeoutFires.
Stopped(t) == \/ t = "loop" /\ pc[t] \in {"beat", "sleep"}
              \/ t = "idle" /\ pc[t] = "sleep"

\* A second call only closes the client.
AlreadySignaled(c) ==
  /\ signaled
  /\ pc' = [pc EXCEPT ![c] = "close"]
  /\ CloseRedis(c)
  /\ UNCHANGED <<signaled, stray>>

\* Mutant: the guard is tested but not taken by the monitor's call.
FirstSignalUntaken(c) ==
  /\ ~signaled
  /\ signaled' = (c # "idle")
  /\ pc' = [t \in Tasks |->
              IF t = c THEN IF env.enabled THEN "publish" ELSE "return"
              ELSE IF Stopped(t) THEN "cancelled" ELSE pc[t]]
  /\ stray' = stray \cup {Command(t) : t \in {u \in Waiters : Stopped(u)}}
  /\ UNCHANGED broken

\* Mutant: graceful_shutdown without its guard.
FirstSignalUnguarded(c) ==
  /\ signaled' = TRUE
  /\ pc' = [t \in Tasks |->
              IF t = c THEN IF env.enabled THEN "publish" ELSE "return"
              ELSE IF Stopped(t) THEN "cancelled" ELSE pc[t]]
  /\ stray' = stray \cup {Command(t) : t \in {u \in Waiters : Stopped(u)}}
  /\ UNCHANGED broken

\* The first call takes the guard, stops both background loops and publishes;
\* without a heartbeat configuration it has nothing left to do.
FirstSignal(c) ==
  /\ ~signaled
  /\ signaled' = TRUE
  /\ pc' = [t \in Tasks |->
              IF t = c THEN IF env.enabled THEN "publish" ELSE "return"
              ELSE IF Stopped(t) THEN "cancelled" ELSE pc[t]]
  /\ stray' = stray \cup {Command(t) : t \in {u \in Waiters : Stopped(u)}}
  /\ UNCHANGED broken

GracefulShutdown(c) == AlreadySignaled(c) \/ FirstSignal(c)

\* Mutant: deregistering after every reason.
PublishThenDeregister(c) ==
  /\ pc[c] = "publish"
  /\ Answered(c)
  /\ pc' = [pc EXCEPT ![c] = "delete"]
  /\ broken' = broken \ {c}
  /\ UNCHANGED <<env, proc, ready, status, signaled, beat>>

\* signal_termination was published.  A pause keeps the registration.
PublishReturns(c) ==
  /\ pc[c] = "publish"
  /\ Answered(c)
  /\ pc' = [pc EXCEPT ![c] = IF c = "idle" THEN "return" ELSE "delete"]
  /\ broken' = broken \ {c}
  /\ UNCHANGED <<env, proc, ready, status, signaled, beat>>

\* Mutant: signal_termination swallows its error like its neighbours.
PublishErrorSwallowed(c) ==
  /\ pc[c] = "publish"
  /\ Failed(c)
  /\ pc' = [pc EXCEPT ![c] = IF c = "idle" THEN "return" ELSE "delete"]
  /\ broken' = broken \ {c}
  /\ UNCHANGED <<env, proc, ready, status, signaled, beat>>

\* Mutant: the lifespan exit survives the error and waits.
PublishFailsAndStays(c) ==
  /\ pc[c] = "publish"
  /\ Failed(c)
  /\ pc' = [pc EXCEPT ![c] = "raised"]
  /\ broken' = broken \ {c}
  /\ UNCHANGED <<env, proc, ready, status, signaled, beat>>

\* signal_termination re-raises, through graceful_shutdown and its caller: the
\* lifespan exit fails and uvicorn stops; the monitor logs it; boot and fatal
\* tasks die before their sys.exit and the server keeps running.
PublishFails(c) ==
  /\ pc[c] = "publish"
  /\ Failed(c)
  /\ pc' = [pc EXCEPT ![c] = IF c = "lifespan" THEN "return" ELSE "raised"]
  /\ broken' = broken \ {c}
  /\ UNCHANGED <<env, proc, ready, status, signaled, beat>>

\* deregister: DEL then SREM, whose errors are logged; then close_redis.
DeleteReturns(c) ==
  /\ pc[c] = "delete"
  /\ \/ /\ Answered(c)
        /\ pc' = [pc EXCEPT ![c] = "srem"]
        /\ broken' = broken \ {c}
     \/ /\ Failed(c)
        /\ pc' = [pc EXCEPT ![c] = "close"]
        /\ CloseRedis(c)
  /\ UNCHANGED <<env, proc, ready, status, signaled, beat>>

\* Mutant: deregister re-raises.
RemoveRaises(c) ==
  /\ pc[c] = "srem"
  /\ \/ Answered(c) /\ pc' = [pc EXCEPT ![c] = "close"]
     \/ Failed(c) /\ pc' = [pc EXCEPT ![c] = "raised"]
  /\ CloseRedis(c)
  /\ UNCHANGED <<env, proc, ready, status, signaled, beat>>

RemoveReturns(c) ==
  /\ pc[c] = "srem"
  /\ Answered(c) \/ Failed(c)
  /\ pc' = [pc EXCEPT ![c] = "close"]
  /\ CloseRedis(c)
  /\ UNCHANGED <<env, proc, ready, status, signaled, beat>>

\* Mutant: _fatal_shutdown forgets sys.exit.
ShutdownReturnsOnly(c) ==
  /\ proc = "up"
  /\ pc[c] \in {"close", "return"}
  /\ pc' = [pc EXCEPT ![c] = "done"]
  /\ IF c = "lifespan" THEN Exit("stopped") ELSE UNCHANGED <<proc, stray>>
  /\ UNCHANGED <<env, ready, status, signaled, beat, broken, registry>>

\* graceful_shutdown is over and the caller goes on: the monitor ends, uvicorn
\* stops after the lifespan, the others call sys.exit(1).
ShutdownReturns(c) ==
  /\ proc = "up"
  /\ pc[c] \in {"close", "return"}
  /\ pc' = [pc EXCEPT ![c] = "done"]
  /\ CASE c = "idle"     -> UNCHANGED <<proc, stray>>
       [] c = "lifespan" -> Exit("stopped")
       [] OTHER          -> Exit("exited")
  /\ UNCHANGED <<env, ready, status, signaled, beat, broken, registry>>

(***************************************************************************)
(* The boot task.                                                          *)
(***************************************************************************)
SkipModelLoad ==
  /\ proc = "up" /\ pc["boot"] = "start" /\ env.skip
  /\ ready' = TRUE
  /\ pc' = [pc EXCEPT !["boot"] = "done"]
  /\ UNCHANGED <<env, proc, status, signaled, beat, broken, stray, registry>>

\* start_heartbeat creates two senders, one of which the module never stops.
StartHeartbeat ==
  /\ proc = "up" /\ pc["boot"] = "start" /\ ~env.skip
  /\ pc' = [t \in Tasks |-> IF t = "boot" THEN "download"
                            ELSE IF t \in Beats /\ env.enabled THEN "beat" ELSE pc[t]]
  /\ beat' = status
  /\ UNCHANGED <<env, proc, ready, status, signaled, broken, stray, registry>>

ModelDownloaded ==
  /\ proc = "up" /\ pc["boot"] = "download"
  /\ pc' = [pc EXCEPT !["boot"] = "load"]
  /\ UNCHANGED <<env, proc, ready, status, signaled, beat, broken, stray, registry>>

\* Mutant: mark_healthy sets the label of the HTTP probe.
EngineLoadedMislabelled ==
  /\ proc = "up" /\ pc["boot"] = "load"
  /\ ready' = TRUE
  /\ status' = IF env.enabled THEN "ready" ELSE status
  /\ pc' = [pc EXCEPT !["boot"] = IF env.enabled THEN "hset" ELSE "done"]
  /\ UNCHANGED <<env, proc, signaled, beat, broken, stray, registry>>

\* The engines are up; under the control plane mark_healthy sends its HSET at once.
EngineLoaded ==
  /\ proc = "up" /\ pc["boot"] = "load"
  /\ ready' = TRUE
  /\ status' = IF env.enabled THEN "healthy" ELSE status
  /\ pc' = [pc EXCEPT !["boot"] = IF env.enabled THEN "hset" ELSE "done"]
  /\ UNCHANGED <<env, proc, signaled, beat, broken, stray, registry>>

\* The download or the engine raised.
BootFails ==
  /\ proc = "up" /\ pc["boot"] \in {"download", "load"}
  /\ \/ env.enabled /\ GracefulShutdown("boot") /\ UNCHANGED proc
     \/ ~env.enabled /\ Exit("exited") /\ UNCHANGED <<signaled, pc, broken>>
  /\ UNCHANGED <<env, ready, status, beat, registry>>

\* mark_healthy returns, whatever became of its HSET, and the monitor starts.
MarkHealthyReturns ==
  /\ pc["boot"] = "hset"
  /\ Answered("boot") \/ Failed("boot")
  /\ pc' = [pc EXCEPT !["boot"] = "done", !["idle"] = IF env.idle THEN "sleep" ELSE "off"]
  /\ broken' = broken \ {"boot"}
  /\ UNCHANGED <<env, proc, ready, status, signaled, beat>>

(***************************************************************************)
(* The heartbeat tasks.                                                    *)
(***************************************************************************)

\* send_heartbeat logs its errors: the loop sleeps either way.
BeatReturns(t) ==
  /\ pc[t] = "beat"
  /\ Answered(t) \/ Failed(t)
  /\ pc' = [pc EXCEPT ![t] = IF t = "loop" THEN "sleep" ELSE "done"]
  /\ broken' = broken \ {t}
  /\ UNCHANGED <<env, proc, ready, status, signaled, beat>>

\* HEARTBEAT_INTERVAL_S later: the payload takes the status of this moment.
NextBeat ==
  /\ proc = "up" /\ pc["loop"] = "sleep"
  /\ pc' = [pc EXCEPT !["loop"] = "beat"]
  /\ beat' = status
  /\ UNCHANGED <<env, proc, ready, status, signaled, broken, stray, registry>>

(***************************************************************************)
(* The three triggers of a shutdown once the server runs.                  *)
(***************************************************************************)

\* The monitor finds the worker idle (RequestLoad says when), calls
\* stop_idle_timeout -- which cancels the very task that runs -- and shuts down.
IdleTimeoutFires ==
  /\ proc = "up" /\ pc["idle"] = "sleep"
  /\ GracefulShutdown("idle")
  /\ UNCHANGED <<env, proc, ready, status, beat, registry>>

\* The cancellation is raised at the monitor's first suspension, unless the Redis
\* client absorbs it (it does when it probes an open connection with a zero timeout).
SelfCancelDelivered ==
  /\ proc = "up" /\ pc["idle"] \in {"publish", "close"}
  /\ stray' = stray \cup {Command(t) : t \in Waiters \cap {"idle"}}
  /\ pc' = [pc EXCEPT !["idle"] = "cancelled"]
  /\ broken' = broken \ {"idle"}
  /\ UNCHANGED <<env, proc, ready, status, signaled, beat, registry>>

\* SIGTERM: uvicorn answers what it has accepted, then runs the lifespan's exit.
SigtermShutdown ==
  /\ proc = "up" /\ pc["lifespan"] = "off" /\ pc["boot"] # "start"
  /\ GracefulShutdown("lifespan")
  /\ UNCHANGED <<env, proc, ready, status, beat, registry>>

\* A request fails with a CUDA error and _check_cuda_fatal creates a task.
CudaFatal(f) ==
  /\ proc = "up" /\ pc[f] = "off" /\ pc["lifespan"] = "off"
  /\ ready /\ ~env.skip
  /\ GracefulShutdown(f)
  /\ UNCHANGED <<env, proc, ready, status, beat, registry>>

(***************************************************************************)
(* Specification.                                                          *)
(***************************************************************************)

\* The control plane may have created the hash, as "booting", before the pod starts.
Init ==
  /\ env \in [enabled : BOOLEAN, skip : BOOLEAN, idle : BOOLEAN]
  /\ proc = "up"
  /\ ready = FALSE
  /\ status = "booting"
  /\ signaled = FALSE
  /\ pc = [t \in Tasks |-> IF t = "boot" THEN "start" ELSE "off"]
  /\ beat = "booting"
  /\ broken = {}
  /\ stray = {}
  /\ hash \in {NoHash, [status |-> "booting", ttl |-> TRUE]}
  /\ member = FALSE
  /\ published = {}

CallerStep(c) == \/ PublishReturns(c) \/ PublishFails(c) \/ DeleteReturns(c)
                 \/ RemoveReturns(c) \/ ShutdownReturns(c)

BootStep == \/ SkipModelLoad \/ StartHeartbeat \/ ModelDownloaded
            \/ EngineLoaded \/ BootFails \/ MarkHealthyReturns

Next ==
  \/ BootStep
  \/ \E t \in Beats : BeatReturns(t)
  \/ NextBeat
  \/ IdleTimeoutFires
  \/ SelfCancelDelivered
  \/ SigtermShutdown
  \/ \E f \in Fatal : CudaFatal(f)
  \/ \E c \in Callers : CallerStep(c)
  \/ \E cmd \in Commands : StrayResolved(cmd)
  \/ HashExpires
  \/ Kill

Spec == Init /\ [][Next]_vars

\* The event loop runs every task that can run, every awaited command ends, the
\* network delivers or drops what it holds and keys with a TTL expire.  Nothing
\* obliges a request, a CUDA error, a signal or a kill to come.
Fairness ==
  /\ WF_vars(BootStep)
  /\ \A t \in Beats : WF_vars(BeatReturns(t))
  /\ WF_vars(NextBeat)
  /\ \A c \in Callers : WF_vars(CallerStep(c))
  /\ \A cmd \in Commands : WF_vars(StrayResolved(cmd))
  /\ WF_vars(HashExpires)

FairSpec == Spec /\ Fairness

(***************************************************************************)
(* Properties.                                                             *)
(***************************************************************************)
Labels == Waiting \cup {"off", "start", "download", "load", "sleep", "close", "return",
                        "done", "cancelled", "raised"}

\* The commands that the worker has issued and Redis may still apply.
Issued == InFlight \cup stray

\* Every variable holds a value of its kind; the server's globals take no other.
TypeOK ==
  /\ env \in [enabled : BOOLEAN, skip : BOOLEAN, idle : BOOLEAN]
  /\ proc \in {"up", "killed", "stopped", "exited"}
  /\ ready \in BOOLEAN
  /\ status \in Statuses
  /\ signaled \in BOOLEAN
  /\ pc \in [Tasks -> Labels]
  /\ beat \in Statuses
  /\ broken \subseteq Tasks
  /\ stray \subseteq Commands
  /\ hash \in [status : Statuses \cup {"none"}, ttl : BOOLEAN]
  /\ member \in BOOLEAN
  /\ published \subseteq Reasons

\* The reasons the control plane has received or may still receive.
Verdicts == published \cup {r \in Reasons : Cmd("publish", r) \in Issued}

\* The control plane never receives two different reasons from one process: a
\* SIGTERM or a CUDA error after the pause signal must not have the pod destroyed.
OneReason == \A r, s \in Verdicts : r = s

\* Why OneReason holds: the guard is taken before the first publish is issued.
GuardBeforeVerdict == ~signaled => Verdicts = {}

\* Once the pause signal may have gone out the worker never removes its
\* registration, whoever calls graceful_shutdown afterwards.
PauseKeepsRegistration ==
  "idle-timeout" \in Verdicts => Issued \cap {Cmd("delete", "hash"), Cmd("srem", "member")} = {}

\* The worker leaves the registry only after the control plane was told why: an
\* instance that vanishes without a termination signal would be respawned blindly.
SignalBeforeDeregister ==
  (Issued \cap {Cmd("delete", "hash"), Cmd("srem", "member")} # {}) => published # {}

\* What an observer sees: the verdict and where it is, whether heartbeats are still
\* composed, and the active set.
ObservedVerdict ==
  IF published # {} THEN [state |-> "received", reason |-> CHOOSE r \in published : TRUE]
  ELSE IF Verdicts # {} THEN [state |-> "sent", reason |-> CHOOSE r \in Verdicts : TRUE]
  ELSE [state |-> IF signaled THEN "lost" ELSE "none"]

Beating == proc = "up" /\ pc["loop"] \in {"beat", "sleep"}

Contract == INSTANCE TerminationContract
              WITH Pause <- "idle-timeout", verdict <- ObservedVerdict,
                   beating <- Beating, listed <- member

\* The process keeps its contract with the control plane at every step, whatever its
\* tasks and the network do: one verdict, silence from the moment the guard is taken
\* (what is in flight may still land), and no SREM before the verdict was received.
ImplementsContract == Contract!Spec

\* SIGTERM ends the process whatever Redis does.
SigtermStops == pc["lifespan"] # "off" ~> proc # "up"

\* Once its reason is published, a caller other than the monitor ends the process even
\* if deregistering fails half way.
SignalledStops ==
  \A c \in Callers \ {"idle"} : pc[c] \in {"delete", "srem", "close"} ~> proc # "up"

\* A CUDA error ends the process, on the first and on the duplicate path, unless the
\* task's own publish raises: then the exception skips sys.exit and the server stays.
FatalStops ==
  \A f \in Fatal : pc[f] # "off" ~> (proc # "up" \/ pc[f] = "raised")

\* However the process ends, its hash goes away for good with no help from the worker
\* and whatever late heartbeats land, unless mark_healthy's HSET was still under way
\* or found no hash.
EndedIsUnlisted ==
  (proc # "up" /\ (hash = NoHash \/ hash.ttl) /\ Cmd("hset", "healthy") \notin stray)
    ~> [](hash = NoHash)

\* server.py:291 says of _fatal_shutdown: "Signal unhealthy to CP, then exit."  So a
\* worker that left through sys.exit after boot has signalled, or its signal is on
\* its way.  A second CUDA task's duplicate path exits at once.
FatalExitSignals ==
  (proc = "exited" /\ ready /\ env.enabled) => Verdicts # {}

\* idle-timeout.md:8: an idle worker "signals control plane".  So the monitor that
\* took the guard publishes, unless the process ends first.
IdleSignals == pc["idle"] = "publish" ~> (published # {} \/ proc # "up")
=============================================================================
