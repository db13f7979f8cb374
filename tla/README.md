# A verification of gemmaVllmWorker

TLA+ models of the worker in `src/src/`, their model-checking runs and machine-checked
proofs. The reference is the code; where a run shows that the code disagrees with its
own comments or documentation, the disagreement is a finding (section 6).

## 1. Inventory

One worker process is a FastAPI server around vLLM: one asyncio event loop, module-level
globals, no locks. Between two `await`s a task runs alone; everything hard in this program
happens *at* the awaits. It talks to Redis (registration, heartbeats, termination signals),
to the Hugging Face hub and to a volume that outlives the pod.

| Component | State | Operations | What makes it correct |
|---|---|---|---|
| Heartbeat lifecycle (`heartbeat/__init__.py`, `heartbeat_service.py`, `config.py`) | `_shutdown_signaled`, `_current_status`, the heartbeat tasks, the Redis client; in Redis: the instance hash, the active set, the termination channel | `start_heartbeat`, `send_heartbeat`, `mark_healthy`, `graceful_shutdown`, `signal_termination`, `deregister`, `close_redis` | at most one reason per process; a pause keeps the registration; no leaving without a signal; no heartbeats after the guard; ended workers get unlisted |
| Boot and lifespan (`server.py` 40-126, 277-294) | `_engines_ready`, the boot task | `_boot_in_background`, `lifespan`, `_check_cuda_fatal`, `_fatal_shutdown` | SIGTERM ends the process, a CUDA error signals and ends it |
| Load and idle monitor (`load_tracker.py`) | `_current_load`, `_last_activity`, `_idle_task` | `increment_load`, `decrement_load`, `touch_activity`, `_idle_monitor` | the count is exact on every way out of a request; fires after a whole quiet period, and then does fire |
| Request handler (`server.py` 185-274) | local; counts in the load tracker | `_handle_openai`, `_non_stream_response`, `_stream_response` | counted once, uncounted once |
| Model volume (`boot_model.py`, `download_model.py`) | `local_model_args.json` and the hub cache on the volume | `ensure_model`, `download` | the record precedes neither the files nor the tokenizer patch; a volume stays bootable |
| OpenAI engines (`engine.py` 177-327) | `_engines_initialized`, `serving_models`, `chat_engine`, `completion_engine` | `_ensure_engines_initialized`, `_initialize_engines`, `generate` | served requests find built, consistent engines with adapters |
| Batching (`engine.py`, `utils.py`) | `BatchSize.current_batch_size` | `BatchSize.update`, chunk and token batching | nothing lost or reordered; batch sizes grow to the maximum |
| HMAC middleware (`cp_hmac_auth.py`) | none; reads the clock and two variables | `verify_cp_hmac`, `dispatch` | what enters was signed for this pod within the window; what is prompt passes; what is refused leaves no trace in the load |
| Engine arguments (`engine_args.py`, `boot_model.py`, `server.py` 67-97) | the environment, the record on the volume, its copy in the container | `get_engine_args`, `get_speculative_config`, `ensure_model` | every boot of a deployment starts the same engine; the record wins; unset values do not matter |
| RunPod handler (`handler.py`, `JobInput`) | none of its own | `handler` | each choice arrives whole and in order, or with an error |
| Tokenizer, image and CI | none of their own | formatting, build | - |

Interactions. The boot task starts the heartbeat, then downloads, loads the engine, sets
`_engines_ready`, calls `mark_healthy` and starts the idle monitor. Four kinds of caller
enter `graceful_shutdown`: a failing boot, the idle monitor, the lifespan exit after
SIGTERM, and one task per request that met a CUDA error. They share one guard and one
Redis client, whose pool gives each concurrent command its own connection. Request
handlers touch the load tracker; the monitor and every heartbeat read it.

Hard behaviours, all of them in the models: callers racing through the guard; `sys.exit`
in one task under another's await; a client closed under a command in flight; a command
that fails and may or may not have reached Redis; commands of cancelled or ended tasks
that land later; a task that cancels itself; a kill at any point; a stream abandoned
before, while or after it runs; a pod killed between any two steps of a download; two pods
on one volume; concurrent first requests. `PROJECT.json` lists each hazard at its line.

## 2. Modules

| Module | Composes or refines |
|---|---|
| `HeartbeatLifecycle` | implements `TerminationContract` |
| `RequestLoad` | - |
| `GatedRequests` | extends `RequestLoad` |
| `ModelVolume`, `EngineInit`, `ChunkStream` | - |
| `Growth` | a definition only, of the documented batch sizes; used by `ChunkStream` and `TokenStream` |
| `EngineArgs` | operators only |
| `BootConfig` | extends `EngineArgs` |
| `TokenStream` | implements `AnswerRelay` |

`HeartbeatLifecycle` (525 lines with its mutants) is the core. `pc` has one entry per
task; a label names the await where the task is. Labels in `Waiting` are awaits on Redis:
such a task has exactly `Command(t)` in flight, which `Answered` applies, or `Failed`
leaves in `stray`, from where `StrayResolved` applies it later or drops it. `CloseRedis`
puts the tasks under a pending command in `broken`; they may then fail even when Redis is
fine. `Exit` ends the process and leaves what is in flight to the network.

| Action | Code |
|---|---|
| `GracefulShutdown` = `AlreadySignaled` or `FirstSignal` | `__init__.py` 68-110 up to the publish: test and set of the guard, both `stop_*` calls, or `close_redis` for a second caller |
| `PublishReturns`, `PublishFails` | `signal_termination`, which re-raises, and what each caller makes of that |
| `DeleteReturns`, `RemoveReturns`, `ShutdownReturns` | `deregister`, which swallows, `close_redis`, and the caller's `sys.exit(1)` or uvicorn's stop |
| `SkipModelLoad`, `StartHeartbeat`, `ModelDownloaded`, `EngineLoaded`, `BootFails`, `MarkHealthyReturns` | `_boot_in_background`, await by await |
| `BeatReturns`, `NextBeat` | `send_heartbeat` and its loop; the one-shot heartbeat of `start_heartbeat` is a task of its own |
| `IdleTimeoutFires`, `SelfCancelDelivered` | `_idle_monitor` calling `stop_idle_timeout` on itself |
| `SigtermShutdown`, `CudaFatal`, `Kill`, `HashExpires` | the triggers, and the TTL |

Choices. The environment (heartbeat configured, `SKIP_MODEL_LOAD`, idle timeout) is drawn
in `Init` and never changes. Time is not modelled here: the hash may expire between any
two steps. A reply and the application of its command are one step; a failure covers the
lost reply. `sys.exit` in a task leaves `uvicorn.run` without the lifespan exit, so that
nothing is deregistered on that path. Whether the monitor's self-cancellation is delivered
is nondeterministic, since redis-py swallows a cancellation when it probes an open pooled
connection with a zero timeout. `_get_redis()` stands outside the `try` of `send_heartbeat`
(`heartbeat_service.py:46`); it raises only for a malformed `REDIS_URL`, which is taken to
be well-formed. In `start_heartbeat` the asynchronous task whose handle is
dropped is taken to run. The `_client` variable is left out, because a closed client is
reopened by the next command. `start_draining` has no caller.

`TerminationContract` is what all this amounts to for somebody outside the process, in
three variables: the verdict (none, sent, received, lost), whether the process composes
heartbeats, and whether the instance is in the active set. `HeartbeatLifecycle` maps its
state to these (`ObservedVerdict`, `Beating`, `member`); `ImplementsContract` says that
every step is one of the contract's or changes nothing it can see. It is stronger than the
single invariants: a heartbeat composed after the verdict, a second decision after a lost
one, or a striking off that no received reason other than the pause explains would each be
a step that the contract lacks.

`RequestLoad` follows one request through `_handle_openai`: `parsing` (the body is awaited,
the request is not yet counted), `running` (non-stream), `returned` (a `StreamingResponse`
exists, its generator has not started), `streaming`, `detached` (the client left at a `yield`;
the collector closes the generator later), `leaked` (a generator dropped before its first
step, whose `finally` never runs). A non-stream answer is uncounted in a `finally` clause, and
what is raised through that comes to an outer `except` that uncounts again (`DecrementTwice`);
`NonStreamEnds` says why it never happens: `_non_stream_response` makes an answer of every
exception, and a cancellation is none. One assumption is in that: the text of the error can be
encoded by `JSONResponse` at `server.py:245`. Time is in ticks, `idleAge` is the age of
`_last_activity`, and `quiet` is a history variable: the time since a counted request was last
there, computed from the requests alone. `touch_activity` runs in the same step as
`increment_load` and repeats what it does to the clock. Ticks are monotonic.
`HeartbeatLifecycle.IdleTimeoutFires` continues where `CheckFires` ends.

`GatedRequests` puts `CpHmacMiddleware` in front of it. `post` holds a request on its way
to a handler slot: its path, what its headers hold, and how long ago the control plane
stamped it. `Verify` is the middleware's decision in the code's order; `Enter` is
`RequestLoad.Admit` behind it, `Answer` whatever is answered without being counted, and
every other action of `RequestLoad` is taken over in `Behind`. `pod` is what the decision
reads of the pod: its secret, whether it knows its instance, and by how much its clock is
ahead; it never changes. Between the decision and the handler the code awaits nothing that
depends on the request, so they are one step. A signature is abstracted to what was signed
for and with which secret.

`EngineArgs` is `engine_args.py` as operators: the layers `DEFAULT_ARGS`, `FromVariables`,
`FromAliases`, `FromRecord`, laid `Over` each other and filtered (`Merged`), then the
`With...` adjustments in the code's order, and `SpeculativeConfig`. A field that a layer does
not mention is `Skip`, one that a layer sets to Python's `None` is `None`: the difference
matters, since only the latter hides what lies under it: a blank `MAX_NUM_SEQS`, a field that
may be `None` and has a default, takes the default away. A value carries its type beside its
text, so that `"4096"` and `4096` differ. `Known` is vLLM's dataclass, `Mentions` what
substrings the code finds in a model's name, `LengthOf` what AutoConfig answers: those are
vLLM's and the hub's, and external. `Raises` collects the conversions that nothing catches.
`BootConfig` runs these operators at each boot. `image` says which process the pod runs and
what record `download_model.py` baked into it, as the container's `/local_model_args.json`.
The server replaces that by the volume's record (`EnsureModel`) and writes two names into its
environment (`ProcessPod`); the serverless handler, which never calls `ensure_model`, comes to
`StartEngine` with the image's record. A pod is stopped at any moment and resumed (`Resume`),
or another deployment mounts its volume (`Redeploy`). `before` is a history variable. `Texts`
is what variables and records may hold, instead of all strings. Where the code has an `if`
with an `elif`, the operators have `IF` with `ELSE IF`: the arms of a TLA+ `CASE` have no
order, and a proof may not suppose that the first one that applies is meant.

`ModelVolume` has pods that run `ensure_model` on one volume. Files are kinds (a weight
format, config, tokenizer); `PatternSets` holds the code's pattern lists, in its order, and
`SnapshotReturns` the code's test "something matched, so this set is done". The record
`marker` is absent, empty (opened with `"w"`, not yet closed) or complete. A pod can be killed
anywhere and starts over; a write that raises, on a full volume, stops the boot and leaves the
same state, so it counts as a kill. The container's private copy of the record is part of
`DumpMarker`: nobody reads it before `ensure_model` returns. The image's tokenizer
configuration is copied over the one in the cache in two steps, truncation and copy
(`PatchTokenizer`, `CopyPatch`); `tokconfig` is what the cache's file holds. A tokenizer
download that matched nothing returns `None`, to which no file name can be joined: such a
repository is not `Bootable` with the shipped image, and the model stops its boot there.
`RecordMeansPatched` relates record and patch, as `MarkerMeansFetched` does record and
weights. The hub's own file locking is external: a file appears complete or not at all.

`ChunkStream` follows one streamed answer through the two generators that produce it,
`_handle_chat_or_completion_request` (chunks into batches: `NextChunk`, `Take`,
`SourceEnds`) and `_stream_response` (batches into events: `Send`, `SourceRaises`), which
run in turns: the next chunk is asked for only when the client has taken every event of
the last batch. Chunks carry a number, so that order and identity matter, and a kind. In
raw mode vLLM's own `[DONE]` is a chunk like any other and the server adds a second one;
otherwise every chunk whose text contains `[DONE]` is skipped, text included, which
`Kept` reproduces. `due` is a history variable: the chunks that were kept, in the order in
which vLLM yielded them, whatever became of them.

`TokenStream` is one job of the serverless entry point. A text is its length and a piece the
numbers of its tokens, so a token lost, repeated or out of place shows. `NextOutput` is vLLM's
next output, with any of the choices and any growth; `Take` one iteration of the loop over its
choices, hand-over included; `SourceEnds` the code after the loop. `NextSize` keeps the size
as a fraction, as the code keeps a float. `UsageCounts` relates the usage of each batch to
that of the batch before it, which is the sum of all counts so far without a recursive
definition. `SourceRaises` is the `except` of `generate`; that of `handler` is `HandleError`,
for errors of `JobInput` and of the OpenAI engine, and exits if the error's text mentions
CUDA. `AnswerRelay` is the abstract specification: every choice is heard as a growing prefix
of what was said, and the answer is complete only when all has been heard. `ImplementsRelay`
maps to it what the client was handed.

`EngineInit` has requests that find `_engines_initialized` unset. A models object is named
after its maker; `chat` and `completion` hold the object each engine was built around,
`loaded` those whose adapters are in, and `failed`, a history variable, those whose loading
raised. The constructors and the warm-up may raise too (`BuildRaises`), which can leave one
engine built, or both, and the flag unset.

## 3. Runs

| Run | Shows |
|---|---|
| `lifecycle_safety` | `OneReason`, `GuardBeforeVerdict`, `PauseKeepsRegistration`, `SignalBeforeDeregister`, `ImplementsContract` with two CUDA errors, a failing boot, the monitor, SIGTERM and a Redis that fails at will |
| `lifecycle_liveness` | `SigtermStops`, `SignalledStops`, `FatalStops` (unless its publish raises), `EndedIsUnlisted` (unless a bare HSET is on the wire) |
| `load` | `LoadExact`, `ClockIsQuiet`, `FiresAfterQuiet`, `ScalesToZero` of `RequestLoad` behind the gate, and of the gate `EntersInTime`, `PromptPasses` |
| `volume` | `MarkerMeansFetched`, `EmptyHasWriter`, `RecordMeansPatched`, `EveryPodBoots` (if `Bootable`) for four repositories, with and without a patch in the image |
| `boot_config` | `RebootAgrees`, `RecordWins`, `NoiseIsIgnored`, `TokensFollowLength`, `SpeculationCanRun` |
| `stream` | `NothingLost`, `DoneMeansComplete`, `BatchesGrow` (against the sizes that `configuration.md` documents), `StreamsEnd`, in both output modes |
| `token_stream` | `ImplementsRelay`, `UsageCounts`, `DocumentedSizes` for one and two choices, fractional factors included |
| `engine_init` | `ServesBuilt`, `OneModelsObject`, `AdaptersAccounted` for four racing first requests |
| `fatal_exit_unsignalled`, `idle_unsignalled`, `load_leaks`, `volume_stranded` | the findings of section 6 |

Bounds. Two CUDA tasks: all but the first caller of the guard take the same path, and one more
pair changes nothing that the proofs do not cover; one in the liveness run, where the boot
task, the monitor and SIGTERM already give first and duplicate callers. Commands in `stray`
are a set: two equal commands on the wire count as one, and applying a heartbeat twice differs
from once only if another lands between, which a still running sender can produce. `load` uses
a timeout of two check intervals of two ticks, so requests begin and end between checks and a
check can find the worker not idle several times; `Cap` stops the clocks at the timeout, past
which no guard tells values apart. Its window is one tick and its clocks are right, one ahead
or two behind, so that requests are prompt, late and refused as too new; `MaxDelay` stops a
delay where no clock could let it pass any more. Two requests are enough for every pair of
ways to end to overlap; `LoadIsExact` is proved for any number. `volume` has two pods, two
kills and two failures: a kill of each pod, or of one pod twice, meets every step of the
other; repositories exist for every branch of `SnapshotReturns` and `PatchTokenizer`. The
finding's run takes the usual repository and the shipped image, which can boot. `stream` has
up to eight chunks, enough for four batches at the fastest growth, and settings on both sides
of every test of `BatchSize`. `boot_config` varies together the variables that the code looks
at together (lengths, loading, GPUs and deprecated names, sequences, dictionaries,
speculation, names) and leaves the others unset: groups meet in no condition of the code.
`token_stream` has up to nine pieces of up to four tokens: five batches when the size grows by
one half from one, with the cap reached. `engine_init` has one initialisation more than are
needed to overwrite an object and to build around it. Symmetry is used in safety runs only.
Deadlock checking is off where the process, a stream or a job may end or every pod may have
booted.

Fairness. The event loop runs every ready task (WF on the boot task, each caller inside
`graceful_shutdown`, each heartbeat), an awaited Redis command ends with an answer or an error
(a hung connection without a timeout is not modelled), the network delivers or drops, a TTL
expires, time passes, a pod that is down is started again by the control plane, a client that
stays reads its stream and vLLM ends it. Nothing obliges a request, an error, a signal or a
kill to come. WF is enough: none of these steps is disabled again for ever by another one
while the property is still owed.

## 4. Proofs

Every safety invariant of a passing run, every action property and every refinement is a
theorem, and holds for all values of the constants under the named assumptions beside their
declaration:

| Assumption | Why the code justifies it |
|---|---|
| `FatalAssumption`, and that `None` is no request | names of tasks and requests differ |
| `RedisFails` and `MayFail` are Booleans, `Patches` a set of them, bounds of kills and failures natural | choices of the run |
| `Requests` finite, `IdleTimeout` natural, `CheckInterval` positive | a process serves finitely many requests at a time; `int(os.getenv(...))` and the constant 60 |
| `SettingsAssumption`, `DefaultsAssumption`, `JobsAssumption` | batch settings, the environment's and a request's, are numbers of any sign |
| `SentinelsAssumption`, `LengthOfAssumption` | `None` and `Skip` are no texts; AutoConfig answers with a length for some models |
| `KnownAssumption` | every vLLM has the fields of a record and the two lengths |
| `PodsAssumption`, `DeploymentsAssumption`, `BakedRecordsAssumption` | a variable is a text or unset; a record names the five fields that the two writers of `local_model_args.json` write |
| `NamesAssumption`, `PathOfAssumption` | a set `MODEL_NAME` names a repository, or `download` raises before anything is recorded; a snapshot's path is a text |

`HeartbeatLifecycleProofs`. `TypeCorrect`, then `OneReasonAlways` and `GuardFirst`.
`OneReason` alone is not inductive: a state without verdicts whose guard is free could
have a publication pending. The invariant adds `GuardBeforeVerdict`. `VerdictPlaces` says
that a verdict is in the channel, on the wire or at a task's publish; `NoNewVerdict` that
a step which issues no publication only moves verdicts between those places or loses one;
`FirstVerdict` that the first call adds its own reason to the empty set. Each action then
falls under one of the two.

Then `KeepsContract`, the refinement, with `PauseKeepsRegistered` and
`SignalThenDeregister`. The invariant is the one above with two more parts.
`RemovalHasReason`: a DEL or SREM is issued only when a reason other than the pause has been
published; with `OneReason` this gives both properties. `StartIsSilent`: while the boot task
is at its start nothing is signalled, the engines are not ready and the monitor is off, so
that the heartbeat starts before any decision. For the refinement, `QuietContract` shows
that a step which issues no publication and leaves heart and membership alone is `Deliver`
or a stutter. The steps that do touch one of these leave every publication where it is
(`SteadyVerdict`, `ExitContract`), so that one contract action explains them; the only step
that changes two is `FirstSignal`, which is `Decide`.

`ModelVolumeProofs`. `VolumeTypeCorrect`, `RecordMeansWeights`, `OnlyKillsStrand`,
`RecordFollowsPatch`. The record is written last, so the invariant has to say what a pod knows
before it: at the n-th pattern set of the model no earlier set matches the repository, and
past the model's download everything wanted is on disk (`Progress`). Files only come, so other
pods keep it true. For the patch, a pod past it, or a record, means that the published
configuration is gone, and without kills a file that is cut off has a pod at its copy
(`Patching`).

`BootConfigProofs`. `RebootsAgree`: a boot of the server reads the record only when there is
one that no later `ensure_model` changes (`Recorded`), the handler's is the image's (`Used`),
and what the engine is started with is then a function of pod, image and volume alone
(`Settled`). The other four are about `GetEngineArgs` on any input. Each adjustment is given
once by what it touches (`Only`) and what it leaves there; `RecordHasLastWord` follows a field
that the record names through all of them, and needs of the invariant only that the record in
the container is the one on the volume, or the image's, and names no other fields than a
writer writes. `NoiseChangesNothing` compares two runs of the same operators, on a pod and on
the pod with everything unset removed. They are not equal step by step: until `WithTokens` a
length may be zero on one side and missing on the other, which is what `Near` allows;
`TokensSame` shows that clearing zeros ends it. `GuessedSpeculationRuns` is about the
variables alone. One thing came out of the attempt: a record that holds the text "None" for a
field does not have the last word, because `_convert_env_value_to_field_type` reads it as
none, so `RecordWins` leaves it out; a baked record in the run has one.

`RequestLoadProofs`. `TypeCorrect`, `LoadIsExact`, `ClockShowsQuiet`, `FiresOnlyAfterQuiet`.
The count is a cardinality, so each action is a lemma about adding or removing one element,
and the clamp in `decrement_load` is shown never to act. That the monitor fires only after
quiet needs `ClockIsQuiet` (the activity clock equals the history clock whenever nothing is
counted) together with `LoadExact` (a load of zero means nothing is counted).

`GatedRequests` is in the same module. Its steps are steps of `RequestLoad` or leave that
alone by construction (a lemma, `GatedIsLoad`), so that the four theorems above hold behind
the gate. `OnlyTimelyRequestsEnter` needs `RequestLoad`'s type invariant, by which only
`Enter` takes a request out of `free`, and `GateTypeOK`, by which delays and clock errors
are integers; the bound then is the triangle inequality behind the gate's `abs`, and so it
is for `PromptRequestsPass`.

`EngineInitProofs`. `TypeCorrect`, `ServesOnlyBuilt`, `ModelsObjectIsShared`,
`MissingAdaptersAccounted`. The invariant adds that who has begun has left a models object
(`Begun`), and that the flag is set over built engines (`FlagMeansBuilt`), and that the
current models object is loaded, failed, or at its own request's await (`ModelsAccounted`). No
late initialisation is able to replace an object after the flag is set, because the last step
of every initialisation rebuilds both engines around whatever object is current; the object
itself changes only while the flag is unset.

`ChunkStreamProofs`. `TypeCorrect`, `BatchingLosesNothing`, `DonePromisesAll`,
`SizesAsDocumented`. `NothingLost` says nothing of a stream after it stopped reading, where
part of what is due is still to be sent, and `DoneMeansComplete` nothing of a `[DONE]` on its
way. The invariant speaks of `Total`, what was sent together with what is being sent, which
`Send` does not change (`JoinedHead`): while vLLM is read, `Total` and the batch make up what
is due (`InHand`); and always `Total` is an initial part of what is due, or all of it and
`[DONE]`, once vLLM has ended, or an initial part and an error, if it has not (`Answers`).
What is sent is an initial part of `Total`. For the sizes, `Growing` says that the current
size is the documented one of the next batch, and that the batch in hand is short of it.

`TokenStreamProofs`. `TypeCorrect`, `UsageIsExact`, `RelaysTheAnswer`, `SizesAsDocumented`.
For the types, `Capacity` says that there is room for the choices of an output that are still
to be looked at. For the usage, that the total is what was reported last plus what is gathered
(`CountsUp`). For the refinement of `AnswerRelay`, that of each choice what was heard and what
is gathered are the tokens up to the last one seen, in order (`InOrder`), that a choice which
is not pending has been seen to its end (`Seen`), and that nothing is gathered that is not
counted (`NothingUncounted`), since the last batch is sent only if its count is not zero. Then
`NextOutput` is the relay's `Say`, a full batch its `Hear`, the last one its `Complete`. For
the sizes, `SizeAfter` says that the fraction which the code keeps is numerator over
denominator of the documented product, until that reaches the maximum.

`GrowthProofs` is the library of the two. The documented size is a product of unbounded
length, defined by a recursive function, and what such a function computes is an induction
over numbers. The library's induction theorems take an operator as a parameter and cannot be
used; `NatSetInduction` is the same principle for a set, from the well-foundedness of the
natural numbers. With it, initial parts of the recursion exist and agree, which makes one
function of them (`GrowthLaw`).

Model-checked only: the liveness properties `SigtermStops`, `SignalledStops`, `FatalStops`,
`EndedIsUnlisted`, `ScalesToZero`, `EveryPodBoots` and `StreamsEnd`, because the provers have
no rule for fairness and `ENABLED`. The four runs with an expected violation have nothing to
prove.

## 5. Mutants

Each property of a passing run has a mutated definition, beside its original and marked
`Mutant`, that a plausible bug would produce (a missing guard, a decrement in two clauses,
a swallowed error, a missing EXPIRE, a record created first); the run then fails with that
property violated.

## 6. Findings

1. `fatal_exit_unsignalled`: with two CUDA errors the second one closes Redis and exits
   under the first one's publish; the control plane may never hear `unhealthy`.
2. `idle_unsignalled`: the monitor cancels its own task before it publishes the pause.
3. `load_leaks`: a streaming response dropped before its generator starts stays counted,
   so the pod never scales to zero.
4. `volume_stranded`: a kill between truncating and filling the record makes every later
   boot on that volume fail.

Other deviations that the models contain, as exceptions in a property or as behaviour that
no property forbids:

- `heartbeat_service.py:85`: `mark_healthy` writes the status with a bare HSET on its own
  connection; landing after `deregister`'s DEL it leaves a healthy instance with no TTL
  (`heartbeat.md:7`: the key expires). `EndedIsUnlisted` excepts exactly this.
- `server.py:278` ("signal CP and exit"): when the publish fails, its exception skips
  `sys.exit(1)` and the broken worker keeps serving until another error finds the guard
  taken, and exits. `FatalStops` excepts exactly this.
- `engine.py:276`: of two racing first requests one builds the engines around the other's
  models object, whose adapters are still loading, or failed to, so that requests are served without
  adapters (`configuration.md:59`: "the first request will include LoRA loading time").
  `AdaptersAccounted` allows exactly this, and says that no other missing adapter goes
  unnoticed.
- `handler.py:28` ("CUDA errors = worker is broken, exit"): for native jobs `generate`
  has turned every exception into a batch before the handler looks (`SourceRaises`), so
  that only OpenAI jobs make the worker exit.
- `engine.py:135`: the `usage` of a native job counts outputs of vLLM, not tokens; an
  output with several tokens counts once.
- `engine.py:45-47` reads `MIN_BATCH_SIZE` and `BATCH_SIZE_GROWTH_FACTOR`, an integer;
  `configuration.md:119-120` documents `DEFAULT_MIN_BATCH_SIZE` and
  `DEFAULT_BATCH_SIZE_GROWTH_FACTOR`, a `float`.
- `engine_args.py:103`: a dictionary variable with broken JSON reaches vLLM as a text
  (`configuration.md:179` has it cast), `SPECULATIVE_CONFIG` too, although
  `get_speculative_config` has just refused it.
- `engine_args.py:409`: `MAX_CONTEXT_LEN_TO_CAPTURE` sets its field after the filter on
  known fields (`configuration.md:178`: unknown keys are ignored), so that a vLLM without
  the field refuses all arguments.
- `engine_args.py:393`: a load format of `bitsandbytes` overrides the record's quantization,
  against the hierarchy of `conventions.md:47`. `RecordWins` excepts exactly this.
- `engine_args.py:79`: an empty or `None` `MAX_NUM_SEQS` hides the worker's default of 256
  (`configuration.md:35`), and vLLM decides. `NoiseIsIgnored` leaves such blanks out
  (`HidesDefault`); for every other variable a blank counts as unset.
- `boot_model.py:65`: a pod killed inside its copy of the tokenizer configuration, after
  another pod on the volume has written the record, leaves a file cut off that no later boot
  repairs, since the record makes it skip the patch; and a pod that boots by that record may
  read the file while it is being copied. `RecordMeansPatched` excepts the former.
- `boot_model.py:64`: a repository without `*.json` and `tokenizer*` files never boots with
  the shipped image: there the download returns `None`, and joining a file name to it raises.
  `EveryPodBoots` excepts exactly this.
- `boot_model.py:5` speaks of a record at `BASE_PATH` that comes with a "baked image";
  `download_model.py:99` writes its record to `/local_model_args.json` instead, which
  the server's `ensure_model` does not read and overwrites.
- `boot_model.py:30`: a deployment with another `MODEL_NAME` on the same volume starts the
  model that the record names. `RecordWins` states it.

## 7. Not modelled

The content of requests, prompts and texts; vLLM, uvicorn, the runpod package and the
cryptography (external); the hash fields other than the status; steps of the wall clock
under the activity clock; the tokenizer wrapper and the image, which keep no state of their
own; `download_model.py` run as a script while an image is built, whose product is
`BakedRecords`; the control plane, which is not in this repository.

## 8. Plan

Done: every component with state, and every safety property proved. Next, in this order:

1. proofs: `ChunkStream` shown to implement `AnswerRelay`, with the whole stream as one part,
   so that both streaming paths have one specification;
2. `Worker`: `GatedRequests` and `HeartbeatLifecycle` composed with the documented
   reactions of the control plane (pause, destroy, resume), for instance a heartbeat in
   flight that lands over `paused`.
