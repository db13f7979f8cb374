----------------------------- MODULE EngineInit -----------------------------
(***************************************************************************)
(* The OpenAI serving engines are built by the first requests, in the      *)
(* handlers' own event loop and without a lock: a request that finds       *)
(* _engines_initialized unset initialises everything itself, awaiting      *)
(* twice on the way, and stores what it builds in attributes that all      *)
(* requests share.  vLLM is external: a models object either gets all its  *)
(* LoRA adapters or init_static_loras raises, and so may the constructors  *)
(* of the engines and the warm-up.  That of the models object may as well: *)
(* it leaves everything as it was.                                         *)
(***************************************************************************)

CONSTANTS
  Requests,      \* concurrent requests; each may come again
  MayFail        \* TRUE: init_static_loras, a constructor or the warm-up may raise

ASSUME MayFailAssumption == MayFail \in BOOLEAN

\* A models object is named after the request that made it.
CONSTANT None
ASSUME NoneAssumption == None \notin Requests

VARIABLES
  initialized,  \* _engines_initialized
  models,       \* serving_models
  chat,         \* the models object inside chat_engine
  completion,   \* the models object inside completion_engine
  loaded,       \* the models objects whose adapters are loaded
  failed,       \* history: the models objects whose init_static_loras raised
  pc            \* where each request is

vars == <<initialized, models, chat, completion, loaded, failed, pc>>

\* Mutant: the flag is set before the awaits, to keep other requests out.
BeginInitFlagged(r) ==
  /\ pc[r] = "idle" /\ ~initialized
  /\ initialized' = TRUE
  /\ models' = r
  /\ loaded' = loaded \ {r}
  /\ failed' = failed \ {r}
  /\ pc' = [pc EXCEPT ![r] = "loras"]
  /\ UNCHANGED <<chat, completion>>

\* A request finds the flag unset and makes a models object, over another's if
\* that one is still initialising.
BeginInit(r) ==
  /\ pc[r] = "idle" /\ ~initialized
  /\ models' = r
  /\ loaded' = loaded \ {r}
  /\ failed' = failed \ {r}
  /\ pc' = [pc EXCEPT ![r] = "loras"]
  /\ UNCHANGED <<initialized, chat, completion>>

\* A request finds the flag set.
SkipInit(r) ==
  /\ pc[r] = "idle" /\ initialized
  /\ pc' = [pc EXCEPT ![r] = "serving"]
  /\ UNCHANGED <<initialized, models, chat, completion, loaded, failed>>

\* Mutant: init_static_loras is started and not awaited.
LorasStarted(r) ==
  /\ pc[r] = "loras"
  /\ pc' = [pc EXCEPT ![r] = "tokenizer"]
  /\ UNCHANGED <<initialized, models, chat, completion, loaded, failed>>

\* init_static_loras returns for the object that r made: the receiver was
\* evaluated before the await.
LorasLoaded(r) ==
  /\ pc[r] = "loras"
  /\ loaded' = loaded \cup {r}
  /\ pc' = [pc EXCEPT ![r] = "tokenizer"]
  /\ UNCHANGED <<initialized, models, chat, completion, failed>>

\* Mutant: a failed initialisation withdraws the models object.
LorasFailClearing(r) ==
  /\ pc[r] = "loras" /\ MayFail
  /\ models' = None
  /\ failed' = failed \cup {r}
  /\ pc' = [pc EXCEPT ![r] = "idle"]
  /\ UNCHANGED <<initialized, chat, completion, loaded>>

\* Mutant: a request whose initialisation failed is never answered.
LorasFailHanging(r) ==
  /\ pc[r] = "loras" /\ MayFail
  /\ pc' = [pc EXCEPT ![r] = "failed"]
  /\ failed' = failed \cup {r}
  /\ UNCHANGED <<initialized, models, chat, completion, loaded>>

\* init_static_loras raises, and the request fails with it.
LorasFail(r) ==
  /\ pc[r] = "loras" /\ MayFail
  /\ pc' = [pc EXCEPT ![r] = "idle"]
  /\ failed' = failed \cup {r}
  /\ UNCHANGED <<initialized, models, chat, completion, loaded>>

\* A constructor raises, before either engine is built or between the two, or the
\* warm-up does after both; the request fails with it and the flag stays as it was.
BuildRaises(r) ==
  /\ pc[r] = "tokenizer" /\ MayFail
  /\ \/ UNCHANGED <<chat, completion>>
     \/ chat' = models /\ UNCHANGED completion
     \/ chat' = models /\ completion' = models
  /\ pc' = [pc EXCEPT ![r] = "idle"]
  /\ UNCHANGED <<initialized, models, loaded, failed>>

\* get_tokenizer answers or fails; both engines are built, without another await,
\* around whatever serving_models is now, and the flag is set.
BuildEngines(r) ==
  /\ pc[r] = "tokenizer"
  /\ chat' = models
  /\ completion' = models
  /\ initialized' = TRUE
  /\ pc' = [pc EXCEPT ![r] = "serving"]
  /\ UNCHANGED <<models, loaded, failed>>

\* The request is served by chat_engine, completion_engine or serving_models.
Serve(r) ==
  /\ pc[r] = "serving"
  /\ pc' = [pc EXCEPT ![r] = "idle"]
  /\ UNCHANGED <<initialized, models, chat, completion, loaded, failed>>

Init ==
  /\ initialized = FALSE
  /\ models = None
  /\ chat = None
  /\ completion = None
  /\ loaded = {}
  /\ failed = {}
  /\ pc = [r \in Requests |-> "idle"]

Next == \E r \in Requests : \/ BeginInit(r) \/ SkipInit(r) \/ LorasLoaded(r)
                            \/ LorasFail(r) \/ BuildRaises(r) \/ BuildEngines(r) \/ Serve(r)

Spec == Init /\ [][Next]_vars

(***************************************************************************)
(* Properties.                                                             *)
(***************************************************************************)

\* Every variable holds a value of its kind.
TypeOK ==
  /\ initialized \in BOOLEAN
  /\ {models, chat, completion} \subseteq Requests \cup {None}
  /\ loaded \subseteq Requests /\ failed \subseteq Requests
  /\ pc \in [Requests -> {"idle", "loras", "tokenizer", "serving"}]

\* However initialisations interleave and fail, a request that goes on to serve
\* finds both engines built.
ServesBuilt == \A r \in Requests : pc[r] = "serving" => None \notin {models, chat, completion}

\* Once initialised, /v1/models lists the adapters of the very object that both
\* engines resolve model names with: no late initialisation replaces one of the three.
OneModelsObject == initialized => models = chat /\ models = completion

\* The engines may be built over another request's models object, whose adapters are
\* not loaded.  They are then on their way, their own request awaiting them, or
\* failed to load in that request: no order of beginnings, failures and retries leaves
\* engines without adapters that nobody loads and whose loss no request was told.
AdaptersAccounted == initialized /\ chat \notin loaded => pc[chat] = "loras" \/ chat \in failed
=============================================================================
