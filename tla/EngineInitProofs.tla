-------------------------- MODULE EngineInitProofs --------------------------
(***************************************************************************)
(* Proofs about EngineInit for any number of concurrent first requests:    *)
(* whoever serves finds the engines built, engines and model listing share *)
(* one models object, and adapters are missing only for the two reasons    *)
(* that overlapping first requests can give.                               *)
(***************************************************************************)
EXTENDS EngineInit, TLAPS

\* Whoever has begun has left a models object behind, and nothing withdraws it.
Begun == \A r \in Requests : pc[r] # "idle" => models # None

\* The flag is set only over built engines, and serving starts only under the flag.
FlagMeansBuilt ==
  /\ initialized => chat # None
  /\ \A r \in Requests : pc[r] = "serving" => initialized

\* A request that is past its own adapters has loaded them.
LoadedWhenBuilding == \A r \in Requests : pc[r] = "tokenizer" => r \in loaded

\* The models object that engines are built around, now or later, has its adapters, is
\* still being loaded by its own request, or failed to load in it.
ModelsAccounted == models # None => models \in loaded \/ pc[models] = "loras" \/ models \in failed

\* The inductive invariant: ServesBuilt follows from its middle conjuncts,
\* AdaptersAccounted from the last with OneModelsObject.
IInv ==
  /\ TypeOK /\ Begun /\ FlagMeansBuilt /\ OneModelsObject
  /\ LoadedWhenBuilding /\ ModelsAccounted

\* Nothing is built and nobody serves at first.
LEMMA InitIInv == Init => IInv
  BY DEF Init, IInv, TypeOK, Begun, FlagMeansBuilt, OneModelsObject, LoadedWhenBuilding,
      ModelsAccounted

\* Every step keeps the invariant.
LEMMA NextIInv == IInv /\ [Next]_vars => IInv'
<1> SUFFICES ASSUME IInv, [Next]_vars PROVE IInv'
  OBVIOUS
<1> USE NoneAssumption
    DEF IInv, TypeOK, Begun, FlagMeansBuilt, OneModelsObject, LoadedWhenBuilding, ModelsAccounted
<1>1. ASSUME NEW r \in Requests, BeginInit(r) PROVE IInv'
  BY <1>1 DEF BeginInit
<1>2. ASSUME NEW r \in Requests, SkipInit(r) PROVE IInv'
  BY <1>2 DEF SkipInit
<1>3. ASSUME NEW r \in Requests, LorasLoaded(r) PROVE IInv'
  BY <1>3 DEF LorasLoaded
<1>4. ASSUME NEW r \in Requests, LorasFail(r) PROVE IInv'
  BY <1>4 DEF LorasFail
<1>5. ASSUME NEW r \in Requests, BuildEngines(r) PROVE IInv'
  BY <1>5 DEF BuildEngines
<1>6. ASSUME NEW r \in Requests, Serve(r) PROVE IInv'
  BY <1>6 DEF Serve
<1>7. ASSUME NEW r \in Requests, BuildRaises(r) PROVE IInv'
  BY <1>7 DEF BuildRaises
<1>8. CASE UNCHANGED vars
  BY <1>8 DEF vars
<1> QED
  BY <1>1, <1>2, <1>3, <1>4, <1>5, <1>6, <1>7, <1>8 DEF Next

\* The invariant holds of every reachable state.
LEMMA IInvHolds == Spec => []IInv
  BY InitIInv, NextIInv, PTL DEF Spec

\* The type invariant: models objects are the requests that made them, or none yet.
THEOREM TypeCorrect == Spec => []TypeOK
<1>1. IInv => TypeOK
  BY DEF IInv
<1> QED
  BY <1>1, IInvHolds, PTL

\* Whatever the number of first requests and the order of their initialisations, one
\* that goes on to serve finds both engines built.
THEOREM ServesOnlyBuilt == Spec => []ServesBuilt
<1>1. IInv => ServesBuilt
  BY DEF IInv, Begun, FlagMeansBuilt, OneModelsObject, ServesBuilt
<1> QED
  BY <1>1, IInvHolds, PTL

\* Once initialised, the engines and the listing share one models object for ever.
THEOREM ModelsObjectIsShared == Spec => []OneModelsObject
<1>1. IInv => OneModelsObject
  BY DEF IInv
<1> QED
  BY <1>1, IInvHolds, PTL

\* Engines without adapters are the work of overlapping first requests: whatever their
\* number, the object in the engines is still being loaded by the request that made it,
\* or failed to load there; no interleaving of beginnings and retries loses adapters
\* in another way.
THEOREM MissingAdaptersAccounted == Spec => []AdaptersAccounted
<1>1. IInv => AdaptersAccounted
  BY DEF IInv, FlagMeansBuilt, OneModelsObject, ModelsAccounted, AdaptersAccounted
<1> QED
  BY <1>1, IInvHolds, PTL
=============================================================================
