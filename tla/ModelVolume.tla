---------------------------- MODULE ModelVolume ----------------------------
(***************************************************************************)
(* Model weights on a volume that outlives the pods and that several pods  *)
(* may mount.  ensure_model looks for its own record, downloads what is    *)
(* missing, copies the image's tokenizer configuration over the downloaded *)
(* one and writes the record last.  A pod can die between any two steps; a *)
(* new one, or the same one resumed, starts over with the volume as it was *)
(* left.  The Hugging Face client is external: a file appears in its cache *)
(* complete or not at all, and is not fetched twice.                       *)
(***************************************************************************)
EXTENDS Naturals, Sequences

CONSTANTS
  Pods,        \* the pods that mount the volume
  Repos,       \* the repositories to consider: sets of kinds of file
  Patches,     \* whether the image carries a tokenizer configuration: TRUE, FALSE
  MaxCrashes,  \* how many times a pod may be killed
  MaxFailures  \* how many times a download may raise

Weights   == {"safetensors", "bin", "pt"}
FileKinds == Weights \cup {"config", "tokenizer"}

ASSUME ReposAssumption == Repos \subseteq SUBSET FileKinds
ASSUME PatchesAssumption == Patches \subseteq BOOLEAN
ASSUME BoundsAssumption == MaxCrashes \in Nat /\ MaxFailures \in Nat

VARIABLES
  repo,       \* the kinds of file in the model's repository, never changed
  patch,      \* does the image carry a tokenizer configuration?  never changed
  marker,     \* local_model_args.json on the volume
  files,      \* the kinds of file in the volume's cache
  tokconfig,  \* tokenizer_config.json in the cache: as published, cut off, the image's
  pc,         \* where each pod is in ensure_model
  pattern,    \* the pattern set each pod is downloading
  crashes,    \* pods killed, or stopped by a write that raised, so far
  failures    \* downloads failed so far

image == <<repo, patch>>
vars == <<image, marker, files, tokconfig, pc, pattern, crashes, failures>>

\* "*.json" and "tokenizer*" accompany every weight pattern, in the code's order.
TokenizerPatterns == {"config", "tokenizer"}
PatternSets ==
  [model     |-> <<{"safetensors"} \cup TokenizerPatterns,
                   {"bin"} \cup TokenizerPatterns,
                   {"pt"} \cup TokenizerPatterns>>,
   tokenizer |-> <<TokenizerPatterns>>]

Downloading == {"model", "tokenizer"}

\* Mutant: the record is created first, as a lock.
CheckMarkerLocking(p) ==
  /\ pc[p] = "start"
  /\ pc' = [pc EXCEPT ![p] = IF marker = "absent" THEN "model" ELSE "found"]
  /\ marker' = IF marker = "absent" THEN "empty" ELSE marker
  /\ pattern' = [pattern EXCEPT ![p] = 1]
  /\ UNCHANGED <<image, files, tokconfig, crashes, failures>>

\* Does the record exist?  Whatever is in it.
CheckMarker(p) ==
  /\ pc[p] = "start"
  /\ pc' = [pc EXCEPT ![p] = IF marker = "absent" THEN "model" ELSE "found"]
  /\ pattern' = [pattern EXCEPT ![p] = 1]
  /\ UNCHANGED <<image, marker, files, tokconfig, crashes, failures>>

\* json.load of the record: an empty one raises, and boot fails.
ReadMarker(p) ==
  /\ pc[p] = "found"
  /\ pc' = [pc EXCEPT ![p] = IF marker = "complete" THEN "done" ELSE "down"]
  /\ UNCHANGED <<image, marker, files, tokconfig, pattern, crashes, failures>>

\* The files that snapshot_download has still to fetch for p's pattern set.
Missing(p) == ((repo \cap PatternSets[pc[p]][pattern[p]]) \ files)

\* snapshot_download brings one more file of the set.
FetchFile(p) ==
  /\ pc[p] \in Downloading
  /\ \E f \in Missing(p) : files' = files \cup {f}
  /\ UNCHANGED <<image, marker, tokconfig, pc, pattern, crashes, failures>>

\* Mutant: download takes the first pattern set as done before it is fetched.
SnapshotReturnsEarly(p) ==
  /\ pc[p] \in Downloading
  /\ IF pattern[p] = Len(PatternSets[pc[p]]) \/ files \cap PatternSets[pc[p]][pattern[p]] # {}
       THEN /\ pc' = [pc EXCEPT ![p] = IF @ = "model" THEN "tokenizer" ELSE "patch"]
            /\ pattern' = [pattern EXCEPT ![p] = 1]
       ELSE /\ pattern' = [pattern EXCEPT ![p] = @ + 1]
            /\ UNCHANGED pc
  /\ UNCHANGED <<image, marker, files, tokconfig, crashes, failures>>

\* The set is fetched.  If anything on disk matches any pattern of the set the
\* download returns its path; otherwise the next set is tried, and after the last one
\* download falls off its end and returns None.
SnapshotReturns(p) ==
  /\ pc[p] \in Downloading
  /\ Missing(p) = {}
  /\ IF pattern[p] = Len(PatternSets[pc[p]]) \/ files \cap PatternSets[pc[p]][pattern[p]] # {}
       THEN /\ pc' = [pc EXCEPT ![p] = IF @ = "model" THEN "tokenizer" ELSE "patch"]
            /\ pattern' = [pattern EXCEPT ![p] = 1]
       ELSE /\ pattern' = [pattern EXCEPT ![p] = @ + 1]
            /\ UNCHANGED pc
  /\ UNCHANGED <<image, marker, files, tokconfig, crashes, failures>>

\* The network or the hub fails: boot fails.
DownloadFails(p) ==
  /\ pc[p] \in Downloading /\ failures < MaxFailures
  /\ pc' = [pc EXCEPT ![p] = "down"]
  /\ failures' = failures + 1
  /\ UNCHANGED <<image, marker, files, tokconfig, pattern, crashes>>

\* With a configuration in the image, the one in the cache is opened for writing, which
\* truncates it.  A tokenizer download that matched nothing returned None: joining a
\* file name to that raises, and boot fails.
PatchTokenizer(p) ==
  /\ pc[p] = "patch"
  /\ \/ /\ ~patch
        /\ pc' = [pc EXCEPT ![p] = "open"]
        /\ UNCHANGED tokconfig
     \/ /\ patch /\ files \cap TokenizerPatterns = {}
        /\ pc' = [pc EXCEPT ![p] = "down"]
        /\ UNCHANGED tokconfig
     \/ /\ patch /\ files \cap TokenizerPatterns # {}
        /\ pc' = [pc EXCEPT ![p] = "copy"]
        /\ tokconfig' = "partial"
  /\ UNCHANGED <<image, marker, files, pattern, crashes, failures>>

\* shutil.copy has copied all of it.
CopyPatch(p) ==
  /\ pc[p] = "copy"
  /\ tokconfig' = "patched"
  /\ pc' = [pc EXCEPT ![p] = "open"]
  /\ UNCHANGED <<image, marker, files, pattern, crashes, failures>>

\* Mutant: the record is written before the tokenizer is patched.
OpenMarkerUnpatched(p) ==
  /\ pc[p] \in {"patch", "open"}
  /\ marker' = "empty"
  /\ pc' = [pc EXCEPT ![p] = "dump"]
  /\ UNCHANGED <<image, files, tokconfig, pattern, crashes, failures>>

\* open(MODEL_ARGS_PATH, "w") truncates the record ...
OpenMarker(p) ==
  /\ pc[p] = "open"
  /\ marker' = "empty"
  /\ pc' = [pc EXCEPT ![p] = "dump"]
  /\ UNCHANGED <<image, files, tokconfig, pattern, crashes, failures>>

\* Mutant: the record is written for this container only.
DumpMarkerLocally(p) ==
  /\ pc[p] = "dump"
  /\ pc' = [pc EXCEPT ![p] = "done"]
  /\ UNCHANGED <<image, marker, files, tokconfig, pattern, crashes, failures>>

\* Mutant: the record is keyed by the name of the file's writer.
DumpMarkerNamed(p) ==
  /\ pc[p] = "dump"
  /\ marker' = p
  /\ pc' = [pc EXCEPT ![p] = "done"]
  /\ UNCHANGED <<image, files, tokconfig, pattern, crashes, failures>>

\* ... and closing it writes the contents.  The container's private copy, written
\* next and read by nobody before ensure_model returns, is part of this step.
DumpMarker(p) ==
  /\ pc[p] = "dump"
  /\ marker' = "complete"
  /\ pc' = [pc EXCEPT ![p] = "done"]
  /\ UNCHANGED <<image, files, tokconfig, pattern, crashes, failures>>

\* The pod is killed (out of memory, a spot reclaim, a stop during boot), or one of its
\* writes raises because the volume is full: what it had begun stays half done.
Crash(p) ==
  /\ pc[p] # "down" /\ crashes < MaxCrashes
  /\ pc' = [pc EXCEPT ![p] = "down"]
  /\ crashes' = crashes + 1
  /\ UNCHANGED <<image, marker, files, tokconfig, pattern, failures>>

\* The control plane starts or resumes a pod on the same volume.
Restart(p) ==
  /\ pc[p] = "down"
  /\ pc' = [pc EXCEPT ![p] = "start"]
  /\ UNCHANGED <<image, marker, files, tokconfig, pattern, crashes, failures>>

Init ==
  /\ repo \in Repos
  /\ patch \in Patches
  /\ marker = "absent"
  /\ files = {}
  /\ tokconfig = "published"
  /\ pc = [p \in Pods |-> "start"]
  /\ pattern = [p \in Pods |-> 1]
  /\ crashes = 0
  /\ failures = 0

EnsureModel(p) ==
  \/ CheckMarker(p) \/ ReadMarker(p) \/ FetchFile(p) \/ SnapshotReturns(p)
  \/ PatchTokenizer(p) \/ CopyPatch(p) \/ OpenMarker(p) \/ DumpMarker(p)

Next == \E p \in Pods : EnsureModel(p) \/ DownloadFails(p) \/ Crash(p) \/ Restart(p)

Spec == Init /\ [][Next]_vars

\* A pod that runs goes on, and a pod that is down is started again.
Fairness == \A p \in Pods : WF_vars(EnsureModel(p)) /\ WF_vars(Restart(p))

FairSpec == Spec /\ Fairness

(***************************************************************************)
(* Properties.                                                             *)
(***************************************************************************)

\* Every variable holds a value of its kind and the counters keep their bounds.
TypeOK ==
  /\ repo \in Repos /\ patch \in Patches
  /\ marker \in {"absent", "empty", "complete"}
  /\ files \subseteq repo
  /\ tokconfig \in {"published", "partial", "patched"}
  /\ pc \in [Pods -> Downloading \cup
                 {"start", "found", "patch", "copy", "open", "dump", "done", "down"}]
  /\ pattern \in [Pods -> 1..3]
  /\ crashes \in 0..MaxCrashes
  /\ failures \in 0..MaxFailures

\* What the model download settles for: the first pattern set the repository matches.
Wanted ==
  LET sets == PatternSets.model
      hits == {i \in 1..Len(sets) : repo \cap sets[i] # {}}
  IN  IF hits = {} THEN {} ELSE repo \cap sets[CHOOSE i \in hits : \A j \in hits : i <= j]

\* The record exists, even half written, only when everything the download settles
\* for is on the volume, whichever pods died or raced on the way: no later boot
\* skips a download that is not complete.
MarkerMeansFetched == marker # "absent" => Wanted \subseteq files

\* A half-written record always has a writer who is about to complete it, unless a
\* pod was killed or could not write: a failed download or a second writer never
\* leaves one behind.
EmptyHasWriter == marker = "empty" /\ crashes = 0 => \E p \in Pods : pc[p] = "dump"

\* Where the image carries a tokenizer configuration (it does: Dockerfile:59), a record
\* on the volume, by which every later boot skips the patch, means that it replaces the
\* published one; and unless a pod was killed, one that is cut off is being copied
\* again by a pod that came to the patch later than the record's writer.
RecordMeansPatched ==
  patch /\ marker # "absent" =>
    /\ tokconfig # "published"
    /\ tokconfig = "partial" /\ crashes = 0 => \E p \in Pods : pc[p] = "copy"

\* Can a pod get past the tokenizer's patch at all?
Bootable == ~patch \/ repo \cap TokenizerPatterns # {}

\* Without kills every pod finishes ensure_model, however the pods that share the
\* volume interleave and although some downloads fail, if the repository has a file
\* beside which the patch can be put.
EveryPodBoots == Bootable /\ [](crashes = 0) => \A p \in Pods : <>(pc[p] = "done")

\* boot_model.py:8 says of a network volume that the models directory "persists across
\* stop/resume".  So once pods stop being killed one of them boots; the record that a
\* killed writer left empty makes every later boot fail.
BootRecovers == <>(\E p \in Pods : pc[p] = "done")
=============================================================================
