------------------------- MODULE ModelVolumeProofs -------------------------
(***************************************************************************)
(* Proofs about ModelVolume for any number of pods, any repository and any *)
(* number of kills and failures: what a record on the volume stands for.   *)
(***************************************************************************)
EXTENDS ModelVolume, TLAPS

\* A repository's files match none of the model's pattern sets before the n-th.
NoneOf(kinds, n) == \A i \in 1..(n - 1) : kinds \cap PatternSets.model[i] = {}

\* Where a pod is once its downloads are over and before it has finished.
Recording == {"patch", "copy", "open", "dump"}

\* A pod in the model's download has tried the earlier pattern sets in vain; one that
\* is past it, and one that finds a record, has everything that the download wants.
Progress ==
  \A p \in Pods :
    /\ pc[p] = "model" => NoneOf(repo, pattern[p])
    /\ pc[p] = "tokenizer" => pattern[p] = 1
    /\ pc[p] \in Recording \cup {"tokenizer"} => Wanted \subseteq files

\* A pod that has begun the copy of the image's tokenizer configuration, or is past it,
\* has touched the published one; a copy that was begun goes on unless a pod was killed.
Patching ==
  /\ patch => \A p \in Pods : pc[p] \in {"copy", "open", "dump"} => tokconfig # "published"
  /\ tokconfig = "partial" /\ crashes = 0 => \E p \in Pods : pc[p] = "copy"

VInv ==
  TypeOK /\ Progress /\ Patching /\ MarkerMeansFetched /\ EmptyHasWriter /\ RecordMeansPatched

\* The pattern sets one by one.
LEMMA ThreeSets ==
  /\ Len(PatternSets.model) = 3 /\ Len(PatternSets.tokenizer) = 1
  /\ DOMAIN PatternSets.model = 1..3
  /\ PatternSets["model"] = PatternSets.model
  /\ PatternSets["tokenizer"] = PatternSets.tokenizer
  BY DEF PatternSets

\* The first pattern set that matches is what the download wants.
LEMMA FirstHitIsWanted ==
  ASSUME NEW n \in 1..3, NoneOf(repo, n), repo \cap PatternSets.model[n] # {}
  PROVE  Wanted = repo \cap PatternSets.model[n]
<1> DEFINE sets == PatternSets.model
           hits == {i \in 1..Len(sets) : repo \cap sets[i] # {}}
           first == CHOOSE i \in hits : \A j \in hits : i <= j
<1>1. hits \subseteq 1..3 /\ n \in hits
  BY ThreeSets
<1>2. \A j \in hits : n <= j
  <2> SUFFICES ASSUME NEW j \in hits, j < n PROVE FALSE
    BY <1>1
  <2>1. j \in 1..(n - 1) /\ repo \cap sets[j] # {}
    BY <1>1
  <2> QED
    BY <2>1 DEF NoneOf
<1> HIDE DEF hits
<1>3. first \in hits /\ \A j \in hits : first <= j
  BY <1>1, <1>2
<1>4. Wanted = repo \cap sets[first]
  BY <1>1 DEF Wanted, hits
<1> HIDE DEF first
<1>5. first \in 1..3 /\ first <= n /\ n <= first
  BY <1>1, <1>2, <1>3
<1> QED
  BY <1>4, <1>5

\* A repository that matches no pattern set leaves nothing to want.
LEMMA NoHitWantsNothing ==
  ASSUME NoneOf(repo, 4) PROVE Wanted = {}
<1>1. {i \in 1..Len(PatternSets.model) : repo \cap PatternSets.model[i] # {}} = {}
  BY ThreeSets DEF NoneOf
<1> QED
  BY <1>1 DEF Wanted

\* When the download of pattern set n returns and is not followed by another one,
\* everything wanted has been fetched.
LEMMA DownloadIsComplete ==
  ASSUME NEW n \in 1..3, NoneOf(repo, n), files \subseteq repo,
         (repo \cap PatternSets.model[n]) \ files = {},
         n = 3 \/ files \cap PatternSets.model[n] # {}
  PROVE  Wanted \subseteq files
<1>1. CASE repo \cap PatternSets.model[n] # {}
  BY <1>1, FirstHitIsWanted
<1>2. CASE repo \cap PatternSets.model[n] = {}
  <2>1. n = 3
    BY <1>2
  <2>2. NoneOf(repo, 4)
    BY <1>2, <2>1 DEF NoneOf
  <2> QED
    BY <2>2, NoHitWantsNothing
<1> QED
  BY <1>1, <1>2

\* Initially nothing is claimed.
LEMMA InitVInv == Init => VInv
  BY BoundsAssumption
  DEF Init, VInv, TypeOK, Progress, Recording, NoneOf, Patching, MarkerMeansFetched,
      EmptyHasWriter, RecordMeansPatched, Downloading

\* Type correctness is kept; the number of the pattern set stays one of its download's.
LEMMA TypeStep == VInv /\ [Next]_vars => TypeOK'
<1> SUFFICES ASSUME VInv, [Next]_vars PROVE TypeOK'
  OBVIOUS
<1> USE BoundsAssumption DEF VInv, TypeOK, Downloading, image
<1>1. CASE UNCHANGED vars
  BY <1>1 DEF vars
<1>2. ASSUME NEW p \in Pods, CheckMarker(p) PROVE TypeOK'
  BY <1>2 DEF CheckMarker
<1>3. ASSUME NEW p \in Pods, ReadMarker(p) PROVE TypeOK'
  BY <1>3 DEF ReadMarker
<1>4. ASSUME NEW p \in Pods, FetchFile(p) PROVE TypeOK'
  BY <1>4 DEF FetchFile, Missing
<1>5. ASSUME NEW p \in Pods, SnapshotReturns(p) PROVE TypeOK'
  <2>1. /\ pattern[p] \in 1..3 /\ pc[p] \in {"model", "tokenizer"}
        /\ pc[p] = "tokenizer" => pattern[p] = 1
    BY <1>5 DEF SnapshotReturns, Progress
  <2>2. Len(PatternSets[pc[p]]) = IF pc[p] = "model" THEN 3 ELSE 1
    BY <2>1, ThreeSets
  <2>3. pattern[p] # Len(PatternSets[pc[p]]) => pattern[p] + 1 \in 1..3
    BY <2>1, <2>2
  <2> QED
    BY <1>5, <2>3 DEF SnapshotReturns
<1>6. ASSUME NEW p \in Pods, OpenMarker(p) PROVE TypeOK'
  BY <1>6 DEF OpenMarker
<1>7. ASSUME NEW p \in Pods, DumpMarker(p) PROVE TypeOK'
  BY <1>7 DEF DumpMarker
<1>8. ASSUME NEW p \in Pods, DownloadFails(p) PROVE TypeOK'
  BY <1>8 DEF DownloadFails
<1>9. ASSUME NEW p \in Pods, Crash(p) PROVE TypeOK'
  BY <1>9 DEF Crash
<1>10. ASSUME NEW p \in Pods, Restart(p) PROVE TypeOK'
  BY <1>10 DEF Restart
<1>11. ASSUME NEW p \in Pods, PatchTokenizer(p) PROVE TypeOK'
  BY <1>11 DEF PatchTokenizer
<1>12. ASSUME NEW p \in Pods, CopyPatch(p) PROVE TypeOK'
  BY <1>12 DEF CopyPatch
<1> QED
  BY <1>1, <1>2, <1>3, <1>4, <1>5, <1>6, <1>7, <1>8, <1>9, <1>10, <1>11, <1>12
  DEF Next, EnsureModel

\* The repository never changes, files only come: what is fetched stays.
LEMMA FilesStay ==
  VInv /\ [Next]_vars =>
    /\ repo' = repo
    /\ Wanted \subseteq files => (Wanted \subseteq files)'
<1> SUFFICES ASSUME VInv, [Next]_vars
             PROVE  repo' = repo /\ files \subseteq files'
  BY DEF Wanted
<1> QED
  BY DEF Next, vars, image, EnsureModel, PatchTokenizer, CopyPatch, CheckMarker, ReadMarker,
         FetchFile, SnapshotReturns,
         OpenMarker, DumpMarker, DownloadFails, Crash, Restart

\* A pod's progress is kept by its own steps, and by those of others because files stay.
LEMMA ProgressStep == VInv /\ [Next]_vars => Progress'
<1> SUFFICES ASSUME VInv, [Next]_vars, NEW q \in Pods
             PROVE  /\ pc'[q] = "model" => NoneOf(repo', pattern'[q])
                    /\ pc'[q] = "tokenizer" => pattern'[q] = 1
                    /\ pc'[q] \in Recording \cup {"tokenizer"} => (Wanted \subseteq files)'
  BY DEF Progress
<1> USE DEF Recording
<1>0. /\ pc[q] = "model" => NoneOf(repo, pattern[q])
      /\ pc[q] = "tokenizer" => pattern[q] = 1
      /\ pc[q] \in Recording \cup {"tokenizer"} => Wanted \subseteq files
  BY DEF VInv, Progress
<1>1. CASE pc'[q] = pc[q] /\ pattern'[q] = pattern[q]
  BY <1>0, <1>1, FilesStay
<1>2. CASE CheckMarker(q)
  <2>1. pc'[q] \in {"model", "found"} /\ pattern'[q] = 1
    BY <1>2 DEF CheckMarker, VInv, TypeOK
  <2>2. NoneOf(repo', 1)
    BY DEF NoneOf
  <2> QED
    BY <2>1, <2>2
<1>3. CASE SnapshotReturns(q)
  <2> DEFINE over == \/ pattern[q] = Len(PatternSets[pc[q]])
                     \/ files \cap PatternSets[pc[q]][pattern[q]] # {}
  <2>1. /\ pc[q] \in {"model", "tokenizer"} /\ Missing(q) = {} /\ pattern[q] \in 1..3
        /\ over => pc'[q] = (IF pc[q] = "model" THEN "tokenizer" ELSE "patch") /\ pattern'[q] = 1
        /\ ~over => pc'[q] = pc[q] /\ pattern'[q] = pattern[q] + 1
    BY <1>3 DEF SnapshotReturns, VInv, TypeOK, Downloading
  <2>2. CASE pc[q] = "tokenizer"
    <3>1. over /\ Wanted \subseteq files
      BY <1>0, <2>2, ThreeSets
    <3> QED
      BY <2>1, <2>2, <3>1, FilesStay
  <2>3. CASE pc[q] = "model" /\ over
    <3>1. Wanted \subseteq files
      BY <1>0, <2>1, <2>3, ThreeSets, DownloadIsComplete DEF Missing, VInv, TypeOK
    <3> QED
      BY <2>1, <2>3, <3>1, FilesStay
  <2>4. CASE pc[q] = "model" /\ ~over
    <3>1. repo \cap PatternSets.model[pattern[q]] = {}
      BY <2>1, <2>4, ThreeSets DEF Missing
    <3>2. NoneOf(repo, pattern[q] + 1)
      BY <1>0, <2>1, <2>4, <3>1 DEF NoneOf
    <3> QED
      BY <2>1, <2>4, <3>2, FilesStay
  <2> QED
    BY <2>1, <2>2, <2>3, <2>4
<1>4. CASE \/ ReadMarker(q) \/ PatchTokenizer(q) \/ CopyPatch(q)
           \/ OpenMarker(q) \/ DumpMarker(q) \/ DownloadFails(q) \/ Crash(q) \/ Restart(q)
  <2>1. /\ pc'[q] \in {"done", "down", "start"} \cup Recording
        /\ pc'[q] \in Recording => pc[q] \in Recording
    BY <1>4 DEF ReadMarker, PatchTokenizer, CopyPatch, OpenMarker, DumpMarker, DownloadFails,
                Crash, Restart, VInv, TypeOK
  <2> QED
    BY <1>0, <2>1, FilesStay
<1>5. CASE UNCHANGED vars
  BY <1>1, <1>5 DEF vars
<1>6. ASSUME NEW p \in Pods, EnsureModel(p) \/ DownloadFails(p) \/ Crash(p) \/ Restart(p)
      PROVE  \/ pc'[q] = pc[q] /\ pattern'[q] = pattern[q]
             \/ CheckMarker(q) \/ SnapshotReturns(q)
             \/ ReadMarker(q) \/ PatchTokenizer(q) \/ CopyPatch(q)
             \/ OpenMarker(q) \/ DumpMarker(q)
             \/ DownloadFails(q) \/ Crash(q) \/ Restart(q)
  <2>1. CASE p = q /\ ~FetchFile(q)
    BY <1>6, <2>1 DEF EnsureModel
  <2>2. CASE FetchFile(p)
    BY <2>2 DEF FetchFile
  <2>3. CASE p # q
    BY <1>6, <2>3
    DEF EnsureModel, CheckMarker, ReadMarker, FetchFile, SnapshotReturns, PatchTokenizer,
        CopyPatch, OpenMarker, DumpMarker, DownloadFails, Crash, Restart, VInv, TypeOK
  <2> QED
    BY <2>1, <2>2, <2>3
<1> QED
  BY <1>1, <1>2, <1>3, <1>4, <1>5, <1>6 DEF Next

\* Only a pod that has everything creates or fills the record.
LEMMA MarkerStep == VInv /\ [Next]_vars => MarkerMeansFetched'
<1> SUFFICES ASSUME VInv, [Next]_vars, marker' # "absent"
             PROVE  (Wanted \subseteq files)'
  BY DEF MarkerMeansFetched
<1>1. marker # "absent" \/ \E p \in Pods : pc[p] \in {"open", "dump"}
  BY DEF Next, vars, image, EnsureModel, CheckMarker, ReadMarker, FetchFile, SnapshotReturns,
         PatchTokenizer, CopyPatch, OpenMarker, DumpMarker, DownloadFails, Crash, Restart
<1>2. Wanted \subseteq files
  BY <1>1 DEF VInv, MarkerMeansFetched, Progress, Recording
<1> QED
  BY <1>2, FilesStay

\* The writer that leaves a half-written record has filled it, or was killed.
LEMMA WriterStep == VInv /\ [Next]_vars => EmptyHasWriter'
<1> SUFFICES ASSUME VInv, [Next]_vars, marker' = "empty", crashes' = 0
             PROVE  \E q \in Pods : pc'[q] = "dump"
  BY DEF EmptyHasWriter
<1>1. CASE \E p \in Pods : OpenMarker(p)
  BY <1>1 DEF OpenMarker, VInv, TypeOK
<1>2. CASE ~\E p \in Pods : OpenMarker(p)
  <2>1. marker = "empty" /\ crashes = 0
    BY <1>2, BoundsAssumption
    DEF Next, vars, image, EnsureModel, CheckMarker, ReadMarker, FetchFile, SnapshotReturns,
        PatchTokenizer, CopyPatch, DumpMarker, DownloadFails, Crash, Restart, VInv, TypeOK
  <2>2. PICK q \in Pods : pc[q] = "dump"
    BY <2>1 DEF VInv, EmptyHasWriter
  <2>3. pc'[q] = "dump"
    BY <1>2, <2>1, <2>2, BoundsAssumption
    DEF Next, vars, image, EnsureModel, CheckMarker, ReadMarker, FetchFile, SnapshotReturns,
        PatchTokenizer, CopyPatch, DumpMarker, DownloadFails, Crash, Restart, VInv, TypeOK,
        Downloading
  <2> QED
    BY <2>3
<1> QED
  BY <1>1, <1>2

\* Every step but PatchTokenizer's keeps a configuration that is not the published one
\* from being cut off, and none brings the published one back.
LEMMA ConfigStep ==
  VInv /\ [Next]_vars =>
    /\ patch' = patch
    /\ tokconfig # "published" => tokconfig' # "published"
    /\ tokconfig' = "partial" => tokconfig = "partial" \/ \E p \in Pods : PatchTokenizer(p)
  BY DEF VInv, TypeOK, Next, vars, image, EnsureModel, CheckMarker, ReadMarker, FetchFile,
         SnapshotReturns, PatchTokenizer, CopyPatch, OpenMarker, DumpMarker, DownloadFails,
         Crash, Restart

\* What the invariant says of an image that carries a configuration.
LEMMA PatchBegun ==
  VInv /\ patch =>
    /\ \A p \in Pods : pc[p] \in {"copy", "open", "dump"} => tokconfig # "published"
    /\ marker # "absent" => tokconfig # "published"
  BY DEF VInv, Patching, RecordMeansPatched

\* Only the patch leads a pod into the copy and past it.
LEMMA OnlyPatching ==
  ASSUME TypeOK, [Next]_vars, NEW q \in Pods,
         pc[q] \notin {"copy", "open", "dump"}, pc'[q] \in {"copy", "open", "dump"}
  PROVE  PatchTokenizer(q)
<1>1. pc \in [Pods -> Downloading \cup
                        {"start", "found", "patch", "copy", "open", "dump", "done", "down"}]
  BY DEF TypeOK
<1>2. PICK p \in Pods : EnsureModel(p) \/ DownloadFails(p) \/ Crash(p) \/ Restart(p)
  BY DEF Next, vars
<1>3. CASE EnsureModel(p)
  <2>1. CASE CheckMarker(p) \/ ReadMarker(p) \/ OpenMarker(p) \/ DumpMarker(p) \/ CopyPatch(p)
    BY <1>1, <2>1 DEF CheckMarker, ReadMarker, OpenMarker, DumpMarker, CopyPatch
  <2>2. CASE FetchFile(p) \/ SnapshotReturns(p)
    BY <1>1, <2>2 DEF FetchFile, SnapshotReturns
  <2>3. CASE PatchTokenizer(p)
    BY <1>1, <2>3 DEF PatchTokenizer
  <2> QED
    BY <1>3, <2>1, <2>2, <2>3 DEF EnsureModel
<1>4. CASE DownloadFails(p) \/ Crash(p) \/ Restart(p)
  BY <1>1, <1>4 DEF DownloadFails, Crash, Restart
<1> QED
  BY <1>2, <1>3, <1>4

\* The copy is begun before a pod is past the patch, and ends or goes on.
LEMMA PatchingStep == VInv /\ [Next]_vars => Patching'
<1> SUFFICES ASSUME VInv, [Next]_vars PROVE Patching'
  OBVIOUS
<1> USE DEF VInv, TypeOK, Downloading
<1>1. ASSUME patch', NEW q \in Pods, pc'[q] \in {"copy", "open", "dump"}
      PROVE  tokconfig' # "published"
  <2>1. CASE tokconfig # "published"
    BY <2>1, ConfigStep
  <2>2. CASE tokconfig = "published"
    <3>1. pc[q] \notin {"copy", "open", "dump"}
      BY <1>1, <2>2, PatchBegun, ConfigStep
    <3>2. PatchTokenizer(q)
      BY <1>1, <3>1, OnlyPatching
    <3> QED
      BY <1>1, <3>2 DEF PatchTokenizer, image
  <2> QED
    BY <2>1, <2>2
<1>2. ASSUME tokconfig' = "partial", crashes' = 0
      PROVE  \E q \in Pods : pc'[q] = "copy"
  <2>1. CASE \E p \in Pods : PatchTokenizer(p) /\ pc'[p] = "copy"
    BY <2>1
  <2>2. CASE ~\E p \in Pods : PatchTokenizer(p) /\ pc'[p] = "copy"
    <3>1. tokconfig = "partial"
      BY <1>2, <2>2, ConfigStep DEF PatchTokenizer
    <3>2. crashes = 0
      BY <1>2, BoundsAssumption
      DEF Next, vars, image, EnsureModel, CheckMarker, ReadMarker, FetchFile, SnapshotReturns,
          PatchTokenizer, CopyPatch, OpenMarker, DumpMarker, DownloadFails, Crash, Restart
    <3>3. PICK q \in Pods : pc[q] = "copy"
      BY <3>1, <3>2 DEF Patching
    <3>4. pc'[q] = "copy"
      BY <1>2, <3>2, <3>3, BoundsAssumption
      DEF Next, vars, image, EnsureModel, CheckMarker, ReadMarker, FetchFile, SnapshotReturns,
          PatchTokenizer, CopyPatch, OpenMarker, DumpMarker, DownloadFails, Crash, Restart
    <3> QED
      BY <3>4
  <2> QED
    BY <2>1, <2>2
<1> QED
  BY <1>1, <1>2 DEF Patching

\* Only a pod that is past the patch creates the record.
LEMMA PatchedStep == VInv /\ [Next]_vars => RecordMeansPatched'
<1> SUFFICES ASSUME VInv, [Next]_vars, patch', marker' # "absent"
             PROVE  tokconfig' # "published"
  BY PatchingStep DEF RecordMeansPatched, Patching
<1>1. marker # "absent" \/ \E p \in Pods : pc[p] \in {"open", "dump"}
  BY DEF Next, vars, image, EnsureModel, CheckMarker, ReadMarker, FetchFile, SnapshotReturns,
         PatchTokenizer, CopyPatch, OpenMarker, DumpMarker, DownloadFails, Crash, Restart
<1>2. tokconfig # "published"
  BY <1>1, PatchBegun, ConfigStep
<1> QED
  BY <1>2, ConfigStep

\* The strengthened invariant holds throughout.
LEMMA VInvHolds == Spec => []VInv
<1>1. VInv /\ [Next]_vars => VInv'
  BY TypeStep, ProgressStep, MarkerStep, WriterStep, PatchingStep, PatchedStep DEF VInv
<1> QED
  BY <1>1, InitVInv, PTL DEF Spec

\* Variables keep their kinds and the counters their bounds.
THEOREM VolumeTypeCorrect == Spec => []TypeOK
<1>1. VInv => TypeOK
  BY DEF VInv
<1> QED
  BY <1>1, VInvHolds, PTL

\* However many pods download, die and start over on one volume, a record on it, even a
\* half-written one, means that all the weights that the download settles for are there.
THEOREM RecordMeansWeights == Spec => []MarkerMeansFetched
<1>1. VInv => MarkerMeansFetched
  BY DEF VInv
<1> QED
  BY <1>1, VInvHolds, PTL

\* Only a kill, or a volume that is full, leaves a half-written record behind: failed
\* downloads and any number of concurrent writers do not.
THEOREM OnlyKillsStrand == Spec => []EmptyHasWriter
<1>1. VInv => EmptyHasWriter
  BY DEF VInv
<1> QED
  BY <1>1, VInvHolds, PTL

\* However many pods boot over one volume, the record that makes every later boot skip
\* the patch is never there before the patch was begun, and only a kill leaves it half
\* done.
THEOREM RecordFollowsPatch == Spec => []RecordMeansPatched
<1>1. VInv => RecordMeansPatched
  BY DEF VInv
<1> QED
  BY <1>1, VInvHolds, PTL
=============================================================================
