-------------------------- MODULE WakeStore_proofs --------------------------
(***************************************************************************)
(* Theorems of WakeStore and WakeCorpus for every number of samples kept,   *)
(* every set of verdicts and any number of uploads and interruptions.        *)
(***************************************************************************)
EXTENDS WakeCorpus, FiniteSetTheorems, WellFoundedInduction, TLAPS

----------------------------------------------------------------------------
(* Types, and what the files say of each other                              *)

StoreTypes ==
  /\ wav \in [Samples -> {"none", "begun", "whole"}]
  /\ meta \in [Samples -> {"none", "begun", "bare", "full"}]
  /\ label \in [Samples -> Labels]
  /\ uploads \in 0 .. MaxUploads
  /\ crashes \in Nat /\ slack \in Nat

JobTypes ==
  /\ job.op \in {"idle", "wav", "json", "rotate", "unlink", "label"}
  /\ job.op \in {"wav", "json", "unlink", "label"} => job.of \in 1 .. uploads
  /\ job.op = "label" => job.as \in Labels

(* Metrics follow whole audio: what has metrics has no audio in the making, and  *)
(* the handler at work knows how far its own sample is.                          *)
FileInv ==
  /\ \A n \in Samples : wav[n] = "begun" => meta[n] = "none"
  /\ \A n \in Samples : n > uploads => wav[n] = "none" /\ meta[n] = "none"
  /\ job.op = "wav" => wav[job.of] = "begun"
  /\ job.op = "json" => wav[job.of] = "whole" /\ meta[job.of] = "begun"
  /\ job.op = "unlink" => wav[job.of] = "none"
  /\ job.op = "label" => meta[job.of] = "begun"

StoreInv == StoreTypes /\ JobTypes /\ FileInv

(* The listing is finite, and its oldest entry is in it.                          *)
LEMMA Files ==
  /\ IsFiniteSet(Samples)
  /\ Wavs \in SUBSET Samples /\ Jsons \in SUBSET Samples
  /\ IsFiniteSet(Wavs) /\ IsFiniteSet(Jsons)
  /\ Cardinality(Wavs) \in Nat /\ Cardinality(Jsons) \in Nat
<1>1. IsFiniteSet(Samples) BY FS_Interval, WakeStoreAssumption DEF Samples
<1>2. Wavs \in SUBSET Samples /\ Jsons \in SUBSET Samples BY DEF Wavs, Jsons
<1>3. IsFiniteSet(Wavs) /\ IsFiniteSet(Jsons) BY <1>1, <1>2, FS_Subset
<1> QED BY <1>1, <1>2, <1>3, FS_CardinalityType

LEMMA VictimListed ==
  ASSUME Cardinality(Wavs) > Keep
  PROVE  \E n \in Samples : n = Victim(Wavs) /\ n \in Wavs
<1> DEFINE Less == OpToRel(<, Nat)
<1>1. Wavs \subseteq Nat /\ Wavs \subseteq Samples
  BY WakeStoreAssumption DEF Wavs, Samples
<1>2. Wavs # {} BY FS_EmptySet, WakeStoreAssumption
<1>3. PICK n \in Wavs : \A k \in Wavs : <<k, n>> \notin Less
  BY <1>1, <1>2, NatLessThanWellFounded, WFMin
<1>4. ASSUME NEW k \in Wavs PROVE n <= k
  <2>1. <<k, n>> \in Nat \X Nat /\ <<k, n>>[1] = k /\ <<k, n>>[2] = n BY <1>1
  <2>2. ~ (k < n) BY <1>3, <2>1 DEF OpToRel
  <2> QED BY <1>1, <2>2
<1> QED BY <1>1, <1>3, <1>4 DEF Victim, Oldest

(* A step of the handlers or of the process's end keeps the files in step.         *)
LEMMA StoreStep == StoreInv /\ [StoreNext]_storevars => StoreInv'
<1> SUFFICES ASSUME StoreInv, [StoreNext]_storevars PROVE StoreInv'
  OBVIOUS
<1> USE WakeStoreAssumption DEF StoreInv, StoreTypes, JobTypes, FileInv,
      Samples, Labels, Free, Idle, files, history
<1>1. CASE WriteWav BY <1>1 DEF WriteWav
<1>2. CASE WriteJson BY <1>2 DEF WriteJson
<1>3. CASE Written BY <1>3 DEF Written
<1>4. CASE Rotate
  <2>1. CASE ~ (Cardinality(Wavs) > Keep) BY <1>4, <2>1 DEF Rotate
  <2>2. CASE Cardinality(Wavs) > Keep
    <3>1. PICK n \in Samples : n = Victim(Wavs) /\ n \in Wavs BY <2>2, VictimListed
    <3>2. wav[n] # "none" BY <3>1 DEF Wavs
    <3>3. wav' = [wav EXCEPT ![n] = "none"] /\ job' = [op |-> "unlink", of |-> n]
      BY <1>4, <2>2, <3>1 DEF Rotate
    <3>4. n \in 1 .. uploads BY <3>2
    <3> QED BY <1>4, <3>2, <3>3, <3>4 DEF Rotate
  <2> QED BY <2>1, <2>2
<1>5. CASE UnlinkJson BY <1>5 DEF UnlinkJson
<1>6. CASE Labelled BY <1>6 DEF Labelled
<1>7. ASSUME NEW n \in Samples, NEW l \in Labels \cup {"other"}, Label(n, l)
      PROVE StoreInv'
  BY <1>7 DEF Label
<1>8. CASE CutShort BY <1>8 DEF CutShort
<1>9. CASE UNCHANGED storevars BY <1>9 DEF storevars
<1> QED BY <1>1, <1>2, <1>3, <1>4, <1>5, <1>6, <1>7, <1>8, <1>9
        DEF StoreNext, Store

LEMMA StoreHolds == StoreSpec => []StoreInv
<1>1. StoreInit => StoreInv
  BY WakeStoreAssumption DEF StoreInit, StoreInv, StoreTypes, JobTypes, FileInv,
     Samples, Labels, Idle
<1> QED BY <1>1, StoreStep, PTL DEF StoreSpec

----------------------------------------------------------------------------
(* The size of the store                                                    *)

(* A store that completes leaves Keep samples; one that is cut short leaves at most  *)
(* one more, until a rotation runs to its end (bot.py:900-914, 946-948).             *)
THEOREM StoreStaysBounded == StoreSpec => []StoreBounded
<1>1. StoreInit => StoreBounded
  <2> SUFFICES ASSUME StoreInit PROVE StoreBounded OBVIOUS
  <2>1. Wavs = {} BY DEF StoreInit, Wavs
  <2> QED BY <2>1, FS_EmptySet, WakeStoreAssumption DEF StoreInit, StoreBounded, Idle
<1>2. StoreInv /\ StoreBounded /\ [StoreNext]_storevars => StoreBounded'
  <2> SUFFICES ASSUME StoreInv, StoreBounded, [StoreNext]_storevars PROVE StoreBounded'
    OBVIOUS
  <2> DEFINE Held == Cardinality(Wavs)
  <2>1. /\ Held \in Nat /\ Keep \in Nat /\ slack \in Nat
        /\ Held <= Keep + slack + (IF job.op \in {"wav", "json", "rotate"} THEN 1 ELSE 0)
    BY Files, WakeStoreAssumption DEF StoreInv, StoreTypes, StoreBounded
  <2>2. CASE WriteWav
    <3>1. Wavs' = Wavs \cup {uploads'}
      BY <2>2, WakeStoreAssumption DEF WriteWav, Wavs, StoreInv, StoreTypes, Samples
    <3>2. Held' <= Held + 1 /\ Held' \in Nat
      <4>1. Cardinality(Wavs \cup {uploads'}) \in {Held, Held + 1}
        BY Files, FS_AddElement
      <4> QED BY <2>1, <3>1, <4>1
    <3>3. job.op = "idle" /\ job'.op = "wav" /\ slack' = slack
      BY <2>2 DEF WriteWav, Free, Idle, history
    <3> QED BY <2>1, <3>2, <3>3 DEF StoreBounded
  <2>3. CASE WriteJson \/ Written
    <3>1. Wavs' = Wavs BY <2>3 DEF WriteJson, Written, Wavs, StoreInv, StoreTypes, FileInv
    <3>2. job.op \in {"wav", "json"} /\ job'.op \in {"json", "rotate"} /\ slack' = slack
      BY <2>3 DEF WriteJson, Written, history
    <3> QED BY <2>1, <3>1, <3>2 DEF StoreBounded
  <2>4. CASE Rotate
    <3>1. CASE ~ (Held > Keep)
      <4>1. Wavs' = Wavs /\ slack' = 0 /\ job'.op = "idle"
        BY <2>4, <3>1 DEF Rotate, Wavs, Idle
      <4> QED BY <2>1, <3>1, <4>1 DEF StoreBounded
    <3>2. CASE Held > Keep
      <4>1. PICK n \in Samples : n = Victim(Wavs) /\ n \in Wavs BY <3>2, VictimListed
      <4>2. wav' = [wav EXCEPT ![n] = "none"] /\ slack' = slack /\ job'.op = "unlink"
        BY <2>4, <3>2, <4>1 DEF Rotate
      <4>3. Wavs' = Wavs \ {n} BY <4>2 DEF Wavs, StoreInv, StoreTypes
      <4>4. Held' = Held - 1 BY <4>1, <4>3, Files, FS_RemoveElement
      <4>5. job.op = "rotate" BY <2>4 DEF Rotate
      <4> QED BY <2>1, <4>2, <4>4, <4>5 DEF StoreBounded
    <3> QED BY <3>1, <3>2
  <2>5. CASE CutShort
    <3>1. Wavs' = Wavs /\ job'.op = "idle" BY <2>5 DEF CutShort, Wavs, Idle
    <3>2. slack' = IF job.op \in {"wav", "json", "rotate", "unlink"} THEN slack + 1 ELSE slack
      BY <2>5 DEF CutShort
    <3> QED BY <2>1, <3>1, <3>2 DEF StoreBounded
  <2>6. CASE UnlinkJson
    <3>1. Wavs' = Wavs /\ job'.op = "rotate" /\ slack' = slack
      BY <2>6 DEF UnlinkJson, Wavs, history
    <3> QED BY <2>1, <3>1 DEF StoreBounded
  <2>7. CASE \/ Labelled \/ UNCHANGED storevars
             \/ \E n \in Samples, l \in Labels \cup {"other"} : Label(n, l)
    <3>1. Wavs' = Wavs /\ slack' = slack
      BY <2>7 DEF Labelled, Label, storevars, files, history, Wavs
    <3>2. \/ job'.op = job.op
          \/ job.op \in {"idle", "label"} /\ job'.op \in {"idle", "label"}
      BY <2>7 DEF Labelled, Label, storevars, Free, Idle
    <3> QED BY <2>1, <3>1, <3>2 DEF StoreBounded
  <2> QED BY <2>2, <2>3, <2>4, <2>5, <2>6, <2>7 DEF StoreNext, Store
<1> QED BY StoreHolds, <1>1, <1>2, PTL DEF StoreSpec

(* Metrics that lost their audio, but for the ones being deleted.                    *)
Doomed  == IF job.op = "unlink" THEN {job.of} ELSE {}
Orphans == {n \in Jsons : wav[n] = "none"}
OrphanInv == Cardinality(Orphans \ Doomed) <= crashes

LEMMA OrphansFinite ==
  /\ IsFiniteSet(Orphans) /\ IsFiniteSet(Orphans \ Doomed)
  /\ Cardinality(Orphans) \in Nat /\ Cardinality(Orphans \ Doomed) \in Nat
  /\ Cardinality(Orphans)
       <= Cardinality(Orphans \ Doomed) + (IF job.op = "unlink" THEN 1 ELSE 0)
<1>1. Orphans \in SUBSET Jsons /\ Orphans \ Doomed \in SUBSET Jsons BY DEF Orphans
<1>2. IsFiniteSet(Orphans) /\ IsFiniteSet(Orphans \ Doomed) BY <1>1, Files, FS_Subset
<1>3. Cardinality(Orphans) \in Nat /\ Cardinality(Orphans \ Doomed) \in Nat
  BY <1>2, FS_CardinalityType
<1>4. CASE job.op = "unlink"
  <2>1. Orphans \ Doomed = Orphans \ {job.of} BY <1>4 DEF Doomed
  <2> QED BY <1>2, <1>3, <1>4, <2>1, FS_RemoveElement
<1>5. CASE job.op # "unlink"
  <2>1. Orphans \ Doomed = Orphans BY <1>5 DEF Doomed
  <2>2. Cardinality(Orphans \ Doomed) = Cardinality(Orphans) BY <2>1
  <2> QED BY <1>2, <1>3, <1>5, <2>2
<1> QED BY <1>2, <1>3, <1>4, <1>5

(* Every set of metrics without audio is owed to one interruption of its own, for any *)
(* number of them (bot.py:909-914, 1014-1022).                                        *)
THEOREM OrphansNeedCrash == StoreSpec => []OrphansOnlyByCrash
<1>1. StoreInit => OrphanInv
  <2> SUFFICES ASSUME StoreInit PROVE OrphanInv OBVIOUS
  <2>1. Orphans \ Doomed = {} BY DEF StoreInit, Orphans, Jsons
  <2> QED BY <2>1, FS_EmptySet DEF StoreInit, OrphanInv
<1>2. StoreInv /\ OrphanInv /\ [StoreNext]_storevars => OrphanInv'
  <2> SUFFICES ASSUME StoreInv, OrphanInv, [StoreNext]_storevars PROVE OrphanInv'
    OBVIOUS
  <2>1. /\ Cardinality(Orphans \ Doomed) <= crashes /\ crashes \in Nat
        /\ Cardinality(Orphans \ Doomed) \in Nat /\ Cardinality(Orphans) \in Nat
    BY OrphansFinite DEF OrphanInv, StoreInv, StoreTypes
  <2>2. CASE \/ WriteWav \/ WriteJson \/ Written \/ Labelled
             \/ \E n \in Samples, l \in Labels \cup {"other"} : Label(n, l)
    <3>1. (Orphans \ Doomed)' = Orphans \ Doomed /\ crashes' = crashes
      <4> USE DEF StoreInv, StoreTypes, JobTypes, FileInv, Samples, Jsons, Free, Idle,
            files, history, Orphans, Doomed
      <4>1. CASE WriteWav BY <4>1, WakeStoreAssumption DEF WriteWav
      <4>2. CASE WriteJson BY <4>2 DEF WriteJson
      <4>3. CASE Written BY <4>3 DEF Written
      <4>4. CASE Labelled BY <4>4 DEF Labelled
      <4>5. ASSUME NEW n \in Samples, NEW l \in Labels \cup {"other"}, Label(n, l)
            PROVE  (Orphans \ Doomed)' = Orphans \ Doomed /\ crashes' = crashes
        <5>1. meta[n] # "none" /\ meta' = [meta EXCEPT ![n] = "begun"] /\ wav' = wav
          BY <4>5 DEF Label
        <5>2. job.op = "idle" /\ job'.op = "label" /\ crashes' = crashes
          BY <4>5 DEF Label
        <5> QED BY <5>1, <5>2
      <4> QED BY <2>2, <4>1, <4>2, <4>3, <4>4, <4>5
    <3> QED BY <2>1, <3>1 DEF OrphanInv
  <2>3. CASE Rotate
    <3>1. (Orphans \ Doomed)' = Orphans \ Doomed /\ crashes' = crashes
      <4>1. CASE ~ (Cardinality(Wavs) > Keep)
        BY <2>3, <4>1 DEF Rotate, Orphans, Jsons, Doomed, Idle
      <4>2. CASE Cardinality(Wavs) > Keep
        <5>1. PICK n \in Samples : n = Victim(Wavs) /\ n \in Wavs BY <4>2, VictimListed
        <5>2. /\ wav' = [wav EXCEPT ![n] = "none"] /\ meta' = meta
              /\ job' = [op |-> "unlink", of |-> n] /\ job.op = "rotate"
              /\ crashes' = crashes
          BY <2>3, <4>2, <5>1 DEF Rotate
        <5>3. wav[n] # "none" BY <5>1 DEF Wavs
        <5> QED BY <5>2, <5>3 DEF Orphans, Jsons, Doomed, StoreInv, StoreTypes
      <4> QED BY <4>1, <4>2
    <3> QED BY <2>1, <3>1 DEF OrphanInv
  <2>4. CASE UnlinkJson
    <3>1. (Orphans \ Doomed)' = Orphans \ Doomed /\ crashes' = crashes
      BY <2>4 DEF UnlinkJson, Orphans, Jsons, Doomed, StoreInv, StoreTypes, JobTypes, history
    <3> QED BY <2>1, <3>1 DEF OrphanInv
  <2>5. CASE CutShort
    <3>1. (Orphans \ Doomed)' = Orphans /\ crashes' = crashes + 1
      BY <2>5 DEF CutShort, Orphans, Jsons, Doomed, Idle
    <3> QED BY <2>1, <3>1, OrphansFinite DEF OrphanInv
  <2>6. CASE UNCHANGED storevars
    <3>1. (Orphans \ Doomed)' = Orphans \ Doomed /\ crashes' = crashes
      BY <2>6 DEF storevars, files, history, Orphans, Jsons, Doomed
    <3> QED BY <2>1, <3>1 DEF OrphanInv
  <2> QED BY <2>2, <2>3, <2>4, <2>5, <2>6 DEF StoreNext, Store
<1>3. StoreInv /\ OrphanInv => OrphansOnlyByCrash
  <2> SUFFICES ASSUME StoreInv, OrphanInv PROVE OrphansOnlyByCrash OBVIOUS
  <2>1. Cardinality(Orphans) <= crashes + (IF job.op = "unlink" THEN 1 ELSE 0)
    BY OrphansFinite DEF OrphanInv, StoreInv, StoreTypes
  <2> QED BY <2>1 DEF OrphansOnlyByCrash, Orphans
<1> QED BY StoreHolds, <1>1, <1>2, <1>3, PTL DEF StoreSpec
----------------------------------------------------------------------------
(* What a rotation may not delete                                           *)

\* The last Keep uploads have their audio, whole or in the making.
NewestKept == \A n \in Samples : n <= uploads /\ uploads < n + Keep => wav[n] # "none"

(* The oldest sample of a listing is no later than any other, so one of more than   *)
(* Keep is older than the last Keep uploads.                                        *)
LEMMA VictimIsOld ==
  ASSUME StoreInv, Cardinality(Wavs) > Keep, NEW n \in Samples, n = Victim(Wavs), n \in Wavs
  PROVE  n + Keep <= uploads
<1>1. n \in Nat /\ uploads \in Nat /\ Keep \in Nat /\ n <= uploads
  BY WakeStoreAssumption DEF StoreInv, StoreTypes, FileInv, Wavs, Samples
<1>2. ASSUME NEW k \in Wavs PROVE n <= k /\ k <= uploads /\ k \in Nat
  <2>1. k \in Samples /\ wav[k] # "none" BY DEF Wavs
  <2>2. k <= uploads /\ k \in Nat
    BY <2>1, WakeStoreAssumption DEF StoreInv, StoreTypes, FileInv, Samples
  <2>3. PICK m \in Wavs : \A j \in Wavs : m <= j
    <3> DEFINE Less == OpToRel(<, Nat)
    <3>1. Wavs \subseteq Nat BY WakeStoreAssumption DEF Wavs, Samples
    <3>2. PICK m \in Wavs : \A j \in Wavs : <<j, m>> \notin Less
      BY <3>1, NatLessThanWellFounded, WFMin
    <3>3. ASSUME NEW j \in Wavs PROVE m <= j
      <4>1. <<j, m>> \in Nat \X Nat /\ <<j, m>>[1] = j /\ <<j, m>>[2] = m BY <3>1
      <4>2. ~ (j < m) BY <3>2, <4>1 DEF OpToRel
      <4> QED BY <3>1, <4>2
    <3> QED BY <3>3
  <2>4. \A j \in Wavs : n <= j BY <2>3 DEF Victim, Oldest
  <2> QED BY <2>2, <2>4
<1>3. Wavs \subseteq n .. uploads
  <2> SUFFICES ASSUME NEW k \in Wavs PROVE k \in n .. uploads OBVIOUS
  <2> QED BY <1>1, <1>2
<1>4. IsFiniteSet(n .. uploads) /\ Cardinality(n .. uploads) = uploads - n + 1
  BY <1>1, FS_Interval
<1>5. Cardinality(Wavs) <= Cardinality(n .. uploads)
  <2>1. Wavs \in SUBSET (n .. uploads) BY <1>3
  <2> QED BY <1>4, <2>1, FS_Subset
<1> QED BY <1>1, <1>4, <1>5, Files

(* The newest Keep samples survive every rotation, also those that find what several  *)
(* interrupted ones left behind: no upload is rotated away before Keep later ones     *)
(* (bot.py:900-914, 946-948).  With StoreStaysBounded: a store that completes leaves   *)
(* exactly the newest.                                                                *)
THEOREM NewestSurvive == StoreSpec => []NewestKept
<1>1. StoreInit => NewestKept BY WakeStoreAssumption DEF StoreInit, NewestKept, Samples
<1>2. StoreInv /\ NewestKept /\ [StoreNext]_storevars => NewestKept'
  <2> SUFFICES ASSUME StoreInv, NewestKept, [StoreNext]_storevars,
                      NEW n \in Samples, n <= uploads', uploads' < n + Keep
               PROVE  wav'[n] # "none"
    BY DEF NewestKept
  <2>0. /\ n \in Nat /\ uploads \in Nat /\ Keep \in Nat
        /\ wav \in [Samples -> {"none", "begun", "whole"}]
    BY WakeStoreAssumption DEF StoreInv, StoreTypes, Samples
  <2>1. CASE WriteWav
    <3>1. uploads' = uploads + 1 /\ wav' = [wav EXCEPT ![uploads + 1] = "begun"]
      BY <2>1 DEF WriteWav
    <3>2. CASE n = uploads + 1 BY <2>0, <3>1, <3>2
    <3>3. CASE n # uploads + 1
      <4>1. n <= uploads /\ uploads < n + Keep BY <2>0, <3>1, <3>3
      <4> QED BY <2>0, <3>1, <3>3, <4>1 DEF NewestKept
    <3> QED BY <3>2, <3>3
  <2>2. CASE WriteJson
    <3>1. uploads' = uploads /\ wav' = [wav EXCEPT ![job.of] = "whole"] BY <2>2 DEF WriteJson
    <3>2. wav[n] # "none" BY <2>0, <3>1 DEF NewestKept
    <3> QED BY <2>0, <3>1, <3>2
  <2>3. CASE Rotate
    <3>1. uploads' = uploads BY <2>3 DEF Rotate
    <3>2. wav[n] # "none" BY <2>0, <3>1 DEF NewestKept
    <3>3. CASE ~ (Cardinality(Wavs) > Keep) BY <2>3, <3>2, <3>3 DEF Rotate
    <3>4. CASE Cardinality(Wavs) > Keep
      <4>1. PICK v \in Samples : v = Victim(Wavs) /\ v \in Wavs BY <3>4, VictimListed
      <4>2. v + Keep <= uploads BY <3>4, <4>1, VictimIsOld
      <4>3. v \in Nat BY WakeStoreAssumption DEF Samples
      <4>4. n # v BY <2>0, <3>1, <4>2, <4>3
      <4>5. wav' = [wav EXCEPT ![v] = "none"] BY <2>3, <3>4, <4>1 DEF Rotate
      <4> QED BY <2>0, <3>2, <4>4, <4>5
    <3> QED BY <3>3, <3>4
  <2>4. CASE \/ Written \/ UnlinkJson \/ Labelled \/ CutShort \/ UNCHANGED storevars
             \/ \E k \in Samples, l \in Labels \cup {"other"} : Label(k, l)
    <3>1. wav' = wav /\ uploads' = uploads
      BY <2>4 DEF Written, UnlinkJson, Labelled, CutShort, Label,
                  storevars, files
    <3> QED BY <2>0, <3>1 DEF NewestKept
  <2> QED BY <2>1, <2>2, <2>3, <2>4 DEF StoreNext, Store
<1> QED BY StoreHolds, <1>1, <1>2, PTL DEF StoreSpec

----------------------------------------------------------------------------
(* The corpus                                                               *)

(* The tool changes nothing of the store: what holds of the backend alone holds of it *)
(* with the tool beside it.                                                           *)
LEMMA ToolsOnlyRead == CorpusSpec => StoreSpec
<1>1. CorpusInit => StoreInit BY DEF CorpusInit
<1>2. [CorpusNext]_corpusvars => [StoreNext]_storevars
  BY Zenon DEF CorpusNext, corpusvars
<1> QED BY <1>1, <1>2, PTL DEF CorpusSpec, StoreSpec

Dirs  == Verdicts \cup {"inbox"}
Grade == {"none", "begun", "whole"}

ToolTypes ==
  /\ todo \in SUBSET (Samples \X Dirs)
  /\ pen = Idle \/ pen \in [op : {"write"}, of : Samples, to : Dirs, got : {"begun", "whole"}]
  /\ taken \in [Samples -> Grade] /\ sorted \in [Samples -> Dirs]
  /\ corpus \in [Verdicts -> [Samples -> Grade]]
  /\ cuts \in Nat

(* What sync lists was labelled, so whole, and is whole or gone since; what fetch lists *)
(* has no copy, and only a copy can be sorted. What is staged incomplete lies where it  *)
(* was sorted.                                                                          *)
ToolInv ==
  /\ \A s \in todo :
       /\ s[1] <= uploads
       /\ s[2] = "inbox" => taken[s[1]] = "none"
       /\ s[2] # "inbox" => wav[s[1]] # "begun"
  /\ \A n \in Samples : taken[n] = "none" => sorted[n] = "inbox"
  /\ pen # Idle /\ pen.to = "inbox" => sorted[pen.of] = "inbox" /\ taken[pen.of] = "begun"
  /\ pen # Idle /\ pen.to # "inbox" /\ pen.got = "begun" =>
       sorted[pen.of] = pen.to /\ taken[pen.of] = "begun"

Writing(n, to) == pen # Idle /\ pen.of = n /\ pen.to = to

(* Samples whose audio stays incomplete, and copies that do or will.                    *)
Torn    == {n \in Samples : wav[n] = "begun" /\ ~ (job.op = "wav" /\ job.of = n)}
Blotted == {n \in Samples : \/ taken[n] = "begun" /\ ~ Writing(n, "inbox")
                            \/ Writing(n, "inbox") /\ pen.got = "begun"}
Spoilt  == Torn \cup Blotted

(* What a write cut short has left, and the place in the corpus it can still come to.   *)
Owed == TornClips \cup {<<sorted[n], n>> : n \in Spoilt}
OwedInv == IsFiniteSet(Owed) /\ Cardinality(Owed) <= crashes + cuts

CorpusInv == StoreInv /\ ToolTypes /\ ToolInv /\ OwedInv

(* Adding at most one thing for one more interruption, or putting one in the place of   *)
(* another, keeps a set within its count.                                               *)
LEMMA CountedSet ==
  ASSUME NEW A, NEW B, NEW k \in Nat, NEW l \in Nat, NEW x, NEW y,
         IsFiniteSet(A), Cardinality(A) <= k,
         \/ B \subseteq A /\ l >= k
         \/ B \subseteq A \cup {x} /\ l = k + 1
         \/ x \in A /\ B \subseteq (A \ {x}) \cup {y} /\ l = k
  PROVE  IsFiniteSet(B) /\ Cardinality(B) <= l
<1>1. Cardinality(A) \in Nat BY FS_CardinalityType
<1>2. CASE B \subseteq A /\ l >= k
  <2>1. IsFiniteSet(B) /\ Cardinality(B) <= Cardinality(A) BY <1>1, <1>2, FS_Subset
  <2>2. Cardinality(B) \in Nat BY <2>1, FS_CardinalityType
  <2> QED BY <1>1, <1>2, <2>1, <2>2
<1>3. CASE B \subseteq A \cup {x} /\ l = k + 1
  <2>1. IsFiniteSet(A \cup {x}) /\ Cardinality(A \cup {x}) \in {Cardinality(A), Cardinality(A) + 1}
    BY <1>1, FS_AddElement
  <2>2. IsFiniteSet(B) /\ Cardinality(B) <= Cardinality(A \cup {x})
    BY <1>3, <2>1, FS_Subset
  <2>3. Cardinality(B) \in Nat BY <2>2, FS_CardinalityType
  <2> QED BY <1>1, <1>3, <2>1, <2>2, <2>3
<1>4. CASE x \in A /\ B \subseteq (A \ {x}) \cup {y} /\ l = k
  <2>1. IsFiniteSet(A \ {x}) /\ Cardinality(A \ {x}) = Cardinality(A) - 1
    BY <1>1, <1>4, FS_RemoveElement
  <2>2. /\ IsFiniteSet((A \ {x}) \cup {y})
        /\ Cardinality((A \ {x}) \cup {y}) \in {Cardinality(A \ {x}), Cardinality(A \ {x}) + 1}
    BY <2>1, FS_AddElement
  <2>3. IsFiniteSet(B) /\ Cardinality(B) <= Cardinality((A \ {x}) \cup {y})
    BY <1>4, <2>2, FS_Subset
  <2>4. Cardinality(B) \in Nat BY <2>3, FS_CardinalityType
  <2> QED BY <1>1, <1>4, <2>1, <2>2, <2>3, <2>4
<1> QED BY <1>2, <1>3, <1>4

LEMMA OwedKept ==
  ASSUME StoreTypes, ToolTypes, OwedInv, StoreTypes', ToolTypes', NEW x, NEW y,
         \/ Owed' \subseteq Owed /\ crashes' + cuts' >= crashes + cuts
         \/ Owed' \subseteq Owed \cup {x} /\ crashes' + cuts' = crashes + cuts + 1
         \/ x \in Owed /\ Owed' \subseteq (Owed \ {x}) \cup {y} /\ crashes' + cuts' = crashes + cuts
  PROVE  OwedInv'
<1>1. crashes + cuts \in Nat /\ crashes' + cuts' \in Nat
  <2>1. crashes \in Nat /\ crashes' \in Nat BY DEF StoreTypes
  <2>2. cuts \in Nat /\ cuts' \in Nat BY DEF ToolTypes
  <2>3. \A a, b \in Nat : a + b \in Nat OBVIOUS
  <2> QED BY <2>1, <2>2, <2>3, Zenon
<1>2. IsFiniteSet(Owed) /\ Cardinality(Owed) <= crashes + cuts BY DEF OwedInv
<1>3. IsFiniteSet(Owed') /\ Cardinality(Owed') <= crashes' + cuts'
  BY <1>1, <1>2, CountedSet
<1> QED BY <1>3 DEF OwedInv

(* A set of samples and of torn clips that does not grow owes no more.                  *)
LEMMA OwedShrinks ==
  ASSUME Spoilt' \subseteq Spoilt, sorted' = sorted, TornClips' \subseteq Owed
  PROVE  Owed' \subseteq Owed
BY DEF Owed

(* The backend leaves the audio of a sample incomplete only when it is cut short.       *)
LEMMA StoreTears ==
  ASSUME StoreInv, [StoreNext]_storevars
  PROVE  /\ uploads' >= uploads
         /\ \A n \in Samples : n <= uploads /\ wav'[n] = "begun" => wav[n] = "begun"
         /\ \/ Torn' \subseteq Torn /\ crashes' = crashes
            \/ Torn' \subseteq Torn \cup {job.of} /\ crashes' = crashes + 1
<1> USE WakeStoreAssumption DEF StoreInv, StoreTypes, JobTypes, FileInv, Torn,
      Samples, Free, Idle, files, history
<1>1. CASE WriteWav BY <1>1 DEF WriteWav
<1>2. CASE WriteJson BY <1>2 DEF WriteJson
<1>3. CASE Written BY <1>3 DEF Written
<1>4. CASE Rotate
  <2>1. CASE ~ (Cardinality(Wavs) > Keep) BY <1>4, <2>1 DEF Rotate
  <2>2. CASE Cardinality(Wavs) > Keep
    <3>1. PICK n \in Samples : n = Victim(Wavs) /\ n \in Wavs BY <2>2, VictimListed
    <3>2. /\ wav' = [wav EXCEPT ![n] = "none"] /\ job.op = "rotate"
          /\ uploads' = uploads /\ crashes' = crashes
      BY <1>4, <2>2, <3>1 DEF Rotate
    <3> QED BY <3>2
  <2> QED BY <2>1, <2>2
<1>5. CASE UnlinkJson BY <1>5 DEF UnlinkJson
<1>6. CASE Labelled BY <1>6 DEF Labelled
<1>7. ASSUME NEW n \in Samples, NEW l \in Labels \cup {"other"}, Label(n, l)
      PROVE  wav' = wav /\ uploads' = uploads /\ crashes' = crashes /\ Torn' \subseteq Torn
  BY <1>7 DEF Label
<1>8. CASE CutShort BY <1>8 DEF CutShort
<1>9. CASE UNCHANGED storevars BY <1>9 DEF storevars
<1> QED BY <1>1, <1>2, <1>3, <1>4, <1>5, <1>6, <1>7, <1>8, <1>9 DEF StoreNext, Store

LEMMA StoreKeepsCorpus ==
  ASSUME CorpusInv, [StoreNext]_storevars, UNCHANGED tools
  PROVE  CorpusInv'
<1>0. StoreInv /\ ToolTypes /\ ToolInv /\ OwedInv BY DEF CorpusInv
<1>1. StoreInv' BY <1>0, StoreStep
<1>2. UNCHANGED <<todo, pen, taken, sorted, corpus, cuts>> BY DEF tools
<1>3. ToolTypes' BY <1>0, <1>2 DEF ToolTypes
<1>4. ToolInv'
  <2>1. uploads \in Nat /\ uploads' \in Nat /\ uploads' >= uploads
    BY <1>0, <1>1, StoreTears DEF StoreInv, StoreTypes
  <2>2. ASSUME NEW s \in todo
        PROVE  /\ s[1] <= uploads' /\ (s[2] = "inbox" => taken[s[1]] = "none")
               /\ (s[2] # "inbox" => wav'[s[1]] # "begun")
    <3>1. s[1] \in Samples /\ s[1] \in Nat BY <1>0, WakeStoreAssumption DEF ToolTypes, Samples
    <3>2. s[1] <= uploads /\ (s[2] = "inbox" => taken[s[1]] = "none")
          /\ (s[2] # "inbox" => wav[s[1]] # "begun")
      BY <1>0 DEF ToolInv
    <3>3. wav'[s[1]] = "begun" => wav[s[1]] = "begun" BY <1>0, <3>1, <3>2, StoreTears
    <3> QED BY <2>1, <3>1, <3>2, <3>3
  <2> QED BY <1>0, <1>2, <2>2 DEF ToolInv
<1>5. OwedInv'
  <2>1. Blotted' = Blotted /\ TornClips' = TornClips BY <1>2 DEF Blotted, Writing, TornClips
  <2>2. CASE Torn' \subseteq Torn /\ crashes' = crashes
    <3>1. Owed' \subseteq Owed BY <1>2, <2>1, <2>2 DEF Owed, Spoilt
    <3>2. crashes' + cuts' >= crashes + cuts
      BY <1>0, <1>2, <2>2 DEF StoreInv, StoreTypes, ToolTypes
    <3> QED BY <1>0, <1>1, <1>3, <3>1, <3>2, OwedKept DEF StoreInv
  <2>3. CASE Torn' \subseteq Torn \cup {job.of} /\ crashes' = crashes + 1
    <3>1. Owed' \subseteq Owed \cup {<<sorted[job.of], job.of>>}
      BY <1>2, <2>1, <2>3 DEF Owed, Spoilt
    <3>2. crashes' + cuts' = crashes + cuts + 1
      BY <1>0, <1>2, <2>3 DEF StoreInv, StoreTypes, ToolTypes
    <3> QED BY <1>0, <1>1, <1>3, <3>1, <3>2, OwedKept DEF StoreInv
  <2> QED BY <1>0, <2>2, <2>3, StoreTears
<1> QED BY <1>1, <1>3, <1>4, <1>5 DEF CorpusInv

(* What the tool does to the files it writes.                                           *)
LEMMA ToolTypesKeep ==
  ASSUME StoreTypes, ToolTypes, ToolInv, Tools, UNCHANGED storevars
  PROVE  ToolTypes'
<1> USE WakeCorpusAssumption DEF ToolTypes, Dirs, Grade
<1>1. CASE SyncLists
  <2>1. todo' \subseteq Samples \X Dirs BY <1>1 DEF SyncLists, Wavs
  <2> QED BY <1>1, <2>1 DEF SyncLists
<1>2. CASE FetchLists
  <2>1. todo' \subseteq Samples \X Dirs BY <1>2 DEF FetchLists, Wavs
  <2> QED BY <1>2, <2>1 DEF FetchLists
<1>3. CASE Downloads
  <2>1. PICK next \in todo : /\ wav[next[1]] # "none" /\ todo' = todo \ {next}
                             /\ Opens(next[1], next[2], wav[next[1]])
    BY <1>3 DEF Downloads
  <2>2. next[1] \in Samples /\ next[2] \in Dirs /\ wav[next[1]] \in {"begun", "whole"}
    BY <2>1 DEF StoreTypes
  <2> QED BY <1>3, <2>1, <2>2 DEF Downloads, Opens
<1>4. CASE Abandons BY <1>4 DEF Abandons
<1>5. CASE Closes BY <1>5 DEF Closes
<1>6. CASE ToolCut BY <1>6 DEF ToolCut
<1>7. ASSUME NEW n \in Samples, Stages(n) PROVE ToolTypes' BY <1>7 DEF Stages, Opens
<1>8. ASSUME NEW n \in Samples, NEW v \in Verdicts, Sorts(n, v) PROVE ToolTypes'
  BY <1>8 DEF Sorts
<1> QED BY <1>1, <1>2, <1>3, <1>4, <1>5, <1>6, <1>7, <1>8 DEF Tools

LEMMA ToolInvKeeps ==
  ASSUME StoreInv, ToolTypes, ToolInv, Tools, UNCHANGED storevars
  PROVE  ToolInv'
<1> USE WakeCorpusAssumption DEF ToolTypes, ToolInv, Dirs, Grade, storevars, files
<1>1. CASE SyncLists
  <2>1. UNCHANGED <<pen, taken, sorted, wav, uploads>> BY <1>1 DEF SyncLists
  <2>2. ASSUME NEW s \in todo'
        PROVE  s[1] <= uploads /\ s[2] # "inbox" /\ wav[s[1]] # "begun"
    <3>1. /\ s[1] \in Samples /\ s[2] \in Verdicts
          /\ wav[s[1]] # "none" /\ meta[s[1]] \in {"bare", "full"}
      BY <1>1 DEF SyncLists, Wavs
    <3> QED BY <3>1, WakeStoreAssumption DEF StoreInv, StoreTypes, FileInv, Samples
  <2> QED BY <2>1, <2>2
<1>2. CASE FetchLists
  <2>1. UNCHANGED <<pen, taken, sorted, wav, uploads>> BY <1>2 DEF FetchLists
  <2>2. ASSUME NEW s \in todo'
        PROVE  s[1] <= uploads /\ s[2] = "inbox" /\ taken[s[1]] = "none"
    <3>1. s[1] \in Samples /\ s[2] = "inbox" /\ wav[s[1]] # "none" /\ taken[s[1]] = "none"
      BY <1>2 DEF FetchLists, Wavs
    <3> QED BY <3>1, WakeStoreAssumption DEF StoreInv, StoreTypes, FileInv, Samples
  <2> QED BY <2>1, <2>2
<1>3. CASE Downloads
  <2>1. PICK next \in todo : /\ wav[next[1]] # "none" /\ todo' = todo \ {next}
                             /\ Opens(next[1], next[2], wav[next[1]])
    BY <1>3 DEF Downloads
  <2>2. UNCHANGED <<sorted, wav, uploads>> BY <1>3 DEF Downloads
  <2>3. next[1] \in Samples /\ next[2] \in Dirs BY <2>1
  <2>4. CASE next[2] = "inbox"
    <3>1. /\ taken' = [taken EXCEPT ![next[1]] = "begun"]
          /\ pen'.of = next[1] /\ pen'.to = "inbox"
      BY <2>1, <2>4 DEF Opens
    <3>2. sorted[next[1]] = "inbox" BY <2>1, <2>3, <2>4
    <3>3. \A s \in todo' : s[2] = "inbox" => s[1] # next[1]
      BY <2>1, <2>4
    <3> QED BY <2>1, <2>2, <2>3, <2>4, <3>1, <3>2, <3>3
  <2>5. CASE next[2] # "inbox"
    <3>1. taken' = taken /\ pen'.to # "inbox" /\ pen'.got # "begun"
      BY <2>1, <2>5 DEF Opens
    <3> QED BY <2>1, <2>2, <3>1
  <2> QED BY <2>4, <2>5
<1>4. CASE Abandons BY <1>4 DEF Abandons
<1>5. CASE Closes
  <2>1. UNCHANGED <<todo, sorted, wav, uploads>> /\ pen' = Idle /\ pen # Idle
    BY <1>5 DEF Closes
  <2>2. CASE pen.to = "inbox"
    <3>1. taken' = [taken EXCEPT ![pen.of] = pen.got] /\ pen.of \in Samples
      BY <1>5, <2>1, <2>2 DEF Closes
    <3> QED BY <2>1, <2>2, <3>1
  <2>3. CASE pen.to # "inbox"
    <3>1. taken' = taken BY <1>5, <2>3 DEF Closes
    <3> QED BY <2>1, <3>1
  <2> QED BY <2>2, <2>3
<1>6. CASE ToolCut BY <1>6 DEF ToolCut
<1>7. ASSUME NEW n \in Samples, Stages(n) PROVE ToolInv'
  <2>1. UNCHANGED <<todo, sorted, wav, uploads>> /\ sorted[n] # "inbox" /\ taken' = taken
    BY <1>7 DEF Stages, Opens
  <2>2. pen' = [op |-> "write", of |-> n, to |-> sorted[n], got |-> taken[n]]
    BY <1>7 DEF Stages, Opens
  <2> QED BY <2>1, <2>2
<1>8. ASSUME NEW n \in Samples, NEW v \in Verdicts, Sorts(n, v) PROVE ToolInv'
  BY <1>8 DEF Sorts, AtPrompt
<1> QED BY <1>1, <1>2, <1>3, <1>4, <1>5, <1>6, <1>7, <1>8 DEF Tools

(* Only a write that is cut short adds to what is owed; a clip that is sorted moves.    *)
LEMMA ToolOwes ==
  ASSUME StoreInv, ToolTypes, ToolInv, Tools, UNCHANGED storevars
  PROVE  \/ Owed' \subseteq Owed /\ cuts' = cuts
         \/ \E x : Owed' \subseteq Owed \cup {x} /\ cuts' = cuts + 1
         \/ \E x \in Owed : \E y : Owed' \subseteq (Owed \ {x}) \cup {y} /\ cuts' = cuts
<1>0. Torn' = Torn BY DEF Torn, storevars, files
<1>1. CASE SyncLists \/ FetchLists \/ Abandons
  <2>1. UNCHANGED <<pen, taken, sorted, corpus, cuts>>
    BY <1>1 DEF SyncLists, FetchLists, Abandons
  <2>2. Blotted' = Blotted /\ TornClips' = TornClips
    BY <2>1 DEF Blotted, Writing, TornClips
  <2> QED BY <1>0, <2>1, <2>2 DEF Owed, Spoilt
<1>2. CASE Downloads
  <2>1. PICK next \in todo : /\ wav[next[1]] # "none"
                             /\ Opens(next[1], next[2], wav[next[1]])
    BY <1>2 DEF Downloads
  <2>2. UNCHANGED <<sorted, cuts>> /\ pen = Idle /\ job = Idle BY <1>2 DEF Downloads, Free
  <2>3. next[1] \in Samples /\ next[2] \in Dirs BY <2>1 DEF ToolTypes
  <2>4. pen' = [op |-> "write", of |-> next[1], to |-> next[2], got |-> wav[next[1]]]
    BY <2>1 DEF Opens
  <2>5. CASE next[2] = "inbox"
    <3>1. corpus' = corpus /\ taken' = [taken EXCEPT ![next[1]] = "begun"]
      BY <2>1, <2>5 DEF Opens
    <3>2. TornClips' \subseteq TornClips
      BY <2>2, <2>4, <2>5, <3>1, WakeCorpusAssumption DEF TornClips
    <3>3. Spoilt' \subseteq Spoilt
      BY <1>0, <2>2, <2>3, <2>4, <2>5, <3>1
      DEF Spoilt, Torn, Blotted, Writing, ToolTypes, Idle
    <3> QED BY <2>2, <3>2, <3>3, OwedShrinks DEF Owed
  <2>6. CASE next[2] # "inbox"
    <3>1. taken' = taken /\ corpus' = [corpus EXCEPT ![next[2]][next[1]] = "begun"]
      BY <2>1, <2>6 DEF Opens
    <3>2. TornClips' \subseteq TornClips
      BY <2>2, <2>3, <2>4, <2>6, <3>1 DEF TornClips, ToolTypes, Idle, Dirs
    <3>3. Blotted' \subseteq Blotted
      BY <2>2, <2>4, <2>6, <3>1 DEF Blotted, Writing, Idle
    <3> QED BY <1>0, <2>2, <3>2, <3>3 DEF Owed, Spoilt
  <2> QED BY <2>5, <2>6
<1>3. CASE Closes
  <2>1. UNCHANGED <<sorted, cuts>> /\ pen' = Idle /\ pen # Idle BY <1>3 DEF Closes
  <2>2. pen.of \in Samples /\ pen.to \in Dirs /\ pen.got \in {"begun", "whole"}
    BY <2>1 DEF ToolTypes
  <2>3. CASE pen.to = "inbox"
    <3>1. corpus' = corpus /\ taken' = [taken EXCEPT ![pen.of] = pen.got]
      BY <1>3, <2>3 DEF Closes
    <3>2. TornClips' \subseteq TornClips
      BY <2>1, <2>3, <3>1, WakeCorpusAssumption DEF TornClips
    <3>3. Blotted' \subseteq Blotted
      BY <2>1, <2>2, <2>3, <3>1 DEF Blotted, Writing, ToolTypes
    <3> QED BY <1>0, <2>1, <3>2, <3>3 DEF Owed, Spoilt
  <2>4. CASE pen.to # "inbox"
    <3>1. taken' = taken /\ corpus' = [corpus EXCEPT ![pen.to][pen.of] = pen.got]
      BY <1>3, <2>4 DEF Closes
    <3>2. Blotted' \subseteq Blotted BY <2>1, <2>4, <3>1 DEF Blotted, Writing
    <3>3. ASSUME NEW c \in TornClips' PROVE c \in Owed
      <4>1. /\ c \in Verdicts \X Samples /\ c[1] \in Verdicts /\ c[2] \in Samples
            /\ c = <<c[1], c[2]>> /\ corpus'[c[1]][c[2]] = "begun"
        BY <2>1, <3>3 DEF TornClips
      <4>2. CASE c[1] = pen.to /\ c[2] = pen.of
        <5>1. pen.got = "begun" BY <2>2, <3>1, <4>1, <4>2 DEF ToolTypes
        <5>2. sorted[c[2]] = c[1] /\ taken[c[2]] = "begun"
          BY <2>1, <2>4, <4>2, <5>1 DEF ToolInv
        <5>3. c[2] \in Spoilt BY <2>4, <4>1, <5>2 DEF Spoilt, Blotted, Writing
        <5> QED BY <4>1, <5>2, <5>3 DEF Owed
      <4>3. CASE ~ (c[1] = pen.to /\ c[2] = pen.of)
        <5>1. corpus[c[1]][c[2]] = "begun" BY <3>1, <4>1, <4>3 DEF ToolTypes
        <5> QED BY <4>1, <4>3, <5>1 DEF Owed, TornClips
      <4> QED BY <4>2, <4>3
    <3> QED BY <1>0, <2>1, <3>2, <3>3, OwedShrinks DEF Spoilt
  <2> QED BY <2>3, <2>4
<1>4. CASE ToolCut
  <2>1. UNCHANGED <<taken, sorted, corpus>> /\ pen' = Idle /\ pen # Idle /\ cuts' = cuts + 1
    BY <1>4 DEF ToolCut
  <2>2. pen.to = "inbox" => sorted[pen.of] = "inbox" BY <2>1 DEF ToolInv
  <2>3. TornClips' \subseteq TornClips \cup {<<pen.to, pen.of>>}
    BY <2>1 DEF TornClips
  <2>4. Blotted' \subseteq Blotted \cup (IF pen.to = "inbox" THEN {pen.of} ELSE {})
    BY <2>1 DEF Blotted, Writing
  <2>5. Owed' \subseteq Owed \cup {<<pen.to, pen.of>>}
    BY <1>0, <2>1, <2>2, <2>3, <2>4 DEF Owed, Spoilt
  <2> QED BY <2>1, <2>5
<1>5. ASSUME NEW n \in Samples, Stages(n) PROVE Owed' \subseteq Owed /\ cuts' = cuts
  <2>1. /\ UNCHANGED <<sorted, cuts>> /\ taken' = taken /\ pen = Idle
        /\ sorted[n] # "inbox" /\ sorted[n] \in Verdicts
        /\ corpus' = [corpus EXCEPT ![sorted[n]][n] = "begun"]
        /\ pen' = [op |-> "write", of |-> n, to |-> sorted[n], got |-> taken[n]]
    BY <1>5 DEF Stages, Opens, AtPrompt, ToolTypes, Dirs
  <2>2. Blotted' \subseteq Blotted BY <2>1 DEF Blotted, Writing, Idle
  <2>3. TornClips' \subseteq TornClips BY <2>1 DEF TornClips, ToolTypes, Idle
  <2> QED BY <1>0, <2>1, <2>2, <2>3 DEF Owed, Spoilt
<1>6. ASSUME NEW n \in Samples, NEW v \in Verdicts, Sorts(n, v)
      PROVE  /\ cuts' = cuts
             /\ \/ Owed' \subseteq Owed
                \/ \E x \in Owed : \E y : Owed' \subseteq (Owed \ {x}) \cup {y}
  <2>1. /\ UNCHANGED <<pen, taken, corpus, cuts>> /\ sorted[n] = "inbox"
        /\ sorted' = [sorted EXCEPT ![n] = v]
    BY <1>6 DEF Sorts
  <2>2. Blotted' = Blotted /\ TornClips' = TornClips BY <2>1 DEF Blotted, Writing, TornClips
  <2>3. Spoilt' = Spoilt BY <1>0, <2>2 DEF Spoilt
  <2>4. \A k \in Spoilt : k # n => sorted'[k] = sorted[k]
    BY <2>1 DEF ToolTypes, Spoilt, Torn, Blotted
  <2>5. <<"inbox", n>> \notin TornClips BY WakeCorpusAssumption DEF TornClips
  <2>6. CASE n \in Spoilt
    <3>1. <<"inbox", n>> \in Owed BY <2>1, <2>6 DEF Owed
    <3>2. ASSUME NEW c \in Owed' PROVE c \in (Owed \ {<<"inbox", n>>}) \cup {<<v, n>>}
      <4>1. CASE c \in TornClips BY <2>5, <4>1 DEF Owed
      <4>2. ASSUME NEW k \in Spoilt, c = <<sorted'[k], k>>
            PROVE  c \in (Owed \ {<<"inbox", n>>}) \cup {<<v, n>>}
        <5>1. CASE k = n
          <6>1. sorted'[n] = v BY <2>1 DEF ToolTypes
          <6> QED BY <4>2, <5>1, <6>1
        <5>2. CASE k # n BY <2>4, <4>2, <5>2 DEF Owed
        <5> QED BY <5>1, <5>2
      <4> QED BY <2>2, <2>3, <3>2, <4>1, <4>2 DEF Owed
    <3> QED BY <2>1, <3>1, <3>2
  <2>7. CASE n \notin Spoilt
    <3>1. Owed' \subseteq Owed BY <2>2, <2>3, <2>4, <2>7 DEF Owed
    <3> QED BY <2>1, <3>1
  <2> QED BY <2>6, <2>7
<1> QED BY <1>1, <1>2, <1>3, <1>4, <1>5, <1>6 DEF Tools

LEMMA ToolKeepsCorpus ==
  ASSUME CorpusInv, Tools, UNCHANGED storevars
  PROVE  CorpusInv'
<1>1. StoreInv /\ ToolTypes /\ ToolInv /\ OwedInv BY DEF CorpusInv
<1>2. StoreInv' BY <1>1, StoreStep
<1>3. ToolTypes' /\ ToolInv' BY <1>1, ToolTypesKeep, ToolInvKeeps DEF StoreInv
<1>4. crashes' = crashes /\ crashes \in Nat /\ cuts \in Nat
  BY <1>1 DEF storevars, history, StoreInv, StoreTypes, ToolTypes
<1>5. OwedInv'
  <2>1. CASE Owed' \subseteq Owed /\ cuts' = cuts
    <3>1. crashes' + cuts' >= crashes + cuts BY <1>4, <2>1
    <3> QED BY <1>1, <1>2, <1>3, <2>1, <3>1, OwedKept DEF StoreInv
  <2>2. ASSUME NEW x, Owed' \subseteq Owed \cup {x} /\ cuts' = cuts + 1
        PROVE  OwedInv'
    <3>1. crashes' + cuts' = crashes + cuts + 1 BY <1>4, <2>2
    <3> QED BY <1>1, <1>2, <1>3, <2>2, <3>1, OwedKept DEF StoreInv
  <2>3. ASSUME NEW x \in Owed, NEW y,
               Owed' \subseteq (Owed \ {x}) \cup {y} /\ cuts' = cuts
        PROVE  OwedInv'
    <3>1. crashes' + cuts' = crashes + cuts BY <1>4, <2>3
    <3> QED BY <1>1, <1>2, <1>3, <2>3, <3>1, OwedKept DEF StoreInv
  <2> QED BY <1>1, <2>1, <2>2, <2>3, ToolOwes
<1> QED BY <1>2, <1>3, <1>5 DEF CorpusInv

(* However uploads, rotations and labels interleave with sync, fetch, label and stage,  *)
(* and wherever any of them is cut short, each incomplete clip in the corpus is owed to *)
(* one interruption of its own (bot.py:945-947, 1014-1016;                              *)
(* collect_hard_negatives.py:63-107, 127-180).                                          *)
THEOREM TornClipsAreOwed == CorpusSpec => []TornClipsOwed
<1>1. CorpusInit => CorpusInv
  <2> SUFFICES ASSUME CorpusInit PROVE CorpusInv OBVIOUS
  <2>1. StoreInv
    BY WakeStoreAssumption DEF CorpusInit, StoreInit, StoreInv, StoreTypes, JobTypes, FileInv,
       Samples, Labels, Idle
  <2>2. ToolTypes BY DEF CorpusInit, ToolTypes, Dirs, Grade
  <2>3. ToolInv BY DEF CorpusInit, ToolInv
  <2>4. Owed = {}
    BY DEF CorpusInit, StoreInit, Owed, TornClips, Spoilt, Torn, Blotted, Writing
  <2>5. crashes = 0 /\ cuts = 0 BY DEF CorpusInit, StoreInit
  <2>6. OwedInv BY <2>4, <2>5, FS_EmptySet DEF OwedInv
  <2> QED BY <2>1, <2>2, <2>3, <2>6 DEF CorpusInv
<1>2. CorpusInv /\ [CorpusNext]_corpusvars => CorpusInv'
  <2> SUFFICES ASSUME CorpusInv, [CorpusNext]_corpusvars PROVE CorpusInv' OBVIOUS
  <2>1. CASE StoreNext /\ UNCHANGED tools BY <2>1, StoreKeepsCorpus
  <2>2. CASE Tools /\ UNCHANGED storevars BY <2>2, ToolKeepsCorpus
  <2>3. CASE UNCHANGED corpusvars BY <2>3, StoreKeepsCorpus DEF corpusvars
  <2> QED BY <2>1, <2>2, <2>3 DEF CorpusNext
<1>3. ASSUME CorpusInv PROVE TornClipsOwed
  <2>1. IsFiniteSet(Owed) /\ Cardinality(Owed) <= crashes + cuts
    BY <1>3 DEF CorpusInv, OwedInv
  <2>2. TornClips \in SUBSET Owed BY DEF Owed
  <2>3. IsFiniteSet(TornClips) /\ Cardinality(TornClips) <= Cardinality(Owed)
    BY <2>1, <2>2, FS_Subset
  <2>4. Cardinality(TornClips) \in Nat /\ Cardinality(Owed) \in Nat
    BY <2>1, <2>3, FS_CardinalityType
  <2>5. crashes \in Nat /\ cuts \in Nat
    BY <1>3 DEF CorpusInv, StoreInv, StoreTypes, ToolTypes
  <2> QED BY <2>1, <2>3, <2>4, <2>5 DEF TornClipsOwed
<1> QED BY <1>1, <1>2, <1>3, PTL DEF CorpusSpec

(* The tool beside it leaves the backend's own promises as they are: the bound of the   *)
(* volume (bot.py:900-914) and what orphans are owed to (bot.py:909-914, 1014-1022).    *)
COROLLARY StoreUnderTool == CorpusSpec => [](StoreBounded /\ OrphansOnlyByCrash)
BY ToolsOnlyRead, StoreStaysBounded, OrphansNeedCrash, PTL
=============================================================================
