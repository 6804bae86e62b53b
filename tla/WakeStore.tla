----------------------------- MODULE WakeStore -----------------------------
(***************************************************************************)
(* The store of wake samples: bot.py writes, rotates and labels the samples  *)
(* the device uploads. A handler runs to its end on the event loop, so only  *)
(* the end of the process can come between its writes. A sample stands for   *)
(* the number of its upload, which is also the order of the modification     *)
(* times.                                                                    *)
(***************************************************************************)
EXTENDS Naturals, FiniteSets

CONSTANTS
  Keep,        \* WAKE_SAMPLE_MAX
  Verdicts,    \* the labels that choose a directory: positive, negative
  MaxUploads,  \* bound: uploads
  MaxCrashes   \* bound: stores and labels cut short

ASSUME WakeStoreAssumption ==
  /\ Keep \in Nat \ {0} /\ "unlabeled" \notin Verdicts
  /\ MaxUploads \in Nat /\ MaxCrashes \in Nat

VARIABLES
  wav,       \* each sample's .wav: absent, begun, complete
  meta,      \* each sample's .json: absent, begun, a label alone, the metrics too
  label,     \* the label in it
  uploads,   \* uploads received
  job,       \* the handler on the event loop and the write it is at
  crashes,   \* handlers cut short (read by the bound and by properties only)
  slack      \* uploads cut short since the last full rotation (read by properties only)

files    == <<wav, meta, label>>
history  == <<crashes, slack>>
storevars == <<files, uploads, job, history>>

Samples == 1 .. MaxUploads
Labels  == Verdicts \cup {"unlabeled"}
Idle    == [op |-> "idle"]
Wavs    == {n \in Samples : wav[n] # "none"}
Jsons   == {n \in Samples : meta[n] # "none"}
Oldest(S) == CHOOSE n \in S : \A k \in S : n <= k

StoreInit ==
  /\ wav = [n \in Samples |-> "none"] /\ meta = [n \in Samples |-> "none"]
  /\ label = [n \in Samples |-> "unlabeled"]
  /\ uploads = 0 /\ job = Idle
  /\ crashes = 0 /\ slack = 0

Free == job = Idle

----------------------------------------------------------------------------
(* POST /wake-sample                                                       *)

\* Planted: the metrics are there before the audio is.
BugJsonFirst ==
  /\ Free /\ uploads < MaxUploads
  /\ uploads' = uploads + 1
  /\ wav' = [wav EXCEPT ![uploads'] = "begun"]
  /\ meta' = [meta EXCEPT ![uploads'] = "full"]
  /\ job' = [op |-> "wav", of |-> uploads']
  /\ UNCHANGED <<label, history>>

WriteWav ==
  /\ Free /\ uploads < MaxUploads
  /\ uploads' = uploads + 1
  /\ wav' = [wav EXCEPT ![uploads'] = "begun"]
  /\ job' = [op |-> "wav", of |-> uploads']
  /\ UNCHANGED <<meta, label, history>>

WriteJson ==
  /\ job.op = "wav"
  /\ wav' = [wav EXCEPT ![job.of] = "whole"]
  /\ meta' = [meta EXCEPT ![job.of] = "begun"]
  /\ job' = [op |-> "json", of |-> job.of]
  /\ UNCHANGED <<label, uploads, history>>

Written ==
  /\ job.op = "json"
  /\ meta' = [meta EXCEPT ![job.of] = "full"]
  /\ job' = [op |-> "rotate"]
  /\ UNCHANGED <<wav, label, uploads, history>>

\* wavs[:-keep] of the listing sorted by time: the oldest goes first.
Victim(S) == Oldest(S)

\* Planted: one file at most is deleted.
BugRotateOnce ==
  /\ job.op = "rotate"
  /\ slack' = 0
  /\ IF Cardinality(Wavs) > Keep
     THEN LET n == Victim(Wavs)
          IN  wav' = [wav EXCEPT ![n] = "none"] /\ meta' = [meta EXCEPT ![n] = "none"]
     ELSE UNCHANGED <<wav, meta>>
  /\ job' = Idle
  /\ UNCHANGED <<label, uploads, crashes>>

Rotate ==
  /\ job.op = "rotate"
  /\ IF Cardinality(Wavs) > Keep
     THEN LET n == Victim(Wavs)
          IN  /\ wav' = [wav EXCEPT ![n] = "none"]
              /\ job' = [op |-> "unlink", of |-> n]
              /\ UNCHANGED slack
     ELSE slack' = 0 /\ job' = Idle /\ UNCHANGED wav
  /\ UNCHANGED <<meta, label, uploads, crashes>>

\* Planted: the metrics of a rotated sample stay.
BugKeepsJson ==
  /\ job.op = "unlink"
  /\ job' = [op |-> "rotate"]
  /\ UNCHANGED <<files, uploads, history>>

UnlinkJson ==
  /\ job.op = "unlink"
  /\ meta' = [meta EXCEPT ![job.of] = "none"]
  /\ label' = [label EXCEPT ![job.of] = "unlabeled"]
  /\ job' = [op |-> "rotate"]
  /\ UNCHANGED <<wav, uploads, history>>

----------------------------------------------------------------------------
(* POST /wake-samples/{name}/label                                         *)

\* Found by its .json alone; write_text truncates what it rewrites.
Label(n, l) ==
  /\ Free /\ l \in Labels /\ meta[n] # "none"
  /\ meta' = [meta EXCEPT ![n] = "begun"]
  /\ job' = [op |-> "label", of |-> n, as |-> l, had |-> meta[n]]
  /\ UNCHANGED <<wav, label, uploads, history>>

\* A .json that could not be parsed keeps nothing but the label.
Labelled ==
  /\ job.op = "label"
  /\ meta' = [meta EXCEPT ![job.of] = IF job.had = "full" THEN "full" ELSE "bare"]
  /\ label' = [label EXCEPT ![job.of] = job.as]
  /\ job' = Idle
  /\ UNCHANGED <<wav, uploads, history>>

----------------------------------------------------------------------------
(* A write fails, or the process ends before the next one: what was being    *)
(* written stays as it is.                                                   *)

CutShort ==
  /\ ~Free /\ crashes < MaxCrashes
  /\ crashes' = crashes + 1
  /\ slack' = IF job.op \in {"wav", "json", "rotate", "unlink"} THEN slack + 1 ELSE slack
  /\ label' = [n \in Samples |-> IF meta[n] = "begun" THEN "unlabeled" ELSE label[n]]
  /\ job' = Idle
  /\ UNCHANGED <<wav, meta, uploads>>

----------------------------------------------------------------------------
Store ==
  \/ WriteWav \/ WriteJson \/ Written \/ Rotate \/ UnlinkJson
  \/ Labelled
  \/ \E n \in Samples, l \in Labels \cup {"other"} : Label(n, l)

StoreNext == Store \/ CutShort

StoreSpec == StoreInit /\ [][StoreNext]_storevars

(* The volume stays bounded: what a store that was cut short left over is cleared by   *)
(* the next one that completes (bot.py:900-914, 946-948).                              *)
StoreBounded ==
  Cardinality(Wavs) <= Keep + slack + (IF job.op \in {"wav", "json", "rotate"} THEN 1 ELSE 0)

(* Metrics without audio, which no rotation ever removes and a label request still     *)
(* finds, are left only by an end of the process between the two deletions             *)
(* (bot.py:909-914, 1014-1022).                                                        *)
OrphansOnlyByCrash ==
  Cardinality({n \in Jsons : wav[n] = "none"})
    <= crashes + (IF job.op = "unlink" THEN 1 ELSE 0)
=============================================================================
