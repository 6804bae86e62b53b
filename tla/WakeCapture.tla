---------------------------- MODULE WakeCapture ----------------------------
(***************************************************************************)
(* Collecting the audio behind a wake fire: captureTask keeps the last       *)
(* seconds of the microphone, snapshots them when the wake word fires and    *)
(* notifies uploadTask, which posts the snapshot to the backend.             *)
(* A microphone frame stands for its number, the ring's unit is one frame.   *)
(* wake_mtx_ makes the snapshot and its copy one step each.                  *)
(***************************************************************************)
EXTENDS WakeWord, CircularBuffer

CONSTANT MaxFrames   \* bound: the microphone is followed for this many frames

ASSUME CaptureAssumption == MaxFrames \in Nat

VARIABLES
  frame,         \* frames read so far
  cap_ring,      \* cap_ring with c_head and c_count
  wake_pcm,      \* wake_pcm_[0 .. wake_pcm_len_ - 1]
  wake_metrics,  \* wake_metrics_.fire_seq
  capture_seq,   \* wake_capture_seq_
  notified,      \* uploadTask's notification value is not 0
  upc,           \* uploadTask: waiting, about to copy the snapshot, posting it
  copied,        \* the seq of the copy uploadTask last made
  wake_at,       \* the frame that fired last (read by properties only)
  posts          \* requests made (read by properties only)

snapshot == <<wake_pcm, wake_metrics, capture_seq, wake_at>>
mic      == <<frame, cap_ring>>
uploader == <<upc, copied, posts>>
cvars    == <<wake, mic, snapshot, notified, uploader>>

CaptureInit ==
  /\ WakeInit
  /\ frame = 0 /\ cap_ring = Empty(0)
  /\ wake_pcm = << >> /\ wake_metrics = 0 /\ capture_seq = 0 /\ wake_at = 0
  /\ notified = FALSE
  /\ upc = "wait" /\ copied = 0 /\ posts = 0

----------------------------------------------------------------------------
(* captureTask                                                             *)

Hear ==
  /\ frame < MaxFrames
  /\ frame' = frame + 1
  /\ cap_ring' = Put(cap_ring, frame')

Listen == NoInference \/ \E p \in Probs : Infer(p)

\* WakeEngine::detected(): snapshot, metrics and sequence number under wake_mtx_.
Snapshot ==
  /\ wake_pcm' = Linear(cap_ring')
  /\ wake_metrics' = fire_seq'
  /\ capture_seq' = capture_seq + 1
  /\ wake_at' = frame'
  /\ notified' = TRUE

Frame ==
  /\ Hear /\ Listen
  /\ IF fire_seq' # fire_seq THEN Snapshot ELSE UNCHANGED <<snapshot, notified>>
  /\ UNCHANGED uploader

----------------------------------------------------------------------------
(* uploadTask                                                              *)

\* ulTaskNotifyTake timed out: look at running_ and wait again.
UploadIdle == upc = "wait" /\ ~notified /\ UNCHANGED cvars

\* Planted: the notification is not cleared.
BugTakeKeeps ==
  /\ upc = "wait" /\ notified
  /\ upc' = "copy"
  /\ UNCHANGED <<wake, mic, snapshot, notified, copied, posts>>

\* ulTaskNotifyTake(pdTRUE) clears what any number of fires left.
UploadTake ==
  /\ upc = "wait" /\ notified
  /\ notified' = FALSE
  /\ upc' = "copy"
  /\ UNCHANGED <<wake, mic, snapshot, copied, posts>>

\* getWakeSampleUpload under wake_mtx_, and the request that follows.
UploadCopy ==
  /\ upc = "copy"
  /\ IF wake_pcm # << >>
     THEN copied' = capture_seq /\ posts' = posts + 1 /\ upc' = "post"
     ELSE upc' = "wait" /\ UNCHANGED <<copied, posts>>
  /\ UNCHANGED <<wake, mic, snapshot, notified>>

\* Planted: what arrived while the request was under way is cleared.
BugDoneClears ==
  /\ upc = "post"
  /\ upc' = "wait" /\ notified' = FALSE
  /\ UNCHANGED <<wake, mic, snapshot, copied, posts>>

\* The request returned, answered or timed out: nothing is retried.
UploadDone ==
  /\ upc = "post"
  /\ upc' = "wait"
  /\ UNCHANGED <<wake, mic, snapshot, notified, copied, posts>>

Upload == UploadTake \/ UploadCopy \/ UploadDone

CaptureNext == Frame \/ UploadIdle \/ Upload

CaptureSpec == CaptureInit /\ [][CaptureNext]_cvars

----------------------------------------------------------------------------
(* The ring never counts past its capacity, and every counter stays in step with the  *)
(* frames (session.cpp:588-596, 648-659, 198-226).                                     *)
CaptureTypeOK ==
  /\ frame \in 0 .. MaxFrames /\ cap_ring \in Buffers(0 .. MaxFrames)
  /\ wake_at \in 0 .. frame /\ Len(wake_pcm) \in 0 .. Capacity
  /\ wake_metrics \in Nat /\ capture_seq \in Nat
  /\ notified \in BOOLEAN /\ upc \in {"wait", "copy", "post"}
  /\ copied \in 0 .. capture_seq /\ posts \in Nat

(* A snapshot is the audio that led up to its fire: the last frames in order, ending   *)
(* with the one that fired, without a gap where the ring wraps, next to the metrics of *)
(* that very fire (session.cpp:645-658).                                               *)
SnapshotIsLeadUp ==
  LET n == Capped(wake_at, Capacity)
  IN  /\ wake_pcm = [i \in 1 .. n |-> wake_at - n + i]
      /\ wake_metrics = capture_seq

(* The backend gets at most one request for each fire, however fires and uploads       *)
(* overlap (session.cpp:206-213, 658).                                                 *)
PostsFollowFires ==
  posts + (IF notified THEN 1 ELSE 0) + (IF upc = "copy" THEN 1 ELSE 0) <= capture_seq

(* No fire is forgotten: its snapshot, or a later one that replaced it, is posted,     *)
(* even if it came while an earlier upload was under way (session.cpp:206-213, 658).   *)
LatestIsPosted == \A n \in 1 .. MaxFrames : (capture_seq >= n) ~> (copied >= n)
=============================================================================
