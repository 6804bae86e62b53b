---------------------------- MODULE Transcripts ----------------------------
(***************************************************************************)
(* The backend's live transcript: TranscriptObserver puts the rows of each   *)
(* conversation together from the frames it sees pass through the pipeline,  *)
(* and broadcast_transcript fans every row out to the subscribers of         *)
(* /api/transcripts/stream, each with a bounded queue. One event loop runs   *)
(* all of it: an action is what happens between two awaits.                  *)
(***************************************************************************)
EXTENDS Naturals, Sequences, FiniteSets

CONSTANTS
  Connections,  \* pc_ids, none of which is used twice
  Streams,      \* requests of /api/transcripts/stream
  QueueMax,     \* _TRANSCRIPT_QUEUE_MAXSIZE
  MaxEvents,    \* bound: rows
  MaxReplies,   \* bound: replies of the model in one conversation
  MaxTokens     \* bound: tokens of one reply

ASSUME TranscriptsAssumption ==
  /\ QueueMax \in Nat \ {0}
  /\ MaxEvents \in Nat /\ MaxReplies \in Nat /\ MaxTokens \in Nat

VARIABLES
  events,   \* rows broadcast
  stream,   \* each stream: not asked for, subscribed, its generator started, over
  queues,   \* _transcript_subscribers
  queue,    \* each stream's queue
  owed,     \* rows broadcast since it subscribed, less those delivered (read by properties only)
  behind,   \* rows each full queue turned away (read by properties only)
  reply,    \* the replies the model began, and whether the last one goes on
  onward,   \* start and end frames that the TTS service has yet to pass on
  buffer,   \* _assistant_buffer, each token a pair of its reply and its number
  talking,  \* _in_response
  logged,   \* the tokens in the rows so far (read by properties only)
  doubled   \* a token came twice, or two replies in one row (read by properties only)

fanout   == <<events, stream, queues, queue, owed, behind>>
observer == <<reply, onward, buffer, talking, logged, doubled>>

TranscriptsInit ==
  /\ events = 0 /\ stream = [s \in Streams |-> "none"] /\ queues = {}
  /\ queue = [s \in Streams |-> << >>]
  /\ owed = [s \in Streams |-> 0] /\ behind = [s \in Streams |-> 0]
  /\ reply = [c \in Connections |-> [n |-> 0, tokens |-> 0, on |-> FALSE]]
  /\ onward = [c \in Connections |-> << >>]
  /\ buffer = [c \in Connections |-> << >>]
  /\ talking = [c \in Connections |-> FALSE]
  /\ logged = [c \in Connections |-> {}] /\ doubled = FALSE

----------------------------------------------------------------------------
(* broadcast_transcript                                                    *)

\* Planted: queues without a maxsize.
BugNeverFull == {}

Full == {s \in queues : Len(queue[s]) = QueueMax}

\* Planted: one full queue ends the round for everybody.
BugAllOrNone ==
  /\ events < MaxEvents
  /\ events' = events + 1
  /\ queue' = [s \in Streams |-> IF s \in queues /\ Full = {} THEN Append(queue[s], events') ELSE queue[s]]
  /\ behind' = [s \in Streams |-> IF s \in Full THEN behind[s] + 1 ELSE behind[s]]
  /\ owed' = [s \in Streams |-> IF s \in queues THEN owed[s] + 1 ELSE owed[s]]
  /\ UNCHANGED <<stream, queues>>

\* put_nowait: a full queue misses this row, the others do not.
Broadcast ==
  /\ events < MaxEvents
  /\ events' = events + 1
  /\ queue' = [s \in Streams |-> IF s \in queues \ Full THEN Append(queue[s], events') ELSE queue[s]]
  /\ behind' = [s \in Streams |-> IF s \in Full THEN behind[s] + 1 ELSE behind[s]]
  /\ owed' = [s \in Streams |-> IF s \in queues THEN owed[s] + 1 ELSE owed[s]]
  /\ UNCHANGED <<stream, queues>>

----------------------------------------------------------------------------
(* TranscriptObserver.on_push_frame, called once for each hop of a frame.    *)

SeeStart(c) ==
  /\ buffer' = [buffer EXCEPT ![c] = << >>]
  /\ talking' = [talking EXCEPT ![c] = TRUE]
  /\ UNCHANGED <<fanout, logged, doubled>>

SeeText(c, token) ==
  /\ buffer' = [buffer EXCEPT ![c] = IF talking[c] THEN Append(@, token) ELSE @]
  /\ UNCHANGED <<fanout, talking, logged, doubled>>

\* One row of what has been gathered, if anything has.
Row(c) ==
  LET tokens == {buffer[c][i] : i \in 1 .. Len(buffer[c])}
  IN  IF tokens = {} THEN UNCHANGED <<fanout, logged, doubled>>
      ELSE /\ Broadcast
           /\ logged' = [logged EXCEPT ![c] = @ \cup tokens]
           /\ doubled' = \/ doubled
                         \/ logged[c] \cap tokens # {}
                         \/ Cardinality({t[1] : t \in tokens}) > 1

\* Planted: the buffer is only emptied by the next start.
BugKeepsBuffer(c) ==
  /\ Row(c)
  /\ talking' = [talking EXCEPT ![c] = FALSE]
  /\ UNCHANGED buffer

SeeEnd(c) ==
  /\ Row(c)
  /\ talking' = [talking EXCEPT ![c] = FALSE]
  /\ buffer' = [buffer EXCEPT ![c] = << >>]

(* The frames of a reply leave the model; the TTS service passes the first   *)
(* and the last of them on at its own pace and keeps the text. The output     *)
(* transport's pass, one hop later, is left out: it repeats the TTS service's. *)
BeginReply(c) ==
  /\ ~reply[c].on /\ reply[c].n < MaxReplies
  /\ reply' = [reply EXCEPT ![c] = [n |-> @.n + 1, tokens |-> 0, on |-> TRUE]]
  /\ onward' = [onward EXCEPT ![c] = Append(@, "start")]
  /\ SeeStart(c)

Token(c) ==
  /\ reply[c].on /\ reply[c].tokens < MaxTokens
  /\ reply' = [reply EXCEPT ![c].tokens = @ + 1]
  /\ SeeText(c, <<reply[c].n, reply[c].tokens + 1>>)
  /\ UNCHANGED onward

EndReply(c) ==
  /\ reply[c].on
  /\ reply' = [reply EXCEPT ![c].on = FALSE]
  /\ onward' = [onward EXCEPT ![c] = Append(@, "end")]
  /\ SeeEnd(c)

PassOn(c) ==
  /\ onward[c] # << >>
  /\ onward' = [onward EXCEPT ![c] = Tail(@)]
  /\ IF Head(onward[c]) = "start" THEN SeeStart(c) ELSE SeeEnd(c)
  /\ UNCHANGED reply

Replies(c) == BeginReply(c) \/ Token(c) \/ EndReply(c) \/ PassOn(c)

----------------------------------------------------------------------------
(* transcripts_stream                                                      *)

Subscribe(s) ==
  /\ stream[s] = "none"
  /\ stream' = [stream EXCEPT ![s] = "added"]
  /\ queues' = queues \cup {s}
  /\ UNCHANGED <<events, queue, owed, behind>>

\* The response starts to iterate over gen().
Start(s) ==
  /\ stream[s] = "added"
  /\ stream' = [stream EXCEPT ![s] = "open"]
  /\ UNCHANGED <<events, queues, queue, owed, behind>>

\* The client left before gen() began: its finally is never reached.
LeavesEarly(s) ==
  /\ stream[s] = "added"
  /\ stream' = [stream EXCEPT ![s] = "lost"]
  /\ UNCHANGED <<events, queues, queue, owed, behind>>

Deliver(s) ==
  /\ stream[s] = "open" /\ queue[s] # << >>
  /\ queue' = [queue EXCEPT ![s] = Tail(@)]
  /\ owed' = [owed EXCEPT ![s] = @ - 1]
  /\ UNCHANGED <<events, stream, queues, behind>>

\* The client left, and gen()'s finally ran.
Leaves(s) ==
  /\ stream[s] = "open"
  /\ stream' = [stream EXCEPT ![s] = "over"]
  /\ queues' = queues \ {s}
  /\ UNCHANGED <<events, queue, owed, behind>>

Streaming(s) == Subscribe(s) \/ Start(s) \/ LeavesEarly(s) \/ Deliver(s) \/ Leaves(s)

TranscriptsCrash ==
  /\ queues' = {}
  /\ stream' = [s \in Streams |-> IF stream[s] = "none" THEN "none" ELSE "over"]
  /\ UNCHANGED <<events, queue, owed, behind, observer>>

----------------------------------------------------------------------------
(* However the two passes of one reply's frames cross with those of the next, no token *)
(* is logged twice and no row mixes two replies (bot.py:644-679).                      *)
EachTokenOnce == ~doubled

(* A slow subscriber misses what its own queue had no room for and costs the others    *)
(* nothing: each row since it subscribed was delivered, waits, or was turned away by   *)
(* its own full queue. A stream that ends takes its queue out of the set; the one      *)
(* exception is a client that leaves before the generator was first asked for anything *)
(* (bot.py:619-641, 1040-1065).                                                        *)
EachStreamAccounted ==
  /\ queues = {s \in Streams : stream[s] \in {"added", "open", "lost"}}
  /\ \A s \in queues : owed[s] = Len(queue[s]) + behind[s]
=============================================================================
