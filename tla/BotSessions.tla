---------------------------- MODULE BotSessions ----------------------------
(***************************************************************************)
(* The backend's conversations: run_bot builds a pipeline for each WebRTC    *)
(* connection, registers it for /api/text and runs it until the peer leaves. *)
(***************************************************************************)
EXTENDS Transcripts

VARIABLES
  bot,       \* run_bot of each connection: how far it is
  gone,      \* connections whose peer has left
  missed,    \* those among them that closed before anyone listened
  sessions,  \* _active_sessions
  stray      \* a text went to a pipeline already cancelled (read by properties only)

calls   == <<bot, gone, missed, sessions, stray>>
botvars == <<fanout, observer, calls>>

BotInit ==
  /\ TranscriptsInit
  /\ bot = [c \in Connections |-> "none"] /\ gone = {} /\ missed = {}
  /\ sessions = {} /\ stray = FALSE

----------------------------------------------------------------------------
(* run_bot                                                                 *)

Register(c) ==
  /\ bot' = [bot EXCEPT ![c] = "running"]
  /\ sessions' = sessions \cup {c}

\* The answer is sent first; a StackChan's pipeline waits for its usage figures.
Offer(c, stackchan) ==
  /\ bot[c] = "none"
  /\ IF stackchan
     THEN bot' = [bot EXCEPT ![c] = "usage"] /\ UNCHANGED sessions
     ELSE Register(c)
  /\ UNCHANGED <<fanout, observer, gone, missed, stray>>

Usage(c) ==
  /\ bot[c] = "usage"
  /\ Register(c)
  /\ UNCHANGED <<fanout, observer, gone, missed, stray>>

\* The peer leaves, or aiortc finds that it has. While the usage figures are awaited
\* there is neither a transport nor a handler, and the event is not replayed to them.
Hangup(c) ==
  /\ bot[c] \notin {"none", "over"} /\ c \notin gone
  /\ gone' = gone \cup {c}
  /\ missed' = IF bot[c] = "usage" THEN missed \cup {c} ELSE missed
  /\ UNCHANGED <<fanout, observer, bot, sessions, stray>>

\* Planted: the map is cleaned only after the cancellation was awaited.
BugPopsLate(c) ==
  /\ bot[c] = "running" /\ c \in gone \ missed
  /\ bot' = [bot EXCEPT ![c] = "stopping"]
  /\ UNCHANGED <<fanout, observer, gone, missed, sessions, stray>>

\* on_client_disconnected: out of the map before task.cancel() is awaited.
Disconnected(c) ==
  /\ bot[c] = "running" /\ c \in gone \ missed
  /\ bot' = [bot EXCEPT ![c] = "stopping"]
  /\ sessions' = sessions \ {c}
  /\ UNCHANGED <<fanout, observer, gone, missed, stray>>

\* Planted: the runner's end is not caught by a finally.
BugNoFinally(c) ==
  /\ bot[c] \in {"running", "stopping"}
  /\ bot' = [bot EXCEPT ![c] = "over"]
  /\ UNCHANGED <<fanout, observer, gone, missed, sessions, stray>>

\* runner.run returned or raised: finally.
RunnerEnds(c) ==
  /\ bot[c] \in {"running", "stopping"}
  /\ bot' = [bot EXCEPT ![c] = "over"]
  /\ sessions' = sessions \ {c}
  /\ UNCHANGED <<fanout, observer, gone, missed, stray>>

\* A user's turn out of the STT service, and the frames of the model's reply.
Speaks(c) ==
  /\ bot[c] = "running"
  /\ (Broadcast /\ UNCHANGED observer) \/ Replies(c)
  /\ UNCHANGED calls

\* /api/text: what is not in the map is refused with a 404.
Text(c) ==
  /\ c \in sessions
  /\ Broadcast
  /\ stray' = (stray \/ bot[c] # "running")
  /\ UNCHANGED <<observer, bot, gone, missed, sessions>>

\* The process ends, and with it every connection.
Killed ==
  /\ bot' = [c \in Connections |-> IF bot[c] = "none" THEN "none" ELSE "over"]
  /\ sessions' = {}
  /\ TranscriptsCrash
  /\ UNCHANGED <<gone, missed, stray>>

Pipelines ==
  \E c \in Connections :
    \/ \E stackchan \in BOOLEAN : Offer(c, stackchan)
    \/ Usage(c) \/ Hangup(c) \/ Disconnected(c) \/ RunnerEnds(c) \/ Speaks(c) \/ Text(c)

Stream == \E s \in Streams : Streaming(s) /\ UNCHANGED <<observer, calls>>

BotNext == Pipelines \/ Stream \/ Killed

(* pipecat reports a close to the handler that is there when it happens, and  *)
(* completes a cancellation; the request for the usage figures has a timeout. *)
Winds(c) == Usage(c) \/ Disconnected(c) \/ (bot[c] = "stopping" /\ RunnerEnds(c))

BotSpec == BotInit /\ [][BotNext]_botvars /\ \A c \in Connections : WF_botvars(Winds(c))

----------------------------------------------------------------------------
(* The queues keep their bound, whoever stops reading (bot.py:619, 1040-1041).         *)
BotTypeOK ==
  /\ bot \in [Connections -> {"none", "usage", "running", "stopping", "over"}]
  /\ missed \subseteq gone /\ gone \subseteq Connections
  /\ sessions \subseteq Connections /\ stray \in BOOLEAN
  /\ events \in 0 .. MaxEvents /\ queues \subseteq Streams
  /\ stream \in [Streams -> {"none", "added", "open", "lost", "over"}]
  /\ queue \in [Streams -> Seq(1 .. MaxEvents)]
  /\ \A s \in Streams : Len(queue[s]) <= QueueMax
  /\ owed \in [Streams -> Nat] /\ behind \in [Streams -> Nat]
  /\ buffer \in [Connections -> Seq((1 .. MaxReplies) \X (1 .. MaxTokens))]
  /\ onward \in [Connections -> Seq({"start", "end"})]
  /\ talking \in [Connections -> BOOLEAN] /\ doubled \in BOOLEAN

(* A text is never accepted for a pipeline that is already cancelled: the map names    *)
(* running pipelines only (bot.py:574, 584-588, 863-881).                              *)
TextsReachPipelines == ~stray /\ \A c \in sessions : bot[c] = "running"

(* A pipeline whose peer leaves once it is registered neither runs on nor stays in the  *)
(* map, although nothing else ever ends it: its idle timeout is off (bot.py:556-570,    *)
(* 584-596). A peer that leaves while its usage figures are fetched is not covered: the *)
(* handler of 584 does not exist yet (bot.py:397-400).                                  *)
PipelinesEnd ==
  \A c \in Connections : (c \in gone \ missed) ~> (bot[c] = "over" /\ c \notin sessions)
=============================================================================
