-------------------------- MODULE BotSessions_proofs --------------------------
(***************************************************************************)
(* Safety of the backend's conversations and of its live transcript, for any *)
(* number of connections, streams, rows and replies.                         *)
(***************************************************************************)
EXTENDS BotSessions, FiniteSetTheorems, TLAPS

USE TranscriptsAssumption

----------------------------------------------------------------------------
(* The fan-out                                                              *)

FanTypes ==
  /\ events \in 0 .. MaxEvents /\ queues \subseteq Streams
  /\ stream \in [Streams -> {"none", "added", "open", "lost", "over"}]
  /\ queue \in [Streams -> Seq(1 .. MaxEvents)]
  /\ owed \in [Streams -> Nat] /\ behind \in [Streams -> Nat]
  /\ \A s \in Streams : Len(queue[s]) <= QueueMax

(* A stream starts with an empty queue and no debts.                            *)
FanInv ==
  /\ FanTypes
  /\ EachStreamAccounted
  /\ \A s \in Streams : stream[s] = "none" => queue[s] = << >> /\ owed[s] = 0 /\ behind[s] = 0

LEMMA BroadcastKeeps == ASSUME FanInv, Broadcast PROVE FanInv'
<1> USE DEF FanInv, FanTypes
<1>1. UNCHANGED <<stream, queues>> /\ events' = events + 1 /\ events' \in 1 .. MaxEvents BY DEF Broadcast
<1>2. /\ queue' = [s \in Streams |-> IF s \in queues \ Full THEN Append(queue[s], events') ELSE queue[s]]
      /\ behind' = [s \in Streams |-> IF s \in Full THEN behind[s] + 1 ELSE behind[s]]
      /\ owed' = [s \in Streams |-> IF s \in queues THEN owed[s] + 1 ELSE owed[s]]
  BY DEF Broadcast
<1>3. owed' \in [Streams -> Nat] /\ behind' \in [Streams -> Nat] BY <1>2
<1>4. ASSUME NEW s \in Streams
      PROVE  /\ queue'[s] \in Seq(1 .. MaxEvents) /\ Len(queue'[s]) <= QueueMax
             /\ s \in queues => owed'[s] = Len(queue'[s]) + behind'[s]
             /\ s \notin queues => queue'[s] = queue[s] /\ owed'[s] = owed[s] /\ behind'[s] = behind[s]
  <2>1. queue[s] \in Seq(1 .. MaxEvents) /\ Len(queue[s]) <= QueueMax /\ owed[s] \in Nat /\ behind[s] \in Nat
    OBVIOUS
  <2>2. CASE s \in Full
    <3>1. s \in queues BY <2>2 DEF Full
    <3>2. queue'[s] = queue[s] /\ behind'[s] = behind[s] + 1 /\ owed'[s] = owed[s] + 1 BY <1>2, <2>2, <3>1
    <3> QED BY <2>1, <3>1, <3>2 DEF EachStreamAccounted
  <2>3. CASE s \in queues \ Full
    <3>1. queue'[s] = Append(queue[s], events') /\ behind'[s] = behind[s] /\ owed'[s] = owed[s] + 1
      BY <1>2, <2>3
    <3>2. Len(queue[s]) # QueueMax BY <2>3 DEF Full
    <3>3. queue'[s] \in Seq(1 .. MaxEvents) /\ Len(queue'[s]) = Len(queue[s]) + 1 BY <1>1, <2>1, <3>1
    <3>4. Len(queue'[s]) <= QueueMax BY <2>1, <3>2, <3>3
    <3>5. owed[s] = Len(queue[s]) + behind[s] BY <2>3 DEF EachStreamAccounted
    <3>6. owed'[s] = Len(queue'[s]) + behind'[s] BY <2>1, <3>1, <3>3, <3>5
    <3> QED BY <2>3, <3>3, <3>4, <3>6
  <2>4. CASE s \notin queues
    <3>1. s \notin Full BY <2>4 DEF Full
    <3> QED BY <1>2, <2>1, <2>4, <3>1
  <2> QED BY <2>2, <2>3, <2>4
<1>5. queue' \in [Streams -> Seq(1 .. MaxEvents)] BY <1>2, <1>4
<1>6. EachStreamAccounted' BY <1>1, <1>4 DEF EachStreamAccounted
<1>7. \A s \in Streams : stream[s] = "none" => s \notin queues BY DEF EachStreamAccounted
<1> QED BY <1>1, <1>3, <1>4, <1>5, <1>6, <1>7

LEMMA StreamingKeeps == ASSUME FanInv, NEW s \in Streams, Streaming(s) PROVE FanInv'
<1> USE DEF FanInv, FanTypes, EachStreamAccounted
<1>1. CASE Subscribe(s)
  <2>1. stream[s] = "none" /\ stream' = [stream EXCEPT ![s] = "added"] /\ queues' = queues \cup {s}
        /\ UNCHANGED <<events, queue, owed, behind>>
    BY <1>1 DEF Subscribe
  <2>2. owed[s] = Len(queue[s]) + behind[s] BY <2>1
  <2>3. FanTypes' BY <2>1
  <2>4. EachStreamAccounted' BY <2>1, <2>2
  <2>5. \A t \in Streams : stream'[t] = "none" => stream[t] = "none" BY <2>1
  <2> QED BY <2>1, <2>3, <2>4, <2>5
<1>2. CASE Start(s) BY <1>2 DEF Start
<1>3. CASE LeavesEarly(s) BY <1>3 DEF LeavesEarly
<1>4. CASE Leaves(s) BY <1>4 DEF Leaves
<1>5. CASE Deliver(s)
  <2>1. s \in queues /\ queue[s] # << >> /\ UNCHANGED <<events, stream, queues, behind>> BY <1>5 DEF Deliver
  <2>2. queue' = [queue EXCEPT ![s] = Tail(@)] /\ owed' = [owed EXCEPT ![s] = @ - 1] BY <1>5 DEF Deliver
  <2>3. queue[s] \in Seq(1 .. MaxEvents) /\ Len(queue[s]) <= QueueMax
        /\ owed[s] = Len(queue[s]) + behind[s] /\ behind[s] \in Nat
    BY <2>1
  <2>4. Tail(queue[s]) \in Seq(1 .. MaxEvents) /\ Len(Tail(queue[s])) = Len(queue[s]) - 1 BY <2>1, <2>3
  <2>5. owed[s] - 1 \in Nat /\ owed[s] - 1 = Len(Tail(queue[s])) + behind[s] BY <2>1, <2>3, <2>4
  <2> QED BY <2>1, <2>2, <2>3, <2>4, <2>5
<1> QED BY <1>1, <1>2, <1>3, <1>4, <1>5 DEF Streaming

LEMMA CrashKeepsFan == ASSUME FanInv, TranscriptsCrash PROVE FanInv'
BY DEF FanInv, FanTypes, EachStreamAccounted, TranscriptsCrash

LEMMA QuietFan == ASSUME FanInv, UNCHANGED fanout PROVE FanInv'
<1>1. UNCHANGED <<events, stream, queues, queue, owed, behind>> BY DEF fanout
<1> QED BY <1>1 DEF FanInv, FanTypes, EachStreamAccounted

----------------------------------------------------------------------------
(* The observer                                                             *)

Tokens == (1 .. MaxReplies) \X (1 .. MaxTokens)

ObsTypes ==
  /\ reply \in [Connections -> [n : 0 .. MaxReplies, tokens : 0 .. MaxTokens, on : BOOLEAN]]
  /\ onward \in [Connections -> Seq({"start", "end"})]
  /\ buffer \in [Connections -> Seq(Tokens)]
  /\ talking \in [Connections -> BOOLEAN]
  /\ logged \in [Connections -> SUBSET Tokens]

Buffered(c) == {buffer[c][i] : i \in 1 .. Len(buffer[c])}

\* A token that the model has said so far.
Said(c, t) == t[1] < reply[c].n \/ (t[1] = reply[c].n /\ t[2] <= reply[c].tokens)

(* What is gathered belongs to the reply under way and is not logged yet.        *)
ObsInv ==
  /\ ObsTypes /\ doubled = FALSE
  /\ \A c \in Connections :
       /\ reply[c].on => reply[c].n >= 1
       /\ \A t \in Buffered(c) : t[1] = reply[c].n /\ t[2] <= reply[c].tokens /\ t \notin logged[c]
       /\ \A t \in logged[c] : Said(c, t)

LEMMA BufferedTokens ==
  ASSUME ObsTypes, NEW c \in Connections PROVE Buffered(c) \subseteq Tokens
BY DEF ObsTypes, Buffered

(* A row logs what was gathered, all of one reply and for the first time.        *)
LEMMA RowKeeps ==
  ASSUME ObsInv, FanInv, NEW c \in Connections, Row(c)
  PROVE  /\ FanInv' /\ doubled' = FALSE
         /\ logged' \in [Connections -> SUBSET Tokens]
         /\ logged'[c] = logged[c] \cup Buffered(c)
         /\ \A d \in Connections \ {c} : logged'[d] = logged[d]
<1> DEFINE tokens == Buffered(c)
           replies == {t[1] : t \in tokens}
<1>1. tokens \subseteq Tokens /\ logged \in [Connections -> SUBSET Tokens]
  BY BufferedTokens DEF ObsInv, ObsTypes
<1>2. CASE tokens = {}
  <2>1. UNCHANGED <<fanout, logged, doubled>> BY <1>2 DEF Row, Buffered
  <2> QED BY <1>1, <1>2, <2>1, QuietFan DEF ObsInv
<1>3. CASE tokens # {}
  <2>1. Broadcast /\ logged' = [logged EXCEPT ![c] = @ \cup tokens] BY <1>3 DEF Row, Buffered
  <2>2. logged[c] \cap tokens = {} BY DEF ObsInv
  <2>3. replies = {reply[c].n} BY <1>3 DEF ObsInv
  <2>4. ~(Cardinality(replies) > 1)
    <3>1. Cardinality(replies) = 1 BY <2>3, FS_Singleton
    <3> QED BY <3>1
  <2>5. doubled' = (doubled \/ logged[c] \cap tokens # {} \/ Cardinality(replies) > 1)
    BY <1>3 DEF Row, Buffered
  <2>6. doubled' = FALSE BY <2>2, <2>4, <2>5, Zenon DEF ObsInv
  <2> QED BY <1>1, <2>1, <2>6, BroadcastKeeps
<1> QED BY <1>2, <1>3

(* A step of one conversation that empties its buffer, or leaves the buffers alone. *)
LEMMA EmptiedKeeps ==
  ASSUME ObsInv, NEW c \in Connections, ObsTypes', doubled' = FALSE,
         buffer' = [buffer EXCEPT ![c] = << >>],
         \A d \in Connections \ {c} : reply'[d] = reply[d] /\ logged'[d] = logged[d],
         reply'[c].on => reply'[c].n >= 1,
         \A t \in logged'[c] : Said(c, t)'
  PROVE  ObsInv'
<1>1. Buffered(c)' = {}
  <2>1. buffer'[c] = << >> BY DEF ObsInv, ObsTypes
  <2> QED BY <2>1 DEF Buffered
<1>2. ASSUME NEW d \in Connections \ {c} PROVE Buffered(d)' = Buffered(d)
  <2>1. buffer'[d] = buffer[d] BY DEF ObsInv, ObsTypes
  <2> QED BY <2>1 DEF Buffered
<1> QED BY <1>1, <1>2 DEF ObsInv, Said

LEMMA RepliesKeep == ASSUME ObsInv, FanInv, NEW c \in Connections, Replies(c) PROVE ObsInv' /\ FanInv'
<1> DEFINE Entry == [n : 0 .. MaxReplies, tokens : 0 .. MaxTokens, on : BOOLEAN]
<1>1. /\ reply[c] \in Entry /\ reply[c].n \in 0 .. MaxReplies /\ reply[c].tokens \in 0 .. MaxTokens
      /\ logged \in [Connections -> SUBSET Tokens] /\ onward[c] \in Seq({"start", "end"})
      /\ buffer[c] \in Seq(Tokens)
  BY DEF ObsInv, ObsTypes
<1>2. << >> \in Seq(Tokens) OBVIOUS
<1>3. CASE BeginReply(c)
  <2>1. /\ ~reply[c].on /\ reply[c].n < MaxReplies /\ UNCHANGED <<fanout, logged, doubled>>
        /\ reply' = [reply EXCEPT ![c] = [n |-> reply[c].n + 1, tokens |-> 0, on |-> TRUE]]
        /\ onward' = [onward EXCEPT ![c] = Append(onward[c], "start")]
        /\ buffer' = [buffer EXCEPT ![c] = << >>] /\ talking' = [talking EXCEPT ![c] = TRUE]
    BY <1>3 DEF BeginReply, SeeStart
  <2>2. [n |-> reply[c].n + 1, tokens |-> 0, on |-> TRUE] \in Entry BY <1>1, <2>1
  <2>3. reply' \in [Connections -> Entry] BY <2>1, <2>2 DEF ObsInv, ObsTypes
  <2>4. Append(onward[c], "start") \in Seq({"start", "end"}) BY <1>1
  <2>5. onward' \in [Connections -> Seq({"start", "end"})] BY <2>1, <2>4 DEF ObsInv, ObsTypes
  <2>6. ObsTypes' BY <1>2, <2>1, <2>3, <2>5 DEF ObsInv, ObsTypes
  <2>7. reply'[c].n = reply[c].n + 1 BY <2>1 DEF ObsInv, ObsTypes
  <2>8. \A t \in logged'[c] : Said(c, t)'
    <3>1. logged[c] \subseteq Tokens BY <1>1
    <3> QED BY <1>1, <2>1, <2>7, <3>1 DEF ObsInv, Said, Tokens
  <2>9. \A d \in Connections \ {c} : reply'[d] = reply[d] /\ logged'[d] = logged[d]
    BY <2>1 DEF ObsInv, ObsTypes
  <2>10. doubled' = FALSE /\ (reply'[c].on => reply'[c].n >= 1) BY <1>1, <2>1, <2>7 DEF ObsInv
  <2> QED BY <2>1, <2>6, <2>8, <2>9, <2>10, EmptiedKeeps, QuietFan
<1>4. CASE Token(c)
  <2> DEFINE new == <<reply[c].n, reply[c].tokens + 1>>
  <2>1. /\ reply[c].on /\ reply[c].tokens < MaxTokens /\ UNCHANGED <<fanout, onward, talking, logged, doubled>>
        /\ reply' = [reply EXCEPT ![c].tokens = reply[c].tokens + 1]
        /\ buffer' = [buffer EXCEPT ![c] = IF talking[c] THEN Append(buffer[c], new) ELSE buffer[c]]
    BY <1>4 DEF Token, SeeText
  <2>2. reply[c].n \in 1 .. MaxReplies /\ new \in Tokens BY <1>1, <2>1 DEF ObsInv, Tokens
  <2>3. reply' \in [Connections -> Entry] /\ reply'[c].n = reply[c].n
        /\ reply'[c].tokens = reply[c].tokens + 1
    <3>1. reply \in [Connections -> Entry] BY DEF ObsInv, ObsTypes
    <3>2. [reply[c] EXCEPT !.tokens = reply[c].tokens + 1] \in Entry BY <1>1, <2>1
    <3>3. reply' = [reply EXCEPT ![c] = [reply[c] EXCEPT !.tokens = reply[c].tokens + 1]] BY <2>1
    <3> QED BY <1>1, <3>1, <3>2, <3>3
  <2>4. Append(buffer[c], new) \in Seq(Tokens) BY <1>1, <2>2
  <2>5. buffer' \in [Connections -> Seq(Tokens)] BY <1>1, <2>1, <2>4 DEF ObsInv, ObsTypes
  <2>6. ObsTypes' BY <2>1, <2>3, <2>5 DEF ObsInv, ObsTypes
  <2>7. \A t \in logged[c] : Said(c, t)' /\ t # new
    <3>1. logged[c] \subseteq Tokens BY <1>1
    <3>2. \A t \in logged[c] : t[1] < reply[c].n \/ (t[1] = reply[c].n /\ t[2] <= reply[c].tokens)
      BY DEF ObsInv, Said
    <3> QED BY <1>1, <2>3, <3>1, <3>2 DEF Said, Tokens
  <2>8. Buffered(c)' \subseteq Buffered(c) \cup {new}
    <3>1. buffer'[c] = (IF talking[c] THEN Append(buffer[c], new) ELSE buffer[c])
      BY <2>1 DEF ObsInv, ObsTypes
    <3>2. CASE talking[c]
      <4>1. \A i \in 1 .. Len(buffer'[c]) :
              buffer'[c][i] = IF i \in 1 .. Len(buffer[c]) THEN buffer[c][i] ELSE new
        BY <1>1, <2>2, <3>1, <3>2
      <4> QED BY <4>1 DEF Buffered
    <3>3. CASE ~talking[c] BY <3>1, <3>3 DEF Buffered
    <3> QED BY <3>2, <3>3
  <2>9. \A t \in Buffered(c)' : t[1] = reply'[c].n /\ t[2] <= reply'[c].tokens /\ t \notin logged'[c]
    <3>1. Buffered(c) \subseteq Tokens BY BufferedTokens DEF ObsInv
    <3>2. \A t \in Buffered(c) : t[1] = reply[c].n /\ t[2] <= reply[c].tokens /\ t \notin logged[c]
      BY DEF ObsInv
    <3>3. \A t \in Buffered(c) : t[2] <= reply'[c].tokens BY <1>1, <2>3, <3>1, <3>2 DEF Tokens
    <3>4. new[1] = reply'[c].n /\ new[2] <= reply'[c].tokens BY <1>1, <2>3
    <3> QED BY <2>1, <2>3, <2>7, <2>8, <3>2, <3>3, <3>4
  <2>10. ASSUME NEW d \in Connections \ {c}
         PROVE  reply'[d] = reply[d] /\ Buffered(d)' = Buffered(d) /\ logged'[d] = logged[d]
    <3>1. reply'[d] = reply[d] /\ buffer'[d] = buffer[d] BY <2>1 DEF ObsInv, ObsTypes
    <3> QED BY <2>1, <3>1 DEF Buffered
  <2>11. ASSUME NEW d \in Connections
         PROVE  /\ reply'[d].on => reply'[d].n >= 1
                /\ \A t \in Buffered(d)' : t[1] = reply'[d].n /\ t[2] <= reply'[d].tokens /\ t \notin logged'[d]
                /\ \A t \in logged'[d] : Said(d, t)'
    <3>1. CASE d = c BY <2>1, <2>2, <2>3, <2>7, <2>9, <3>1
    <3>2. CASE d # c BY <2>10, <3>2 DEF ObsInv, Said
    <3> QED BY <3>1, <3>2
  <2>12. ObsInv' BY <2>1, <2>6, <2>11 DEF ObsInv
  <2> QED BY <2>1, <2>12, QuietFan
<1>5. ASSUME Row(c), buffer' = [buffer EXCEPT ![c] = << >>], talking' = [talking EXCEPT ![c] = FALSE],
             reply' \in [Connections -> Entry], onward' \in [Connections -> Seq({"start", "end"})],
             \A d \in Connections \ {c} : reply'[d] = reply[d],
             reply'[c].n = reply[c].n, reply'[c].tokens = reply[c].tokens,
             reply'[c].on => reply[c].on
      PROVE  ObsInv' /\ FanInv'
  <2>1. /\ FanInv' /\ doubled' = FALSE /\ logged' \in [Connections -> SUBSET Tokens]
        /\ logged'[c] = logged[c] \cup Buffered(c)
        /\ \A d \in Connections \ {c} : logged'[d] = logged[d]
    BY <1>5, RowKeeps
  <2>2. ObsTypes' BY <1>2, <1>5, <2>1 DEF ObsInv, ObsTypes
  <2>3. \A t \in logged'[c] : Said(c, t)' BY <1>5, <2>1 DEF ObsInv, Said
  <2>4. reply'[c].on => reply'[c].n >= 1 BY <1>5 DEF ObsInv
  <2> QED BY <1>5, <2>1, <2>2, <2>3, <2>4, EmptiedKeeps
<1>6. CASE EndReply(c)
  <2>1. /\ reply' = [reply EXCEPT ![c].on = FALSE]
        /\ onward' = [onward EXCEPT ![c] = Append(onward[c], "end")]
        /\ Row(c) /\ buffer' = [buffer EXCEPT ![c] = << >>] /\ talking' = [talking EXCEPT ![c] = FALSE]
    BY <1>6 DEF EndReply, SeeEnd
  <2>2. Append(onward[c], "end") \in Seq({"start", "end"}) BY <1>1
  <2>3. onward' \in [Connections -> Seq({"start", "end"})] BY <2>1, <2>2 DEF ObsInv, ObsTypes
  <2>4. reply \in [Connections -> Entry] BY DEF ObsInv, ObsTypes
  <2>5. /\ reply' \in [Connections -> Entry] /\ \A d \in Connections \ {c} : reply'[d] = reply[d]
        /\ reply'[c].n = reply[c].n /\ reply'[c].tokens = reply[c].tokens /\ reply'[c].on = FALSE
    BY <1>1, <2>1, <2>4
  <2> QED BY <1>5, <2>1, <2>3, <2>5
<1>7. CASE PassOn(c)
  <2>1. /\ onward[c] # << >> /\ onward' = [onward EXCEPT ![c] = Tail(onward[c])] /\ UNCHANGED reply
        /\ IF Head(onward[c]) = "start" THEN SeeStart(c) ELSE SeeEnd(c)
    BY <1>7 DEF PassOn
  <2>2. onward' \in [Connections -> Seq({"start", "end"})]
    <3>1. Tail(onward[c]) \in Seq({"start", "end"}) BY <1>1, <2>1
    <3> QED BY <2>1, <3>1 DEF ObsInv, ObsTypes
  <2>3. reply' \in [Connections -> Entry] BY <2>1 DEF ObsInv, ObsTypes
  <2>4. CASE SeeStart(c)
    <3>1. /\ buffer' = [buffer EXCEPT ![c] = << >>] /\ talking' = [talking EXCEPT ![c] = TRUE]
          /\ UNCHANGED <<fanout, logged, doubled>>
      BY <2>4 DEF SeeStart
    <3>2. ObsTypes' BY <1>2, <2>2, <2>3, <3>1 DEF ObsInv, ObsTypes
    <3>3. doubled' = FALSE /\ (reply'[c].on => reply'[c].n >= 1) /\ \A t \in logged'[c] : Said(c, t)'
      BY <2>1, <3>1 DEF ObsInv, Said
    <3> QED BY <2>1, <3>1, <3>2, <3>3, EmptiedKeeps, QuietFan
  <2>5. CASE SeeEnd(c)
    BY <1>5, <2>1, <2>2, <2>3, <2>5 DEF SeeEnd
  <2> QED BY <2>1, <2>4, <2>5
<1> QED BY <1>3, <1>4, <1>6, <1>7 DEF Replies

LEMMA QuietObs == ASSUME ObsInv, UNCHANGED observer PROVE ObsInv'
<1>1. UNCHANGED <<reply, onward, buffer, talking, logged, doubled>> BY DEF observer
<1> QED BY <1>1 DEF ObsInv, ObsTypes, Buffered, Said

----------------------------------------------------------------------------
(* The conversations                                                        *)

CallInv ==
  /\ bot \in [Connections -> {"none", "usage", "running", "stopping", "over"}]
  /\ missed \subseteq gone /\ gone \subseteq Connections /\ sessions \subseteq Connections
  /\ stray = FALSE
  /\ \A c \in sessions : bot[c] = "running"

LEMMA CallsKeep ==
  ASSUME CallInv, NEW c \in Connections,
         \/ \E stackchan \in BOOLEAN : Offer(c, stackchan)
         \/ Usage(c) \/ Hangup(c) \/ Disconnected(c) \/ RunnerEnds(c)
  PROVE  CallInv' /\ UNCHANGED <<fanout, observer>>
<1>1. ASSUME NEW stackchan \in BOOLEAN, Offer(c, stackchan) PROVE CallInv' /\ UNCHANGED <<fanout, observer>>
  <2>1. bot[c] = "none" /\ UNCHANGED <<fanout, observer, gone, missed, stray>>
    BY <1>1 DEF Offer
  <2>2. CASE stackchan BY <1>1, <2>1, <2>2 DEF Offer, CallInv
  <2>3. CASE ~stackchan BY <1>1, <2>1, <2>3 DEF Offer, Register, CallInv
  <2> QED BY <2>2, <2>3
<1>2. CASE Usage(c) BY <1>2 DEF Usage, Register, CallInv
<1>3. CASE Hangup(c) BY <1>3 DEF Hangup, CallInv
<1>4. CASE Disconnected(c) BY <1>4 DEF Disconnected, CallInv
<1>5. CASE RunnerEnds(c) BY <1>5 DEF RunnerEnds, CallInv
<1> QED BY <1>1, <1>2, <1>3, <1>4, <1>5

BotInv == FanInv /\ ObsInv /\ CallInv

LEMMA BotInductive == BotSpec => []BotInv
<1>1. BotInit => BotInv
  <2> SUFFICES ASSUME BotInit PROVE BotInv OBVIOUS
  <2>1. /\ events = 0 /\ stream = [s \in Streams |-> "none"] /\ queues = {}
        /\ queue = [s \in Streams |-> << >>]
        /\ owed = [s \in Streams |-> 0] /\ behind = [s \in Streams |-> 0]
    BY DEF BotInit, TranscriptsInit
  <2>2. FanInv BY <2>1 DEF FanInv, FanTypes, EachStreamAccounted
  <2>3. /\ reply = [c \in Connections |-> [n |-> 0, tokens |-> 0, on |-> FALSE]]
        /\ onward = [c \in Connections |-> << >>] /\ buffer = [c \in Connections |-> << >>]
        /\ talking = [c \in Connections |-> FALSE] /\ logged = [c \in Connections |-> {}] /\ doubled = FALSE
    BY DEF BotInit, TranscriptsInit
  <2>4. ObsInv BY <2>3 DEF ObsInv, ObsTypes, Buffered
  <2>5. CallInv BY DEF BotInit, CallInv
  <2> QED BY <2>2, <2>4, <2>5 DEF BotInv
<1>2. BotInv /\ [BotNext]_botvars => BotInv'
  <2> SUFFICES ASSUME BotInv, [BotNext]_botvars PROVE BotInv' OBVIOUS
  <2>1. FanInv /\ ObsInv /\ CallInv BY DEF BotInv
  <2>2. ASSUME UNCHANGED calls PROVE CallInv' BY <2>1, <2>2 DEF calls, CallInv
  <2>3. ASSUME NEW c \in Connections,
               \/ \E stackchan \in BOOLEAN : Offer(c, stackchan)
               \/ Usage(c) \/ Hangup(c) \/ Disconnected(c) \/ RunnerEnds(c) \/ Speaks(c) \/ Text(c)
        PROVE  BotInv'
    <3>1. CASE \/ \E stackchan \in BOOLEAN : Offer(c, stackchan)
               \/ Usage(c) \/ Hangup(c) \/ Disconnected(c) \/ RunnerEnds(c)
      BY <2>1, <3>1, CallsKeep, QuietFan, QuietObs DEF BotInv
    <3>2. CASE Speaks(c)
      BY <2>1, <2>2, <3>2, BroadcastKeeps, QuietObs, RepliesKeep DEF Speaks, BotInv
    <3>3. CASE Text(c)
      <4>1. c \in sessions /\ Broadcast /\ UNCHANGED <<observer, bot, gone, missed, sessions>>
            /\ stray' = (stray \/ bot[c] # "running")
        BY <3>3 DEF Text
      <4>2. stray' = FALSE BY <2>1, <4>1 DEF CallInv
      <4>3. CallInv' BY <2>1, <4>1, <4>2 DEF CallInv
      <4> QED BY <2>1, <4>1, <4>3, BroadcastKeeps, QuietObs DEF BotInv
    <3> QED BY <2>3, <3>1, <3>2, <3>3
  <2>4. CASE Stream
    <3>1. PICK s \in Streams : Streaming(s) /\ UNCHANGED <<observer, calls>> BY <2>4 DEF Stream
    <3> QED BY <2>1, <2>2, <3>1, StreamingKeeps, QuietObs DEF BotInv
  <2>5. CASE Killed
    <3>1. TranscriptsCrash /\ UNCHANGED observer BY <2>5 DEF Killed, TranscriptsCrash
    <3>2. CallInv' BY <2>1, <2>5 DEF Killed, CallInv
    <3> QED BY <2>1, <3>1, <3>2, CrashKeepsFan, QuietObs DEF BotInv
  <2>6. CASE UNCHANGED botvars
    <3>1. UNCHANGED <<fanout, observer, calls>> BY <2>6 DEF botvars
    <3> QED BY <2>1, <2>2, <3>1, QuietFan, QuietObs DEF BotInv
  <2> QED BY <2>3, <2>4, <2>5, <2>6 DEF BotNext, Pipelines
<1> QED BY <1>1, <1>2, PTL DEF BotSpec

(* Whatever order peers leave, timeouts pass and texts come in, a text never goes to  *)
(* a pipeline already cancelled (bot.py:574, 584-588, 863-881).                        *)
THEOREM TextsReachRunning == BotSpec => []TextsReachPipelines
<1>1. BotInv => TextsReachPipelines BY DEF BotInv, CallInv, TextsReachPipelines
<1> QED BY <1>1, BotInductive, PTL

(* However slow any subscriber is, every row is delivered, waits, or was turned away   *)
(* by a queue of its own that was full (bot.py:619-641, 1040-1065).                    *)
THEOREM StreamsAccounted == BotSpec => []EachStreamAccounted
<1>1. BotInv => EachStreamAccounted BY DEF BotInv, FanInv
<1> QED BY <1>1, BotInductive, PTL

(* No interleaving of the two passes of a reply's frames logs a token twice or mixes   *)
(* two replies in one row (bot.py:644-679).                                            *)
THEOREM TokensOnce == BotSpec => []EachTokenOnce
<1>1. BotInv => EachTokenOnce BY DEF BotInv, ObsInv, EachTokenOnce
<1> QED BY <1>1, BotInductive, PTL

(* The queues keep their bound, whoever stops reading (bot.py:619, 1040-1041).         *)
THEOREM BotTypeCorrect == BotSpec => []BotTypeOK
<1>1. ASSUME BotInv PROVE BotTypeOK
  <2>1. doubled \in BOOLEAN /\ stray \in BOOLEAN BY <1>1 DEF BotInv, ObsInv, CallInv
  <2>2. FanTypes /\ ObsTypes BY <1>1 DEF BotInv, FanInv, ObsInv
  <2>3. CallInv BY <1>1 DEF BotInv
  <2> QED BY <2>1, <2>2, <2>3 DEF FanTypes, ObsTypes, Tokens, CallInv, BotTypeOK
<1> QED BY <1>1, BotInductive, PTL
----------------------------------------------------------------------------
(* The map and the pipelines say the same                                   *)

RunningListed == \A c \in Connections : bot[c] = "running" => c \in sessions

(* A text is refused only when no pipeline is running for it: with TextsReachRunning,  *)
(* the map holds the running pipelines and nothing else, over every order of offers,   *)
(* late usage figures, hang-ups, cancellations and the process's end                   *)
(* (bot.py:556-596, 863-881).                                                          *)
THEOREM RunningIsListed == BotSpec => []RunningListed
<1>1. BotInit => RunningListed BY DEF BotInit, RunningListed
<1>2. BotInv /\ RunningListed /\ [BotNext]_botvars => RunningListed'
  <2> SUFFICES ASSUME BotInv, RunningListed, [BotNext]_botvars PROVE RunningListed' OBVIOUS
  <2> USE DEF RunningListed
  <2>0. bot \in [Connections -> {"none", "usage", "running", "stopping", "over"}]
    BY DEF BotInv, CallInv
  <2>1. ASSUME NEW c \in Connections, NEW stackchan \in BOOLEAN, Offer(c, stackchan)
        PROVE  RunningListed'
    BY <2>0, <2>1 DEF Offer, Register
  <2>2. ASSUME NEW c \in Connections, Usage(c) \/ Hangup(c) \/ Disconnected(c) \/ RunnerEnds(c)
        PROVE  RunningListed'
    BY <2>0, <2>2 DEF Usage, Register, Hangup, Disconnected, RunnerEnds
  <2>3. ASSUME NEW c \in Connections, Speaks(c) \/ Text(c) PROVE RunningListed'
    BY <2>3 DEF Speaks, Text, calls
  <2>4. CASE Stream \/ UNCHANGED botvars BY <2>4 DEF Stream, botvars, calls
  <2>5. CASE Killed BY <2>5 DEF Killed
  <2> QED BY <2>1, <2>2, <2>3, <2>4, <2>5 DEF BotNext, Pipelines
<1> QED BY <1>1, <1>2, BotInductive, PTL DEF BotSpec

----------------------------------------------------------------------------
(* The order of rows                                                        *)

Increasing(q) == \A i, j \in 1 .. Len(q) : i < j => q[i] < q[j]

\* What waits in a queue is older rows before newer ones, each once.
RowsInOrder ==
  \A s \in Streams :
    /\ Increasing(queue[s])
    /\ \A i \in 1 .. Len(queue[s]) : queue[s][i] <= events

LEMMA BroadcastInOrder == ASSUME FanInv, RowsInOrder, Broadcast PROVE RowsInOrder'
<1>0. /\ queue \in [Streams -> Seq(1 .. MaxEvents)] /\ events \in Nat
      /\ events' = events + 1
      /\ queue' = [s \in Streams |-> IF s \in queues \ Full THEN Append(queue[s], events') ELSE queue[s]]
  BY DEF FanInv, FanTypes, Broadcast
<1> SUFFICES ASSUME NEW s \in Streams
             PROVE  /\ Increasing(queue'[s])
                    /\ \A i \in 1 .. Len(queue'[s]) : queue'[s][i] <= events'
  BY DEF RowsInOrder, Increasing
<1> DEFINE q == queue[s]
<1>1. /\ q \in Seq(Nat) /\ \A i \in 1 .. Len(q) : q[i] \in Nat /\ q[i] <= events
      /\ \A i, j \in 1 .. Len(q) : i < j => q[i] < q[j]
  BY <1>0 DEF RowsInOrder, Increasing
<1>2. queue'[s] = q \/ queue'[s] = Append(q, events + 1) BY <1>0
<1> HIDE DEF q
<1>3. CASE queue'[s] = q
  <2>1. \A i \in 1 .. Len(q) : q[i] <= events + 1 BY <1>0, <1>1
  <2> QED BY <1>0, <1>1, <1>3, <2>1 DEF Increasing
<1>4. CASE queue'[s] = Append(q, events + 1)
  <2> DEFINE new == events + 1
             r == queue'[s]
  <2>1. r = Append(q, new) /\ new \in Nat /\ new > events /\ events \in Nat BY <1>0, <1>4
  <2> HIDE DEF new, r
  <2>2. Len(r) = Len(q) + 1 /\ Len(q) \in Nat BY <1>1, <2>1
  <2>3. \A i \in 1 .. Len(q) + 1 : r[i] = IF i <= Len(q) THEN q[i] ELSE new
    BY <1>1, <2>1
  <2>4. ASSUME NEW i \in 1 .. Len(q) + 1 PROVE r[i] <= new
    <3>1. CASE i <= Len(q)
      <4>1. i \in 1 .. Len(q) /\ r[i] = q[i] BY <2>2, <2>3, <3>1
      <4>2. q[i] \in Nat /\ q[i] <= events BY <1>1, <4>1
      <4> QED BY <2>1, <4>1, <4>2
    <3>2. CASE ~(i <= Len(q)) BY <2>1, <2>3, <3>2
    <3> QED BY <3>1, <3>2
  <2>5. ASSUME NEW i \in 1 .. Len(q) + 1, NEW j \in 1 .. Len(q) + 1, i < j PROVE r[i] < r[j]
    <3>1. i \in 1 .. Len(q) /\ i <= Len(q) BY <2>2, <2>5
    <3>2. r[i] = q[i] /\ q[i] \in Nat /\ q[i] <= events BY <1>1, <2>3, <3>1
    <3>3. CASE j <= Len(q)
      <4>1. j \in 1 .. Len(q) /\ r[j] = q[j] BY <2>2, <2>3, <3>3
      <4> QED BY <1>1, <2>5, <3>1, <3>2, <4>1
    <3>4. CASE ~(j <= Len(q))
      <4>1. r[j] = new BY <2>3, <3>4
      <4> QED BY <2>1, <3>2, <4>1
    <3> QED BY <3>3, <3>4
  <2>6. Increasing(r) /\ \A i \in 1 .. Len(r) : r[i] <= new BY <2>2, <2>4, <2>5 DEF Increasing
  <2> QED BY <1>0, <2>6 DEF new, r
<1> QED BY <1>2, <1>3, <1>4

LEMMA DeliverInOrder ==
  ASSUME FanInv, RowsInOrder, NEW s \in Streams, Deliver(s) PROVE RowsInOrder'
<1>0. /\ queue \in [Streams -> Seq(1 .. MaxEvents)] /\ events' = events
      /\ queue[s] # << >> /\ queue' = [queue EXCEPT ![s] = Tail(queue[s])]
  BY DEF FanInv, FanTypes, Deliver
<1> DEFINE q == queue[s]
<1>1. q \in Seq(1 .. MaxEvents) /\ q # << >> /\ queue'[s] = Tail(q) BY <1>0
<1>2. /\ \A i \in 1 .. Len(q) : q[i] <= events
      /\ \A i, j \in 1 .. Len(q) : i < j => q[i] < q[j]
  BY DEF RowsInOrder, Increasing
<1> HIDE DEF q
<1>3. /\ Len(Tail(q)) = Len(q) - 1 /\ Len(q) \in Nat
      /\ \A i \in 1 .. Len(q) - 1 : Tail(q)[i] = q[i + 1] /\ i + 1 \in 1 .. Len(q)
  BY <1>1
<1>4. Increasing(Tail(q))
  <2> SUFFICES ASSUME NEW i \in 1 .. Len(q) - 1, NEW j \in 1 .. Len(q) - 1, i < j
               PROVE  Tail(q)[i] < Tail(q)[j]
    BY <1>3 DEF Increasing
  <2>1. i + 1 < j + 1 /\ i + 1 \in 1 .. Len(q) /\ j + 1 \in 1 .. Len(q) BY <1>3
  <2>2. q[i + 1] < q[j + 1] BY <1>2, <2>1
  <2> QED BY <1>3, <2>2
<1>5. \A i \in 1 .. Len(Tail(q)) : Tail(q)[i] <= events BY <1>2, <1>3
<1>6. \A t \in Streams \ {s} : queue'[t] = queue[t] BY <1>0
<1> QED BY <1>0, <1>1, <1>4, <1>5, <1>6 DEF RowsInOrder

(* A subscriber is given the rows in the order in which they were broadcast, none of  *)
(* them twice, whatever its queue turned away in between (bot.py:619-641, 1040-1065).  *)
THEOREM RowsStayInOrder == BotSpec => []RowsInOrder
<1>1. BotInit => RowsInOrder
  <2> SUFFICES ASSUME BotInit PROVE RowsInOrder OBVIOUS
  <2>1. queue = [s \in Streams |-> << >>] BY DEF BotInit, TranscriptsInit
  <2> QED BY <2>1 DEF RowsInOrder, Increasing
<1>2. BotInv /\ RowsInOrder /\ [BotNext]_botvars => RowsInOrder'
  <2> SUFFICES ASSUME BotInv, RowsInOrder, [BotNext]_botvars PROVE RowsInOrder' OBVIOUS
  <2>0. FanInv BY DEF BotInv
  <2>1. ASSUME queue' = queue, events' = events PROVE RowsInOrder'
    BY <2>1 DEF RowsInOrder, Increasing
  <2>2. ASSUME UNCHANGED fanout PROVE RowsInOrder' BY <2>1, <2>2 DEF fanout
  <2>3. ASSUME NEW c \in Connections,
               \/ \E stackchan \in BOOLEAN : Offer(c, stackchan)
               \/ Usage(c) \/ Hangup(c) \/ Disconnected(c) \/ RunnerEnds(c)
        PROVE  RowsInOrder'
    BY <2>2, <2>3 DEF Offer, Usage, Hangup, Disconnected, RunnerEnds
  <2>4. ASSUME NEW c \in Connections, Replies(c) PROVE RowsInOrder'
    <3>1. Broadcast \/ UNCHANGED fanout
      BY <2>4 DEF Replies, BeginReply, Token, EndReply, PassOn, SeeStart, SeeText, SeeEnd, Row
    <3> QED BY <2>0, <2>2, <3>1, BroadcastInOrder
  <2>5. ASSUME NEW c \in Connections, Speaks(c) \/ Text(c) PROVE RowsInOrder'
    BY <2>0, <2>4, <2>5, BroadcastInOrder DEF Speaks, Text
  <2>6. CASE Stream
    <3>1. PICK s \in Streams : Streaming(s) BY <2>6 DEF Stream
    <3>2. CASE Deliver(s) BY <2>0, <3>2, DeliverInOrder
    <3>3. CASE Subscribe(s) \/ Start(s) \/ LeavesEarly(s) \/ Leaves(s)
      BY <2>1, <3>3 DEF Subscribe, Start, LeavesEarly, Leaves
    <3> QED BY <3>1, <3>2, <3>3 DEF Streaming
  <2>7. CASE Killed BY <2>1, <2>7 DEF Killed, TranscriptsCrash
  <2>8. CASE UNCHANGED botvars BY <2>2, <2>8 DEF botvars
  <2> QED BY <2>3, <2>5, <2>6, <2>7, <2>8 DEF BotNext, Pipelines
<1> QED BY <1>1, <1>2, BotInductive, PTL DEF BotSpec
===============================================================================
