---------------------------- MODULE SessionStream ----------------------------
(***************************************************************************)
(* Session with the uplink as the backend's G.722 decoder receives it.     *)
(* G.722 is stateful: the decoder of a connection follows the encoder only *)
(* if the first packet it gets is the first one after an encoder reset.    *)
(***************************************************************************)
EXTENDS Session

VARIABLES
  stream,  \* what the present peer delivered: nothing yet, a stream that began with an
           \* encoder reset, or one that did not
  gap      \* what has happened to the utterance so far that can break the stream

svars == <<vars, stream, gap>>

Streams == {"empty", "whole", "broken"}
Causes  == {"overflow",   \* the backlog was full and dropped its oldest packet
            "refused",    \* a packet was popped and sendAudio refused it
            "handover",   \* the peer was replaced after packets had left the backlog
            "rewake"}     \* a new utterance began on a peer that had carried another

Delivered == cpc = "send" /\ ring' # ring /\ peer = "completed"
Refused   == cpc = "send" /\ ring' # ring /\ peer # "completed"
Overflow  == cpc = "encode" /\ cpc' # "encode" /\ active /\ Len(ring) = RingCap
Destroyed == peer # "none" /\ peer' = "none"

Continues(packet) ==
  CASE stream = "empty" -> IF packet = "head" THEN "whole" ELSE "broken"
    [] stream = "whole" -> IF packet = "cont" THEN "whole" ELSE "broken"
    [] OTHER            -> "broken"

SInit == Init /\ stream = "empty" /\ gap = {}

StreamHistory ==
  /\ stream' = CASE Delivered -> Continues(Head(ring))
                 [] Destroyed -> "empty"
                 [] OTHER     -> stream
  /\ gap' = CASE cpc = "armnew" /\ cpc' = "arm" -> IF stream = "empty" THEN {} ELSE {"rewake"}
              [] Overflow                       -> gap \cup {"overflow"}
              [] Refused                        -> gap \cup {"refused"}
              [] Destroyed /\ stream # "empty"  -> gap \cup {"handover"}
              [] OTHER                          -> gap

SNext == Next /\ StreamHistory
SSpec == SInit /\ [][SNext]_svars

(* Every way the uplink of a connection can lose its beginning is known: if the      *)
(* decoder is out of step, the backlog overflowed, sendAudio refused a packet, the   *)
(* peer was replaced in mid-utterance, or the turn was re-armed on the old peer      *)
(* (session.cpp:556-580, 660-668, 689-715, peer_connection.c:205-211).               *)
StreamBreaksOnlyBy == stream = "broken" => gap # {}
=============================================================================
