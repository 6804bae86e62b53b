------------------------------ MODULE Playback ------------------------------
(***************************************************************************)
(* The speaker: the libpeer callback writes the decoded reply into a stream  *)
(* buffer without waiting, playbackTask is the only writer of the I2S bus    *)
(* and plays what it finds there, or the chirp that captureTask asked for.   *)
(* The buffer is counted in half packets, the largest grain at which a read  *)
(* can come apart: <<n, h>> is half h of the n-th 20 ms of the reply.        *)
(***************************************************************************)
EXTENDS Naturals, Sequences

CONSTANTS
  Room,      \* kPlaybackBufBytes, in half packets
  Payloads,  \* packets' worth of samples that one inbound RTP payload may carry
  MaxReply   \* bound: the reply is followed for this many packets

ASSUME PlaybackAssumption ==
  /\ Room \in Nat \ {0} /\ Room % 2 = 0
  /\ Payloads \subseteq Nat \ {0}
  /\ MaxReply \in Nat

VARIABLES
  active,  \* conversation_active_
  chirp,   \* chirp_pending_, "none" for -1
  buf,     \* playback_buf_
  ppc,     \* playbackTask: at its top, playing a chirp, about to read the buffer
  blip,    \* the chirp it plays
  spoken,  \* what its last read took
  rx,      \* packets decoded so far (read by properties only)
  kept,    \* the last packet that found room (read by properties only)
  played,  \* the last packet played (read by properties only)
  asked,   \* chirps asked for (read by properties only)
  heard    \* of those, the latest that was played (read by properties only)

turn    == <<active, chirp, asked>>
stream  == <<buf, rx, kept>>
speaker == <<ppc, blip, spoken, played, heard>>
pvars   == <<turn, stream, speaker>>

Chirps  == {"wake", "end"}
Halves  == (1 .. MaxReply) \X {1, 2}
Smaller(a, b) == IF a < b THEN a ELSE b

PlaybackInit ==
  /\ active = FALSE /\ chirp = "none" /\ asked = 0
  /\ buf = << >> /\ rx = 0 /\ kept = 0
  /\ ppc = "top" /\ blip = "none" /\ spoken = << >> /\ played = 0 /\ heard = 0

----------------------------------------------------------------------------
(* captureTask. When a turn's deadline lapses, and when mainLoopTask gives a *)
(* turn up, is the matter of Session: here both are free.                    *)

Ask(kind) == chirp' = kind /\ asked' = asked + 1

\* conversation_active_.exchange(true): only the edge asks for the chirp.
Arm ==
  /\ active' = TRUE
  /\ IF active THEN UNCHANGED <<chirp, asked>> ELSE Ask("wake")
  /\ UNCHANGED <<stream, speaker>>

Lapse ==
  /\ active
  /\ active' = FALSE
  /\ Ask("end")
  /\ UNCHANGED <<stream, speaker>>

\* buildAndOffer and mainLoopTask end a turn without a chirp.
Abandon ==
  /\ active
  /\ active' = FALSE
  /\ UNCHANGED <<chirp, asked, stream, speaker>>

----------------------------------------------------------------------------
(* Session::onInboundAudio                                                 *)

\* The halves of the packets first .. first + n - 1.
Decoded(first, n) == [i \in 1 .. 2 * n |-> <<first + (i - 1) \div 2, ((i - 1) % 2) + 1>>]

\* Planted: a buffer one half packet short of what the constant says.
BugShort(pcm) == SubSeq(pcm, 1, Smaller(Len(pcm), Room - 1 - Len(buf)))

Fitting(pcm) == SubSeq(pcm, 1, Smaller(Len(pcm), Room - Len(buf)))

\* xStreamBufferSend with no wait takes what fits and drops the rest.
Inbound(n) ==
  /\ rx + n <= MaxReply
  /\ LET part == Fitting(Decoded(rx + 1, n))
     IN  /\ buf' = buf \o part
         /\ kept' = IF part = << >> THEN kept ELSE part[Len(part)][1]
  /\ rx' = rx + n
  /\ UNCHANGED <<turn, speaker>>

----------------------------------------------------------------------------
(* playbackTask                                                            *)

\* chirp_pending_.exchange(-1)
TakeChirp ==
  /\ ppc = "top"
  /\ IF chirp = "none"
     THEN ppc' = "read" /\ UNCHANGED <<blip, heard>>
     ELSE ppc' = "blip" /\ blip' = chirp /\ heard' = asked
  /\ chirp' = "none"
  /\ UNCHANGED <<active, asked, stream, spoken, played>>

\* Planted: chirp_pending_ is reset after the chirp instead of before it.
BugResetLate ==
  /\ ppc = "blip"
  /\ ppc' = "read" /\ blip' = "none" /\ chirp' = "none"
  /\ UNCHANGED <<active, asked, stream, spoken, played, heard>>

\* Planted: what arrived during the chirp is thrown away as stale.
BugFlushes ==
  /\ ppc = "blip"
  /\ ppc' = "read" /\ blip' = "none" /\ buf' = << >>
  /\ UNCHANGED <<turn, rx, kept, spoken, played, heard>>

\* The whole chirp is written before the buffer is looked at again.
PlayChirp ==
  /\ ppc = "blip"
  /\ ppc' = "read" /\ blip' = "none"
  /\ UNCHANGED <<turn, stream, spoken, played, heard>>

\* A read of at most one packet; what is missing, all of it included, is silence.
PlayBuffer ==
  /\ ppc = "read"
  /\ LET n == Smaller(2, Len(buf))
     IN  /\ spoken' = SubSeq(buf, 1, n)
         /\ buf' = SubSeq(buf, n + 1, Len(buf))
         /\ played' = IF n = 0 THEN played ELSE buf[n][1]
  /\ ppc' = "top"
  /\ UNCHANGED <<turn, rx, kept, blip, heard>>

Play == TakeChirp \/ PlayChirp \/ PlayBuffer

----------------------------------------------------------------------------
(* The buffer holds at most what was created, and the speaker never runs ahead of the  *)
(* reply (session.cpp:241, 426, 754-756).                                              *)
PlaybackTypeOK ==
  /\ active \in BOOLEAN /\ chirp \in Chirps \cup {"none"} /\ asked \in Nat
  /\ buf \in Seq(Halves) /\ Len(buf) <= Room
  /\ rx \in 0 .. MaxReply /\ kept \in 0 .. rx /\ played \in 0 .. kept
  /\ ppc \in {"top", "blip", "read"} /\ blip \in Chirps \cup {"none"}
  /\ spoken \in Seq(Halves) /\ heard \in 0 .. asked

(* Never a half packet padded with silence, the click that spoils the echo canceller's *)
(* reference: a packet is played whole or, when the buffer is full, dropped whole      *)
(* (session.cpp:123-130, 426, 754-765).                                                *)
PlaysWholePackets ==
  spoken = << >> \/ \E n \in 1 .. rx : spoken = Decoded(n, 1)

(* What found room in the buffer is played, whatever chirps come in between            *)
(* (session.cpp:735-757).                                                              *)
ReplyIsPlayed == \A n \in 1 .. MaxReply : (kept >= n) ~> (played >= n)
=============================================================================
