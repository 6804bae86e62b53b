------------------------------ MODULE WakeWord ------------------------------
(***************************************************************************)
(* The decision window of the wake engine, update_window of wake_word.cc.   *)
(* The neural model is an input: each inference yields a probability, in    *)
(* percent, of the set Probs.                                               *)
(***************************************************************************)
EXTENDS Integers, FiniteSets, Functions

CONSTANTS
  Probs,       \* the probabilities an inference may yield
  WindowLen,   \* WAKE_WINDOW_LEN
  MinHits,     \* WAKE_MIN_HITS
  Threshold,   \* WAKE_THRESHOLD
  PeakMin,     \* WAKE_PEAK_MIN
  AvgMin,      \* WAKE_AVG_MIN
  Cooldown     \* WAKE_COOLDOWN_MS, in frames

ASSUME WakeWordAssumption ==
  /\ WindowLen \in Nat \ {0} /\ MinHits \in 1 .. WindowLen /\ Cooldown \in Nat
  /\ Probs \subseteq 0 .. 100 /\ {Threshold, PeakMin, AvgMin} \subseteq 1 .. 100

VARIABLES
  window,     \* s_prob_window
  widx,       \* s_prob_window_idx
  wcount,     \* s_prob_window_count
  elapsed,    \* now_us - s_last_fire_us, which is 0 at boot
  fire_seq,   \* s_metrics.fire_seq
  spikes      \* inferences over Threshold since the last fire (read by properties only)

wake == <<window, widx, wcount, elapsed, fire_seq, spikes>>

Positions == 0 .. WindowLen - 1
Damped    == [i \in Positions |-> 0]
Hits(w)   == {i \in Positions : w[i] >= Threshold}
Sum(w)    == FoldFunction(LAMBDA p, total : p + total, 0, w)
Capped(n, top) == IF n < top THEN n ELSE top

WakeInit ==
  /\ window = Damped /\ widx = 0 /\ wcount = 0
  /\ elapsed = 0 /\ fire_seq = 0 /\ spikes = 0

Age == Capped(elapsed + 1, Cooldown + 1)

Fires(w, n) ==
  /\ n = WindowLen
  /\ Cardinality(Hits(w)) >= MinHits
  /\ \E i \in Positions : w[i] >= PeakMin
  /\ Sum(w) >= AvgMin * WindowLen
  /\ Age > Cooldown

\* A frame that completes no inference.
NoInference ==
  /\ elapsed' = Age
  /\ UNCHANGED <<window, widx, wcount, fire_seq, spikes>>

\* Planted: the window is not damped when it fires.
BugNoDamping(p) ==
  LET w == [window EXCEPT ![widx] = p]
      n == Capped(wcount + 1, WindowLen)
      s == IF p >= Threshold THEN Capped(spikes + 1, WindowLen) ELSE spikes
  IN  /\ widx' = (widx + 1) % WindowLen
      /\ window' = w /\ wcount' = n
      /\ IF Fires(w, n)
         THEN elapsed' = 0 /\ fire_seq' = fire_seq + 1 /\ spikes' = 0
         ELSE elapsed' = Age /\ spikes' = s /\ UNCHANGED fire_seq

\* update_window: a fire damps the window, so that one burst fires once.
Infer(p) ==
  LET w == [window EXCEPT ![widx] = p]
      n == Capped(wcount + 1, WindowLen)
      s == IF p >= Threshold THEN Capped(spikes + 1, WindowLen) ELSE spikes
  IN  /\ widx' = (widx + 1) % WindowLen
      /\ IF Fires(w, n)
         THEN /\ window' = Damped /\ wcount' = 0
              /\ elapsed' = 0 /\ fire_seq' = fire_seq + 1 /\ spikes' = 0
         ELSE /\ window' = w /\ wcount' = n
              /\ elapsed' = Age /\ spikes' = s /\ UNCHANGED fire_seq

(* One burst fires once: every spike that the window still counts came after the last *)
(* fire, so a further fire takes MinHits new ones (wake_word.cc:341-358).              *)
OneFirePerBurst == Cardinality(Hits(window)) <= spikes
=============================================================================
