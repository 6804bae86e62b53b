----------------------------- MODULE Audio_proofs -----------------------------
(***************************************************************************)
(* The circular array is the bounded queue that drops its oldest element, for *)
(* every capacity and every content; the safety of the wake capture that is    *)
(* built on it, for every window and every number of frames; and that of the    *)
(* audio tasks together, whose steps are the capture's steps, for every size of  *)
(* the playback buffer and of the inbound payloads.                              *)
(***************************************************************************)
EXTENDS Audio, FiniteSetTheorems, TLAPS

----------------------------------------------------------------------------
(* The circular array                                                       *)

\* What the array stands for: a queue of at most Capacity elements.
Offer(q, x) == Append(IF Len(q) < Capacity THEN q ELSE Tail(q), x)

(* An index that has passed the end of the array at most once.                *)
LEMMA Wrap ==
  ASSUME NEW a \in 0 .. 2 * Capacity - 1
  PROVE  a % Capacity = IF a < Capacity THEN a ELSE a - Capacity
BY CapacityAssumption

(* Where the elements of a buffer are: from its head on, each in a slot of its *)
(* own, and behind the last of a full buffer lies its head.                   *)
LEMMA Places ==
  ASSUME NEW h \in Slots, NEW n \in 0 .. Capacity
  PROVE  /\ (h + n) % Capacity \in Slots
         /\ (h + Capacity) % Capacity = h
         /\ \A i \in 1 .. n : n < Capacity => (h + i - 1) % Capacity # (h + n) % Capacity
         /\ \A i \in 1 .. Capacity - 1 : (h + i) % Capacity # h
<1> DEFINE W(a) == IF a < Capacity THEN a ELSE a - Capacity
<1>1. h \in 0 .. Capacity - 1 /\ h \in Int /\ n \in Int /\ Capacity \in Int
  BY CapacityAssumption DEF Slots
<1>2. ASSUME NEW k \in 0 .. Capacity PROVE (h + k) % Capacity = W(h + k)
  <2>1. h + k \in 0 .. 2 * Capacity - 1 BY <1>1
  <2> QED BY <2>1, Wrap
<1>3. (h + n) % Capacity \in Slots BY <1>1, <1>2 DEF Slots
<1>4. (h + Capacity) % Capacity = h
  <2>1. Capacity \in 0 .. Capacity BY CapacityAssumption
  <2>2. (h + Capacity) % Capacity = W(h + Capacity) BY <1>2, <2>1
  <2> QED BY <1>1, <2>2
<1>5. ASSUME NEW i \in 1 .. n, n < Capacity
      PROVE  (h + i - 1) % Capacity # (h + n) % Capacity
  <2>1. i - 1 \in 0 .. Capacity /\ h + i - 1 = h + (i - 1) BY <1>1
  <2>2. (h + (i - 1)) % Capacity = W(h + (i - 1)) BY <1>2, <2>1
  <2>3. (h + n) % Capacity = W(h + n) BY <1>2
  <2>4. W(h + (i - 1)) # W(h + n) BY <1>1, <1>5
  <2> QED BY <2>1, <2>2, <2>3, <2>4
<1>6. ASSUME NEW i \in 1 .. Capacity - 1 PROVE (h + i) % Capacity # h
  <2>1. i \in 0 .. Capacity BY <1>1
  <2>2. (h + i) % Capacity = W(h + i) BY <1>2, <2>1
  <2>3. W(h + i) # h BY <1>1, <1>6
  <2> QED BY <2>2, <2>3
<1> QED BY <1>3, <1>4, <1>5, <1>6

(* Counting from the next slot is counting one further.                       *)
LEMMA NextPlace ==
  ASSUME NEW h \in Slots, NEW i \in 1 .. Capacity
  PROVE  (((h + 1) % Capacity) + i - 1) % Capacity = (h + i) % Capacity
<1>1. h \in 0 .. Capacity - 1 /\ h \in Int /\ i \in Int /\ Capacity \in Int
  BY CapacityAssumption DEF Slots
<1> DEFINE W(a) == IF a < Capacity THEN a ELSE a - Capacity
<1>2. ASSUME NEW k \in 0 .. Capacity PROVE (h + k) % Capacity = W(h + k)
  <2>1. h + k \in 0 .. 2 * Capacity - 1 BY <1>1
  <2> QED BY <2>1, Wrap
<1>3. 1 \in 0 .. Capacity /\ i \in 0 .. Capacity BY <1>1
<1>4. (h + 1) % Capacity = W(h + 1) BY <1>2, <1>3
<1>5. (h + i) % Capacity = W(h + i) BY <1>2, <1>3
<1>6. CASE h = Capacity - 1
  <2>1. ((h + 1) % Capacity) + i - 1 = h + i - Capacity BY <1>1, <1>4, <1>6
  <2>2. h + i - Capacity \in 0 .. 2 * Capacity - 1 BY <1>1, <1>6
  <2>3. (h + i - Capacity) % Capacity = h + i - Capacity BY <1>1, <1>6, <2>2, Wrap
  <2> QED BY <1>1, <1>5, <1>6, <2>1, <2>3
<1>7. CASE h # Capacity - 1
  <2>1. ((h + 1) % Capacity) + i - 1 = h + i BY <1>1, <1>4, <1>7
  <2> QED BY <2>1
<1> QED BY <1>6, <1>7

(* What the contents of a buffer are, as a sequence.                          *)
LEMMA ContentsIsSeq ==
  ASSUME NEW Values, NEW b \in Buffers(Values)
  PROVE  /\ Contents(b) \in Seq(Values) /\ Len(Contents(b)) = b.count
         /\ b.count \in 0 .. Capacity /\ b.head \in Slots /\ b.slots \in [Slots -> Values]
         /\ \A i \in 1 .. b.count :
              /\ (b.head + i - 1) % Capacity \in Slots
              /\ Contents(b)[i] = b.slots[(b.head + i - 1) % Capacity]
<1>1. b.count \in 0 .. Capacity /\ b.head \in Slots /\ b.slots \in [Slots -> Values]
  BY DEF Buffers
<1>2. ASSUME NEW i \in 1 .. b.count PROVE (b.head + i - 1) % Capacity \in Slots
  <2>1. i - 1 \in 0 .. Capacity /\ b.head + i - 1 = b.head + (i - 1)
    BY <1>1, CapacityAssumption DEF Slots
  <2> QED BY <1>1, <2>1, Places
<1>3. Contents(b) \in [1 .. b.count -> Values] BY <1>1, <1>2 DEF Contents
<1>4. b.count \in Nat BY <1>1, CapacityAssumption
<1>5. Contents(b) \in Seq(Values) /\ Len(Contents(b)) = b.count BY <1>3, <1>4
<1> QED BY <1>1, <1>2, <1>5 DEF Contents

(* ring_push and cap_push: the array does what the queue does, and its count   *)
(* and head stay in range (session.cpp:567-573, 589-596).                      *)
THEOREM PutIsOffer ==
  ASSUME NEW Values, NEW b \in Buffers(Values), NEW x \in Values
  PROVE  Put(b, x) \in Buffers(Values) /\ Contents(Put(b, x)) = Offer(Contents(b), x)
<1> DEFINE c == Put(b, x)
           at == (b.head + b.count) % Capacity
<1>1. /\ b.count \in 0 .. Capacity /\ b.head \in Slots /\ b.slots \in [Slots -> Values]
      /\ Contents(b) \in Seq(Values) /\ Len(Contents(b)) = b.count
  BY ContentsIsSeq
<1>2. 1 \in 0 .. Capacity BY CapacityAssumption
<1>3. at \in Slots /\ (b.head + 1) % Capacity \in Slots BY <1>1, <1>2, Places
<1>4. /\ c.slots = [b.slots EXCEPT ![at] = x]
      /\ c.head = IF b.count < Capacity THEN b.head ELSE (b.head + 1) % Capacity
      /\ c.count = IF b.count < Capacity THEN b.count + 1 ELSE b.count
  BY DEF Put
<1>5. c \in Buffers(Values)
  <2>1. c.slots \in [Slots -> Values] BY <1>1, <1>3, <1>4
  <2>2. c.head \in Slots BY <1>1, <1>3, <1>4
  <2>3. c.count \in 0 .. Capacity BY <1>1, <1>4, CapacityAssumption
  <2> QED BY <2>1, <2>2, <2>3 DEF Put, Buffers
<1>6. /\ Contents(c) \in Seq(Values) /\ Len(Contents(c)) = c.count
      /\ \A i \in 1 .. c.count : Contents(c)[i] = c.slots[(c.head + i - 1) % Capacity]
  BY <1>5, ContentsIsSeq
<1> HIDE DEF c, at
<1>7. CASE b.count < Capacity
  <2>1. c.head = b.head /\ c.count = b.count + 1 BY <1>4, <1>7
  <2>2. Offer(Contents(b), x) = Append(Contents(b), x) BY <1>1, <1>7 DEF Offer
  <2>3. ASSUME NEW i \in 1 .. c.count PROVE Contents(c)[i] = Append(Contents(b), x)[i]
    <3>1. CASE i = c.count
      <4>1. c.head + i - 1 = b.head + b.count BY <1>1, <2>1, <3>1, CapacityAssumption DEF Slots
      <4>2. Contents(c)[i] = c.slots[at] BY <1>6, <4>1 DEF at
      <4>3. Contents(c)[i] = x BY <1>1, <1>3, <1>4, <4>2
      <4> QED BY <1>1, <2>1, <3>1, <4>3
    <3>2. CASE i # c.count
      <4>1. i \in 1 .. b.count BY <1>1, <2>1, <3>2
      <4>3. (b.head + i - 1) % Capacity # at BY <1>1, <1>7, <4>1, Places DEF at
      <4>4. (b.head + i - 1) % Capacity \in Slots BY <4>1, ContentsIsSeq
      <4>5. Contents(c)[i] = b.slots[(b.head + i - 1) % Capacity]
        BY <1>1, <1>4, <1>6, <2>1, <4>3, <4>4
      <4>6. Contents(b)[i] = b.slots[(b.head + i - 1) % Capacity] BY <4>1, ContentsIsSeq
      <4> QED BY <1>1, <4>1, <4>5, <4>6
    <3> QED BY <3>1, <3>2
  <2> QED BY <1>1, <1>5, <1>6, <2>1, <2>2, <2>3 DEF c
<1>8. CASE b.count = Capacity
  <2>1. c.head = (b.head + 1) % Capacity /\ c.count = Capacity
    BY <1>4, <1>8, CapacityAssumption
  <2>2. Offer(Contents(b), x) = Append(Tail(Contents(b)), x) BY <1>1, <1>8 DEF Offer
  <2>3. Tail(Contents(b)) \in Seq(Values) /\ Len(Tail(Contents(b))) = Capacity - 1
    BY <1>1, <1>8, CapacityAssumption
  <2>4. at = b.head BY <1>1, <1>8, Places DEF at
  <2>5. ASSUME NEW i \in 1 .. Capacity
        PROVE  (c.head + i - 1) % Capacity = IF i = Capacity THEN at ELSE (b.head + i) % Capacity
    <3>1. (c.head + i - 1) % Capacity = (b.head + i) % Capacity BY <1>1, <2>1, NextPlace
    <3> QED BY <1>8, <3>1 DEF at
  <2>6. ASSUME NEW i \in 1 .. Capacity PROVE Contents(c)[i] = Append(Tail(Contents(b)), x)[i]
    <3>1. Contents(c)[i] = c.slots[(c.head + i - 1) % Capacity] BY <1>6, <2>1
    <3>2. CASE i = Capacity
      <4>1. Contents(c)[i] = x BY <1>1, <1>3, <1>4, <2>5, <3>1, <3>2
      <4> QED BY <2>3, <3>2, <4>1, CapacityAssumption
    <3>3. CASE i # Capacity
      <4>1. i + 1 \in 1 .. b.count /\ i \in 1 .. Len(Tail(Contents(b)))
        BY <1>8, <2>3, <3>3, CapacityAssumption
      <4>2. i \in 1 .. Capacity - 1 /\ i \in 0 .. Capacity BY <3>3, CapacityAssumption
      <4>3. (b.head + i) % Capacity # at /\ (b.head + i) % Capacity \in Slots
        BY <1>1, <2>4, <4>2, Places
      <4>4. Contents(c)[i] = b.slots[(b.head + i) % Capacity]
        BY <1>1, <1>4, <2>5, <3>1, <3>3, <4>3
      <4>5. Contents(b)[i + 1] = b.slots[(b.head + (i + 1) - 1) % Capacity]
        BY <4>1, ContentsIsSeq
      <4>6. b.head + (i + 1) - 1 = b.head + i BY <1>1, CapacityAssumption DEF Slots
      <4>7. Tail(Contents(b))[i] = Contents(b)[i + 1] BY <1>1, <4>1
      <4> QED BY <2>3, <4>1, <4>4, <4>5, <4>6, <4>7
    <3> QED BY <3>2, <3>3
  <2>7. Append(Tail(Contents(b)), x) \in Seq(Values)
        /\ Len(Append(Tail(Contents(b)), x)) = Capacity
    BY <2>3, CapacityAssumption
  <2> QED BY <1>5, <1>6, <2>1, <2>2, <2>6, <2>7 DEF c
<1> QED BY <1>1, <1>7, <1>8, CapacityAssumption

(* ring_pop: it returns the front of the queue and leaves the rest             *)
(* (session.cpp:574-580).                                                      *)
THEOREM OldestIsHead ==
  ASSUME NEW Values, NEW b \in Buffers(Values), b.count > 0
  PROVE  /\ Oldest(b) = Head(Contents(b))
         /\ DropOldest(b) \in Buffers(Values) /\ Contents(DropOldest(b)) = Tail(Contents(b))
<1> DEFINE c == DropOldest(b)
<1>1. /\ b.count \in 1 .. Capacity /\ b.head \in Slots /\ b.slots \in [Slots -> Values]
      /\ Contents(b) \in Seq(Values) /\ Len(Contents(b)) = b.count
  BY ContentsIsSeq, CapacityAssumption
<1>2. 1 \in 0 .. Capacity /\ 0 \in 0 .. Capacity /\ Capacity \in Nat BY CapacityAssumption
<1>3. Contents(b)[1] = b.slots[b.head]
  <2>1. b.head \in 0 .. Capacity - 1 BY <1>1 DEF Slots
  <2>2. b.head + 1 - 1 = b.head /\ b.head % Capacity = b.head BY <2>1, CapacityAssumption
  <2>3. 1 \in 1 .. b.count BY <1>1
  <2>4. Contents(b)[1] = b.slots[(b.head + 1 - 1) % Capacity] BY <2>3, ContentsIsSeq
  <2> QED BY <2>2, <2>4
<1>4. c.slots = b.slots /\ c.head = (b.head + 1) % Capacity /\ c.count = b.count - 1
  BY DEF DropOldest, Buffers
<1>5. c \in Buffers(Values)
  <2>1. c.head \in Slots BY <1>1, <1>2, <1>4, Places
  <2>2. c.count \in 0 .. Capacity BY <1>1, <1>2, <1>4
  <2> QED BY <1>1, <1>4, <2>1, <2>2 DEF DropOldest, Buffers
<1>6. /\ Contents(c) \in Seq(Values) /\ Len(Contents(c)) = b.count - 1
      /\ \A i \in 1 .. c.count : Contents(c)[i] = c.slots[(c.head + i - 1) % Capacity]
  BY <1>4, <1>5, ContentsIsSeq
<1> HIDE DEF c
<1>7. ASSUME NEW i \in 1 .. b.count - 1 PROVE Contents(c)[i] = Tail(Contents(b))[i]
  <2>1. i + 1 \in 1 .. b.count /\ i \in 1 .. Capacity /\ i \in 1 .. c.count
    BY <1>1, <1>2, <1>4
  <2>2. b.head + (i + 1) - 1 = b.head + i BY <1>1, <1>2 DEF Slots
  <2>3. (c.head + i - 1) % Capacity = (b.head + i) % Capacity BY <1>1, <1>4, <2>1, NextPlace
  <2>4. Contents(b)[i + 1] = b.slots[(b.head + i) % Capacity] BY <2>1, <2>2, ContentsIsSeq
  <2>5. Contents(c)[i] = b.slots[(b.head + i) % Capacity] BY <1>4, <1>6, <2>1, <2>3
  <2>6. Tail(Contents(b))[i] = Contents(b)[i + 1] BY <1>1
  <2> QED BY <2>4, <2>5, <2>6
<1>8. Tail(Contents(b)) \in Seq(Values) /\ Len(Tail(Contents(b))) = b.count - 1 BY <1>1
<1>9. Contents(c) = Tail(Contents(b)) BY <1>1, <1>6, <1>7, <1>8
<1>10. Oldest(b) = Head(Contents(b)) BY <1>1, <1>3 DEF Oldest
<1> QED BY <1>5, <1>9, <1>10 DEF c

(* The two copies of the wake snapshot meet at the end of the array: together   *)
(* they are the contents in order, also while the buffer is not full           *)
(* (session.cpp:650-655).                                                      *)
THEOREM LinearIsContents ==
  ASSUME NEW Values, NEW b \in Buffers(Values)
  PROVE  Linear(b) = Contents(b)
<1> DEFINE first == IF b.count < Capacity - b.head THEN b.count ELSE Capacity - b.head
           at(i) == IF i <= first THEN b.head + i - 1 ELSE i - first - 1
           W(a) == IF a < Capacity THEN a ELSE a - Capacity
<1>1. /\ b.count \in 0 .. Capacity /\ b.head \in 0 .. Capacity - 1
      /\ b.count \in Int /\ b.head \in Int /\ Capacity \in Int
  BY CapacityAssumption DEF Buffers, Slots
<1>2. Linear(b) = [i \in 1 .. b.count |->
                     IF i <= first THEN b.slots[b.head + i - 1] ELSE b.slots[i - first - 1]]
  BY DEF Linear
<1>3. ASSUME NEW i \in 1 .. b.count PROVE at(i) = (b.head + i - 1) % Capacity
  <2>1. (b.head + i - 1) % Capacity = W(b.head + i - 1)
    <3>1. b.head + i - 1 \in 0 .. 2 * Capacity - 1 BY <1>1
    <3> QED BY <3>1, Wrap
  <2>2. CASE b.head + i - 1 < Capacity
    <3>1. (b.head + i - 1) % Capacity = b.head + i - 1 BY <2>1, <2>2
    <3>2. at(i) = b.head + i - 1 BY <1>1, <2>2
    <3> QED BY <3>1, <3>2
  <2>3. CASE b.head + i - 1 >= Capacity
    <3>1. ~(b.head + i - 1 < Capacity) BY <1>1, <2>3
    <3>2. (b.head + i - 1) % Capacity = b.head + i - 1 - Capacity BY <1>1, <2>1, <3>1
    <3>3. at(i) = b.head + i - 1 - Capacity BY <1>1, <2>3
    <3> QED BY <3>2, <3>3
  <2> QED BY <1>1, <2>2, <2>3
<1>4. ASSUME NEW i \in 1 .. b.count
      PROVE  (IF i <= first THEN b.slots[b.head + i - 1] ELSE b.slots[i - first - 1])
               = b.slots[(b.head + i - 1) % Capacity]
  BY <1>3
<1> QED BY <1>2, <1>4 DEF Contents

----------------------------------------------------------------------------
(* The wake capture                                                         *)

(* The ring holds the last frames, and what was snapshot is what led up to its  *)
(* fire.                                                                        *)
LastFrames(t) ==
  [i \in 1 .. Capped(t, Capacity) |-> t - Capped(t, Capacity) + i]

RingInv ==
  /\ frame \in Nat
  /\ cap_ring \in Buffers(Nat)
  /\ Contents(cap_ring) = LastFrames(frame)

FireInv ==
  /\ fire_seq \in Nat /\ capture_seq \in Nat /\ posts \in Nat
  /\ fire_seq = capture_seq
  /\ wake_metrics = capture_seq
  /\ wake_at \in Nat /\ wake_pcm = LastFrames(wake_at)

(* One frame more: the queue of the last frames drops its oldest.               *)
LEMMA OneFrameMore ==
  ASSUME NEW t \in Nat
  PROVE  /\ LastFrames(t) \in Seq(Int) /\ Len(LastFrames(t)) = Capped(t, Capacity)
         /\ Offer(LastFrames(t), t + 1) = LastFrames(t + 1)
<1> DEFINE n == Capped(t, Capacity)
           m == Capped(t + 1, Capacity)
           q == LastFrames(t)
<1>1. n \in Nat /\ m \in Nat /\ Capacity \in Nat /\ Capacity > 0
  BY CapacityAssumption DEF Capped
<1>2. q = [i \in 1 .. n |-> t - n + i] BY DEF LastFrames
<1>3. LastFrames(t + 1) = [i \in 1 .. m |-> t + 1 - m + i] BY <1>1 DEF LastFrames
<1> HIDE DEF n, m, q
<1>4. q \in Seq(Int) /\ Len(q) = n BY <1>1, <1>2
<1>5. CASE t < Capacity
  <2>1. n = t /\ m = t + 1 BY <1>1, <1>5 DEF Capped, n, m
  <2>2. Offer(q, t + 1) = Append(q, t + 1) BY <1>4, <1>5, <2>1 DEF Offer
  <2>3. Append(q, t + 1) = LastFrames(t + 1)
    BY <1>1, <1>2, <1>3, <1>4, <2>1
  <2> QED BY <1>4, <2>2, <2>3 DEF n, q
<1>6. CASE t >= Capacity
  <2>1. n = Capacity /\ m = Capacity BY <1>1, <1>6 DEF Capped, n, m
  <2>2. Offer(q, t + 1) = Append(Tail(q), t + 1) BY <1>1, <1>4, <2>1 DEF Offer
  <2>3. Tail(q) \in Seq(Int) /\ Len(Tail(q)) = Capacity - 1 BY <1>1, <1>4, <2>1
  <2>4. ASSUME NEW i \in 1 .. Capacity - 1 PROVE Tail(q)[i] = t - Capacity + (i + 1)
    <3>1. i + 1 \in 1 .. n /\ i \in 1 .. Len(q) - 1 BY <1>1, <1>4, <2>1
    <3>2. Tail(q)[i] = q[i + 1] BY <1>4, <3>1
    <3> QED BY <1>2, <2>1, <3>1, <3>2
  <2>5. Append(Tail(q), t + 1) = LastFrames(t + 1)
    BY <1>1, <1>3, <2>1, <2>3, <2>4
  <2> QED BY <1>4, <2>2, <2>5 DEF n, q
<1> QED BY <1>1, <1>5, <1>6 DEF n, q

(* An empty buffer holds nothing, like no frames at all.                        *)
LEMMA NothingYet == CaptureInit => RingInv /\ FireInv
<1> SUFFICES ASSUME CaptureInit PROVE RingInv /\ FireInv OBVIOUS
<1>1. frame = 0 /\ cap_ring = Empty(0) /\ wake_pcm = << >> /\ wake_at = 0
  BY DEF CaptureInit
<1>2. LastFrames(0) = << >>
  <2>1. Capped(0, Capacity) = 0 BY CapacityAssumption DEF Capped
  <2> QED BY <2>1 DEF LastFrames
<1>3. cap_ring \in Buffers(Nat)
  BY <1>1, CapacityAssumption DEF Empty, Buffers, Slots
<1>4. Contents(cap_ring) = << >>
  BY <1>1 DEF Contents, Empty
<1>5. fire_seq = 0 /\ capture_seq = 0 /\ posts = 0 /\ wake_metrics = 0
  BY DEF CaptureInit, WakeInit
<1> QED BY <1>1, <1>2, <1>3, <1>4, <1>5 DEF RingInv, FireInv

(* What a frame does to the ring and to the number of fires.                    *)
LEMMA HearStep ==
  ASSUME RingInv, Hear PROVE RingInv'
<1>1. frame \in Nat /\ frame' = frame + 1 /\ cap_ring' = Put(cap_ring, frame')
  BY DEF RingInv, Hear
<1>2. cap_ring \in Buffers(Nat) /\ frame' \in Nat BY <1>1 DEF RingInv
<1>3. cap_ring' \in Buffers(Nat)
      /\ Contents(cap_ring') = Offer(Contents(cap_ring), frame')
  BY <1>1, <1>2, PutIsOffer
<1>4. Offer(LastFrames(frame), frame + 1) = LastFrames(frame + 1) BY <1>1, OneFrameMore
<1> QED BY <1>1, <1>2, <1>3, <1>4 DEF RingInv

LEMMA ListenStep ==
  ASSUME Listen PROVE fire_seq' = fire_seq \/ fire_seq' = fire_seq + 1
<1>1. CASE NoInference BY <1>1 DEF NoInference
<1>2. ASSUME NEW p \in Probs, Infer(p) PROVE fire_seq' = fire_seq \/ fire_seq' = fire_seq + 1
  BY <1>2 DEF Infer
<1> QED BY <1>1, <1>2 DEF Listen

IInv == RingInv /\ FireInv /\ notified \in BOOLEAN /\ PostsFollowFires

(* The snapshot is taken from the ring that holds the firing frame.             *)
LEMMA FrameStep ==
  ASSUME IInv, Frame PROVE IInv'
<1>1. RingInv' BY HearStep DEF IInv, Frame
<1>2. posts' = posts /\ upc' = upc BY DEF Frame, uploader
<1>3. CASE fire_seq' = fire_seq
  <2>1. UNCHANGED <<snapshot, notified>> BY <1>3 DEF Frame
  <2>2. FireInv' BY <1>2, <1>3, <2>1 DEF IInv, FireInv, snapshot
  <2>3. PostsFollowFires' BY <1>2, <2>1 DEF IInv, PostsFollowFires, snapshot
  <2> QED BY <1>1, <2>1, <2>2, <2>3 DEF IInv
<1>4. CASE fire_seq' # fire_seq
  <2>1. Snapshot /\ fire_seq' = fire_seq + 1 BY <1>4, ListenStep DEF Frame
  <2>2. wake_pcm' = Contents(cap_ring')
    <3>1. cap_ring' \in Buffers(Nat) BY <1>1 DEF RingInv
    <3>2. Linear(cap_ring') = Contents(cap_ring') BY <3>1, LinearIsContents
    <3> QED BY <2>1, <3>2 DEF Snapshot
  <2>3. wake_pcm' = LastFrames(wake_at') /\ wake_at' \in Nat
    BY <1>1, <2>1, <2>2 DEF Snapshot, RingInv
  <2>4. FireInv' BY <1>2, <2>1, <2>3 DEF IInv, FireInv, Snapshot
  <2>5. PostsFollowFires'
    BY <1>2, <2>1 DEF IInv, FireInv, PostsFollowFires, Snapshot
  <2>6. notified' = TRUE BY <2>1 DEF Snapshot
  <2> QED BY <1>1, <2>4, <2>5, <2>6 DEF IInv
<1> QED BY <1>3, <1>4

(* Each step of the uploader passes one fire on, or drops it.                   *)
LEMMA UploadStep ==
  ASSUME IInv, UploadIdle \/ Upload PROVE IInv'
<1>1. UNCHANGED <<wake, mic, snapshot>>
  BY DEF UploadIdle, Upload, UploadTake, UploadCopy, UploadDone, cvars
<1>2. RingInv' /\ (posts' \in Nat => FireInv')
  BY <1>1 DEF IInv, RingInv, FireInv, mic, wake, snapshot
<1>3. CASE UploadIdle
  BY <1>1, <1>2, <1>3 DEF UploadIdle, cvars, uploader, IInv, FireInv, PostsFollowFires, snapshot
<1>4. CASE UploadTake
  <2>1. /\ notified = TRUE /\ notified' = FALSE /\ upc = "wait" /\ upc' = "copy"
        /\ posts' = posts /\ capture_seq' = capture_seq
    BY <1>1, <1>4 DEF UploadTake, IInv, snapshot
  <2>2. posts + 1 <= capture_seq /\ posts \in Nat /\ capture_seq \in Nat
    BY <2>1 DEF IInv, FireInv, PostsFollowFires
  <2>3. PostsFollowFires' BY <2>1, <2>2 DEF PostsFollowFires
  <2> QED BY <1>2, <2>1, <2>2, <2>3 DEF IInv
<1>5. CASE UploadCopy
  BY <1>1, <1>2, <1>5 DEF UploadCopy, IInv, FireInv, PostsFollowFires, snapshot
<1>6. CASE UploadDone
  BY <1>1, <1>2, <1>6 DEF UploadDone, IInv, FireInv, PostsFollowFires, snapshot
<1> QED BY <1>3, <1>4, <1>5, <1>6 DEF Upload

(* The conjunction is inductive.                                                *)
LEMMA Inductive == CaptureSpec => []IInv
<1>1. CaptureInit => IInv
  <2> SUFFICES ASSUME CaptureInit PROVE IInv OBVIOUS
  <2>1. posts = 0 /\ notified = FALSE /\ upc = "wait" /\ capture_seq = 0 BY DEF CaptureInit
  <2>2. PostsFollowFires BY <2>1 DEF PostsFollowFires
  <2> QED BY <2>1, <2>2, NothingYet DEF IInv
<1>2. IInv /\ [CaptureNext]_cvars => IInv'
  <2> SUFFICES ASSUME IInv, [CaptureNext]_cvars PROVE IInv' OBVIOUS
  <2>1. CASE Frame BY <2>1, FrameStep
  <2>2. CASE UploadIdle \/ Upload BY <2>2, UploadStep
  <2>3. CASE UNCHANGED cvars
    BY <2>3 DEF cvars, wake, mic, snapshot, uploader, IInv, RingInv, FireInv, PostsFollowFires
  <2> QED BY <2>1, <2>2, <2>3 DEF CaptureNext
<1> QED BY <1>1, <1>2, PTL DEF CaptureSpec

(* Whatever the length of the ring and wherever it wraps, the audio snapshot is  *)
(* that of the frames up to the fire, next to the fire's own metrics             *)
(* (session.cpp:588-596, 648-658).                                               *)
THEOREM LeadUpSnapshot == CaptureSpec => []SnapshotIsLeadUp
<1>1. IInv => SnapshotIsLeadUp
  BY DEF IInv, FireInv, SnapshotIsLeadUp, LastFrames
<1> QED BY <1>1, Inductive, PTL

(* There are never more requests, made or still due, than fires                  *)
(* (session.cpp:206-213, 658).                                                   *)
THEOREM AtMostOnePostPerFire == CaptureSpec => []PostsFollowFires
<1>1. IInv => PostsFollowFires BY DEF IInv
<1> QED BY <1>1, Inductive, PTL

(* The window, its position and the spikes since the last fire.                 *)
BurstInv ==
  /\ window \in [Positions -> Int] /\ widx \in Positions
  /\ spikes \in 0 .. WindowLen
  /\ OneFirePerBurst

(* One probability more in the window is one hit more at most, and none if it is *)
(* below the threshold.                                                         *)
LEMMA OneHitMore ==
  ASSUME NEW w \in [Positions -> Int], NEW k \in Positions, NEW p \in Int
  PROVE  LET v == [w EXCEPT ![k] = p]
         IN  /\ v \in [Positions -> Int]
             /\ Cardinality(Hits(w)) \in Nat
             /\ Cardinality(Hits(v)) \in 0 .. WindowLen
             /\ Cardinality(Hits(v)) <= Cardinality(Hits(w)) + (IF p >= Threshold THEN 1 ELSE 0)
<1> DEFINE v == [w EXCEPT ![k] = p]
<1>1. WindowLen \in Nat /\ WindowLen > 0 BY WakeWordAssumption
<1>2. IsFiniteSet(Positions) /\ Cardinality(Positions) = WindowLen
  <2>1. 0 \in Int /\ WindowLen - 1 \in Int BY <1>1
  <2>2. IsFiniteSet(0 .. WindowLen - 1)
        /\ Cardinality(0 .. WindowLen - 1) =
             IF 0 > WindowLen - 1 THEN 0 ELSE (WindowLen - 1) - 0 + 1
    BY <2>1, FS_Interval
  <2> QED BY <1>1, <2>2 DEF Positions
<1>3. v \in [Positions -> Int] OBVIOUS
<1>4. Hits(w) \subseteq Positions /\ Hits(v) \subseteq Positions BY DEF Hits
<1>5. IsFiniteSet(Hits(w)) /\ IsFiniteSet(Hits(v)) /\ Cardinality(Hits(v)) <= Cardinality(Positions)
  BY <1>2, <1>4, FS_Subset
<1>6. Cardinality(Hits(w)) \in Nat /\ Cardinality(Hits(v)) \in Nat BY <1>5, FS_CardinalityType
<1>7. CASE p >= Threshold
  <2>1. Hits(v) \subseteq Hits(w) \cup {k} BY DEF Hits
  <2>2. IsFiniteSet(Hits(w) \cup {k})
        /\ Cardinality(Hits(w) \cup {k}) = IF k \in Hits(w) THEN Cardinality(Hits(w))
                                           ELSE Cardinality(Hits(w)) + 1
    BY <1>5, FS_AddElement
  <2>3. Cardinality(Hits(v)) <= Cardinality(Hits(w) \cup {k}) BY <2>1, <2>2, FS_Subset
  <2>4. Cardinality(Hits(v)) <= Cardinality(Hits(w)) + 1 BY <1>6, <2>2, <2>3
  <2> QED BY <1>1, <1>2, <1>3, <1>5, <1>6, <1>7, <2>4
<1>8. CASE ~(p >= Threshold)
  <2>1. Hits(v) \subseteq Hits(w) BY <1>8 DEF Hits
  <2>2. Cardinality(Hits(v)) <= Cardinality(Hits(w)) BY <1>5, <2>1, FS_Subset
  <2> QED BY <1>1, <1>2, <1>3, <1>5, <1>6, <1>8, <2>2
<1> QED BY <1>7, <1>8

(* A damped window has no hits.                                                 *)
LEMMA DampedHasNone == Damped \in [Positions -> Int] /\ Cardinality(Hits(Damped)) = 0
<1>1. Hits(Damped) = {}
  <2>1. Threshold \in 1 .. 100 BY WakeWordAssumption
  <2> QED BY <2>1 DEF Hits, Damped
<1> QED BY <1>1, FS_EmptySet DEF Damped

(* An inference adds to the hits what it adds to the spikes, or clears both.    *)
LEMMA InferStep ==
  ASSUME BurstInv, NEW p \in Probs, Infer(p) PROVE BurstInv'
<1> DEFINE w == [window EXCEPT ![widx] = p]
           s == IF p >= Threshold THEN Capped(spikes + 1, WindowLen) ELSE spikes
<1>1. p \in Int /\ WindowLen \in Nat /\ WindowLen > 0 BY WakeWordAssumption
<1>2. window \in [Positions -> Int] /\ widx \in Positions /\ spikes \in 0 .. WindowLen
      /\ Cardinality(Hits(window)) <= spikes
  BY DEF BurstInv, OneFirePerBurst
<1>3. /\ w \in [Positions -> Int] /\ Cardinality(Hits(window)) \in Nat
      /\ Cardinality(Hits(w)) \in 0 .. WindowLen
      /\ Cardinality(Hits(w)) <= Cardinality(Hits(window)) + (IF p >= Threshold THEN 1 ELSE 0)
  BY <1>1, <1>2, OneHitMore
<1>4. s \in 0 .. WindowLen /\ Cardinality(Hits(w)) <= s
  BY <1>1, <1>2, <1>3 DEF Capped
<1>5. widx' \in Positions
  <2>1. widx' = (widx + 1) % WindowLen BY DEF Infer
  <2> QED BY <1>1, <1>2, <2>1 DEF Positions
<1>6. \/ window' = Damped /\ spikes' = 0
      \/ window' = w /\ spikes' = s
  BY DEF Infer
<1>7. CASE window' = Damped /\ spikes' = 0
  BY <1>1, <1>5, <1>7, DampedHasNone DEF BurstInv, OneFirePerBurst
<1>8. CASE window' = w /\ spikes' = s
  BY <1>3, <1>4, <1>5, <1>8 DEF BurstInv, OneFirePerBurst
<1> QED BY <1>6, <1>7, <1>8

(* For every window and every sequence of probabilities, a fire leaves no spike  *)
(* behind: the next one takes MinHits new ones (wake_word.cc:326-358).           *)
THEOREM BurstFiresOnce == CaptureSpec => []OneFirePerBurst
<1>1. CaptureInit => BurstInv
  <2> SUFFICES ASSUME CaptureInit PROVE BurstInv OBVIOUS
  <2>1. window = Damped /\ widx = 0 /\ spikes = 0 BY DEF CaptureInit, WakeInit
  <2>2. WindowLen \in Nat /\ WindowLen > 0 BY WakeWordAssumption
  <2>3. 0 \in Positions BY <2>2 DEF Positions
  <2> QED BY <2>1, <2>2, <2>3, DampedHasNone DEF BurstInv, OneFirePerBurst
<1>2. BurstInv /\ [CaptureNext]_cvars => BurstInv'
  <2> SUFFICES ASSUME BurstInv, [CaptureNext]_cvars PROVE BurstInv' OBVIOUS
  <2>1. CASE UNCHANGED <<window, widx, spikes>>
    BY <2>1 DEF BurstInv, OneFirePerBurst
  <2>2. CASE Frame
    <3>1. CASE NoInference BY <2>1, <3>1 DEF NoInference
    <3>2. ASSUME NEW p \in Probs, Infer(p) PROVE BurstInv' BY <3>2, InferStep
    <3> QED BY <2>2, <3>1, <3>2 DEF Frame, Listen
  <2>3. CASE UploadIdle \/ Upload
    BY <2>1, <2>3 DEF UploadIdle, Upload, UploadTake, UploadCopy, UploadDone, cvars, wake
  <2>4. CASE UNCHANGED cvars BY <2>1, <2>4 DEF cvars, wake
  <2> QED BY <2>2, <2>3, <2>4 DEF CaptureNext
<1>3. BurstInv => OneFirePerBurst BY DEF BurstInv
<1> QED BY <1>1, <1>2, <1>3, PTL DEF CaptureSpec

----------------------------------------------------------------------------
(* The capture and the speaker together                                     *)

LEMMA AudioCaptures == AudioSpec => CaptureSpec
<1>1. AudioInit => CaptureInit BY DEF AudioInit
<1>2. [AudioNext]_avars => [CaptureNext]_cvars
  <2> SUFFICES ASSUME [AudioNext]_avars PROVE [CaptureNext]_cvars OBVIOUS
  <2>1. CASE Capture \/ Background BY <2>1 DEF Capture, Background, CaptureNext
  <2>2. CASE GiveUp \/ Reply \/ Speak BY <2>2 DEF GiveUp, Reply, Speak
  <2>3. CASE UNCHANGED avars BY <2>3 DEF avars
  <2> QED BY <2>1, <2>2, <2>3 DEF AudioNext
<1> QED BY <1>1, <1>2, PTL DEF AudioSpec, CaptureSpec

(* The snapshot, the requests and the bursts, with the speaker running too         *)
(* (session.cpp:206-213, 588-596, 645-658; wake_word.cc:326-358).                  *)
THEOREM AudioCaptureSafety == AudioSpec => [](SnapshotIsLeadUp /\ PostsFollowFires /\ OneFirePerBurst)
BY AudioCaptures, LeadUpSnapshot, AtMostOnePostPerFire, BurstFiresOnce, PTL

----------------------------------------------------------------------------
(* The type invariant of the capture                                        *)

CaptureTypes ==
  /\ frame \in 0 .. MaxFrames /\ cap_ring \in Buffers(0 .. MaxFrames)
  /\ wake_at \in 0 .. frame
  /\ upc \in {"wait", "copy", "post"} /\ copied \in 0 .. capture_seq

(* A ring of bounded frames stays one when a bounded frame is put into it.      *)
LEMMA PutBounded ==
  ASSUME NEW S, NEW b \in Buffers(S), NEW x \in S PROVE Put(b, x) \in Buffers(S)
<1>1. Capacity \in Nat /\ Capacity > 0 BY CapacityAssumption
<1>2. b.slots \in [Slots -> S] /\ b.head \in Slots /\ b.count \in 0 .. Capacity BY DEF Buffers
<1>3. (b.head + b.count) % Capacity \in Slots /\ (b.head + 1) % Capacity \in Slots
  BY <1>1, <1>2 DEF Slots
<1>4. [b.slots EXCEPT ![(b.head + b.count) % Capacity] = x] \in [Slots -> S] BY <1>2, <1>3
<1>5. (IF b.count < Capacity THEN b.head ELSE (b.head + 1) % Capacity) \in Slots BY <1>2, <1>3
<1>6. (IF b.count < Capacity THEN b.count + 1 ELSE b.count) \in 0 .. Capacity BY <1>1, <1>2
<1> QED BY <1>4, <1>5, <1>6 DEF Put, Buffers

LEMMA CaptureTypesKept == ASSUME IInv, CaptureTypes, [CaptureNext]_cvars PROVE CaptureTypes'
<1>1. CASE Frame
  <2>1. frame \in Nat /\ capture_seq \in Nat /\ MaxFrames \in Nat
    BY CaptureAssumption DEF IInv, RingInv, FireInv
  <2>2. frame' = frame + 1 /\ frame' \in 0 .. MaxFrames /\ cap_ring' = Put(cap_ring, frame')
    BY <1>1, <2>1 DEF Frame, Hear, CaptureTypes
  <2>3. cap_ring' \in Buffers(0 .. MaxFrames) BY <2>2, PutBounded DEF CaptureTypes
  <2>4. \/ wake_at' = wake_at /\ capture_seq' = capture_seq
        \/ wake_at' = frame' /\ capture_seq' = capture_seq + 1
    BY <1>1 DEF Frame, Snapshot, snapshot
  <2>5. wake_at' \in 0 .. frame' /\ copied \in 0 .. capture_seq' BY <2>1, <2>2, <2>4 DEF CaptureTypes
  <2>6. upc' \in {"wait", "copy", "post"} /\ copied' = copied BY <1>1 DEF Frame, uploader, CaptureTypes
  <2> QED BY <2>2, <2>3, <2>5, <2>6 DEF CaptureTypes
<1>2. CASE UploadIdle \/ UNCHANGED cvars
  BY <1>2 DEF UploadIdle, cvars, mic, snapshot, uploader, CaptureTypes
<1>3. CASE Upload
  <2>1. UNCHANGED <<frame, cap_ring, wake_at, capture_seq>> /\ capture_seq \in Nat
    BY <1>3 DEF Upload, UploadTake, UploadCopy, UploadDone, mic, snapshot, IInv, FireInv
  <2>2. copied' \in {copied, capture_seq} /\ upc' \in {"wait", "copy", "post"}
    BY <1>3 DEF Upload, UploadTake, UploadCopy, UploadDone
  <2> QED BY <2>1, <2>2 DEF CaptureTypes
<1> QED BY <1>1, <1>2, <1>3 DEF CaptureNext

LEMMA CaptureTyped == AudioSpec => []CaptureTypeOK
<1>1. CaptureInit => CaptureTypes
  <2> SUFFICES ASSUME CaptureInit PROVE CaptureTypes OBVIOUS
  <2>1. Capacity \in Nat /\ Capacity > 0 /\ MaxFrames \in Nat BY CapacityAssumption, CaptureAssumption
  <2>2. Empty(0) \in Buffers(0 .. MaxFrames) BY <2>1 DEF Empty, Buffers, Slots
  <2> QED BY <2>1, <2>2 DEF CaptureInit, CaptureTypes
<1>2. IInv /\ CaptureTypes => CaptureTypeOK
  <2> SUFFICES ASSUME IInv, CaptureTypes PROVE CaptureTypeOK OBVIOUS
  <2>1. wake_pcm = LastFrames(wake_at) /\ wake_at \in Nat BY DEF IInv, FireInv
  <2>2. Len(wake_pcm) = Capped(wake_at, Capacity) BY <2>1, OneFrameMore
  <2>3. Len(wake_pcm) \in 0 .. Capacity BY <2>1, <2>2, CapacityAssumption DEF Capped
  <2> QED BY <2>3 DEF IInv, FireInv, CaptureTypes, CaptureTypeOK
<1>3. IInv /\ CaptureTypes /\ [CaptureNext]_cvars => CaptureTypes' BY CaptureTypesKept
<1>4. CaptureSpec => []CaptureTypes BY <1>1, <1>3, Inductive, PTL DEF CaptureSpec
<1> QED BY <1>2, <1>4, AudioCaptures, Inductive, PTL

----------------------------------------------------------------------------
(* Whole packets                                                            *)

\* The first and the second half of packet p.
Pair(s, j, p) == s[2 * j - 1] = <<p, 1>> /\ s[2 * j] = <<p, 2>>

\* s is m whole packets, none of them after packet last.
Packets(s, m, last) ==
  /\ s \in Seq(Halves) /\ Len(s) = 2 * m
  /\ \A j \in 1 .. m : \E p \in 1 .. last : Pair(s, j, p)

\* The i-th half packet after packet f of the reply.
Half(f, i) == <<f + 1 + (i - 1) \div 2, ((i - 1) % 2) + 1>>

Whole(s, last) == \E m \in Nat : Packets(s, m, last)

PlayInv ==
  /\ rx \in 0 .. MaxReply /\ kept \in 0 .. rx /\ played \in 0 .. kept
  /\ Whole(buf, kept) /\ Len(buf) <= Room
  /\ spoken = << >> \/ \E p \in 1 .. rx : spoken = Decoded(p, 1)

LEMMA Halving ==
  ASSUME NEW j \in Nat
  PROVE  /\ (2 * j) \div 2 = j /\ (2 * j) % 2 = 0
         /\ (2 * j + 1) \div 2 = j /\ (2 * j + 1) % 2 = 1
OBVIOUS

(* A payload of n packets decodes to their n pairs of halves.                   *)
LEMMA DecodedPairs ==
  ASSUME NEW f \in Nat, NEW n \in Nat, f + n <= MaxReply
  PROVE  /\ Decoded(f + 1, n) \in Seq(Halves) /\ Len(Decoded(f + 1, n)) = 2 * n
         /\ \A j \in 1 .. n : Pair(Decoded(f + 1, n), j, f + j)
<1> DEFINE d == Decoded(f + 1, n)
<1>1. d = [i \in 1 .. 2 * n |-> <<f + 1 + (i - 1) \div 2, ((i - 1) % 2) + 1>>] BY DEF Decoded
<1>2. MaxReply \in Nat BY PlaybackAssumption
<1>3. ASSUME NEW j \in 1 .. n
      PROVE  Pair(d, j, f + j)
  <2>1. 2 * j - 1 \in 1 .. 2 * n /\ 2 * j \in 1 .. 2 * n /\ j - 1 \in Nat OBVIOUS
  <2>2. (2 * j - 1) - 1 = 2 * (j - 1) /\ (2 * j) - 1 = 2 * (j - 1) + 1 OBVIOUS
  <2>3. /\ ((2 * j - 1) - 1) \div 2 = j - 1 /\ ((2 * j - 1) - 1) % 2 = 0
        /\ ((2 * j) - 1) \div 2 = j - 1 /\ ((2 * j) - 1) % 2 = 1
    BY <2>1, <2>2, Halving
  <2>4. d[2 * j - 1] = <<f + 1 + (j - 1), 0 + 1>> BY <1>1, <2>1, <2>3
  <2>5. d[2 * j] = <<f + 1 + (j - 1), 1 + 1>> BY <1>1, <2>1, <2>3
  <2> QED BY <2>4, <2>5 DEF Pair
<1>4. ASSUME NEW i \in 1 .. 2 * n
      PROVE  <<f + 1 + (i - 1) \div 2, ((i - 1) % 2) + 1>> \in Halves
  <2>1. (i - 1) % 2 \in {0, 1} /\ (i - 1) \div 2 \in 0 .. n - 1 OBVIOUS
  <2>2. f + 1 + (i - 1) \div 2 \in 1 .. MaxReply /\ ((i - 1) % 2) + 1 \in {1, 2} BY <1>2, <2>1
  <2> QED BY <2>2 DEF Halves
<1>5. d \in Seq(Halves) /\ Len(d) = 2 * n
  <2>1. 2 * n \in Nat OBVIOUS
  <2>2. d \in [1 .. 2 * n -> Halves] BY <1>1, <1>4
  <2> HIDE DEF d
  <2> QED BY <2>1, <2>2
<1> QED BY <1>3, <1>5

(* What fits of it is whole packets as well, because the room that is left is even. *)
LEMMA FittingPairs ==
  ASSUME NEW f \in Nat, NEW n \in Nat, f + n <= MaxReply,
         NEW g \in Nat, Room - Len(buf) = 2 * g
  PROVE  \E m \in 0 .. n :
           LET part == Fitting(Decoded(f + 1, n))
           IN  /\ part \in Seq(Halves) /\ Len(part) = 2 * m /\ m <= g
               /\ \A j \in 1 .. m : Pair(part, j, f + j)
               /\ \A i \in 1 .. 2 * m : part[i] = Half(f, i)
<1> DEFINE d == Decoded(f + 1, n)
           m == IF n < g THEN n ELSE g
           part == SubSeq(d, 1, 2 * m)
<1>1. d \in Seq(Halves) /\ Len(d) = 2 * n /\ \A j \in 1 .. n : Pair(d, j, f + j)
  BY DecodedPairs
<1>2. m \in 0 .. n /\ m <= g OBVIOUS
<1>3. Fitting(d) = part
  <2>1. Smaller(2 * n, 2 * g) = 2 * m BY DEF Smaller
  <2> QED BY <1>1, <2>1 DEF Fitting
<1>h. \A i \in 1 .. 2 * n : d[i] = Half(f, i) BY DEF Decoded, Half
<1> HIDE DEF m, d
<1>4. part \in Seq(Halves) /\ Len(part) = 2 * m /\ \A i \in 1 .. 2 * m : part[i] = d[i]
  BY <1>1, <1>2
<1>5. ASSUME NEW j \in 1 .. m PROVE Pair(part, j, f + j)
  <2>1. j \in 1 .. n /\ 2 * j - 1 \in 1 .. 2 * m /\ 2 * j \in 1 .. 2 * m BY <1>2
  <2> QED BY <1>1, <1>4, <2>1 DEF Pair
<1>6. \A i \in 1 .. 2 * m : part[i] = Half(f, i)
  <2> SUFFICES ASSUME NEW i \in 1 .. 2 * m PROVE part[i] = Half(f, i) OBVIOUS
  <2>1. i \in 1 .. 2 * n BY <1>2
  <2> QED BY <1>4, <1>h, <2>1
<1> QED BY <1>2, <1>3, <1>4, <1>5, <1>6 DEF d

(* Packets after packets are packets.                                           *)
LEMMA Concatenated ==
  ASSUME NEW s \in Seq(Halves), NEW t \in Seq(Halves), NEW a \in Nat, NEW b \in Nat,
         NEW k \in Nat, NEW l \in Nat, k <= l, Packets(s, a, k), Packets(t, b, l)
  PROVE  Packets(s \o t, a + b, l)
<1>1. Len(s) = 2 * a /\ Len(t) = 2 * b BY DEF Packets
<1>2. s \o t \in Seq(Halves) /\ Len(s \o t) = 2 * (a + b) BY <1>1
<1>3. ASSUME NEW j \in 1 .. a + b PROVE \E p \in 1 .. l : Pair(s \o t, j, p)
  <2>1. CASE j <= a
    <3>1. j \in 1 .. a /\ 2 * j - 1 \in 1 .. Len(s) /\ 2 * j \in 1 .. Len(s) BY <1>1, <2>1
    <3>2. PICK p \in 1 .. k : Pair(s, j, p) BY <3>1 DEF Packets
    <3>3. (s \o t)[2 * j - 1] = s[2 * j - 1] /\ (s \o t)[2 * j] = s[2 * j] BY <3>1
    <3> QED BY <3>2, <3>3 DEF Pair
  <2>2. CASE j > a
    <3>1. j - a \in 1 .. b /\ 2 * (j - a) - 1 \in 1 .. Len(t) /\ 2 * (j - a) \in 1 .. Len(t) BY <1>1, <2>2
    <3>2. PICK p \in 1 .. l : Pair(t, j - a, p) BY <3>1 DEF Packets
    <3>3. 2 * j - 1 = Len(s) + (2 * (j - a) - 1) /\ 2 * j = Len(s) + 2 * (j - a) BY <1>1
    <3>4. ASSUME NEW i \in 1 .. Len(t) PROVE (s \o t)[Len(s) + i] = t[i] OBVIOUS
    <3>5. (s \o t)[2 * j - 1] = t[2 * (j - a) - 1] /\ (s \o t)[2 * j] = t[2 * (j - a)]
      BY <3>1, <3>3, <3>4
    <3> QED BY <3>2, <3>5 DEF Pair
  <2> QED BY <2>1, <2>2
<1> QED BY <1>2, <1>3 DEF Packets

(* What an inbound payload of n packets adds: its first m packets, as many as fit. *)
LEMMA Arrives ==
  ASSUME PlayInv, NEW n \in Payloads, Inbound(n)
  PROVE  \E m \in 0 .. n : \E part \in Seq(Halves) :
           /\ Len(part) = 2 * m /\ \A j \in 1 .. m : Pair(part, j, rx + j)
           /\ \A i \in 1 .. 2 * m : part[i] = Half(rx, i)
           /\ buf' = buf \o part /\ Len(buf') <= Room
           /\ kept' = IF m = 0 THEN kept ELSE rx + m
<1> DEFINE part == Fitting(Decoded(rx + 1, n))
<1>1. n \in Nat \ {0} /\ MaxReply \in Nat /\ Room \in Nat /\ Room % 2 = 0 BY PlaybackAssumption
<1>2. rx \in Nat BY <1>1 DEF PlayInv
<1>3. rx + n <= MaxReply /\ buf' = buf \o part
      /\ kept' = (IF part = << >> THEN kept ELSE part[Len(part)][1])
  BY DEF Inbound
<1>4. PICK a \in Nat : Packets(buf, a, kept) BY DEF PlayInv, Whole
<1>5. PICK r \in Nat : Room = 2 * r
  <2>1. Room = 2 * (Room \div 2) /\ Room \div 2 \in Nat BY <1>1
  <2> QED BY <2>1
<1>6. buf \in Seq(Halves) /\ Len(buf) = 2 * a /\ a <= r BY <1>4, <1>5 DEF Packets, PlayInv
<1>7. r - a \in Nat /\ Room - Len(buf) = 2 * (r - a) BY <1>5, <1>6
<1>8. PICK m \in 0 .. n :
        /\ part \in Seq(Halves) /\ Len(part) = 2 * m /\ m <= r - a
        /\ \A j \in 1 .. m : Pair(part, j, rx + j)
        /\ \A i \in 1 .. 2 * m : part[i] = Half(rx, i)
  BY <1>1, <1>2, <1>3, <1>7, FittingPairs
<1> HIDE DEF part
<1>9. kept' = IF m = 0 THEN kept ELSE rx + m
  <2>1. CASE m = 0 BY <1>3, <1>8, <2>1
  <2>2. CASE m # 0
    <3>1. part # << >> /\ Pair(part, m, rx + m) BY <1>8, <2>2
    <3> QED BY <1>3, <1>8, <2>2, <3>1 DEF Pair
  <2> QED BY <2>1, <2>2
<1>10. Len(buf') <= Room
  <2>1. Len(buf \o part) = 2 * a + 2 * m BY <1>6, <1>8
  <2> QED BY <1>3, <1>5, <1>6, <1>8, <2>1
<1> QED BY <1>3, <1>8, <1>9, <1>10

LEMMA InboundStep == ASSUME PlayInv, NEW n \in Payloads, Inbound(n) PROVE PlayInv'
<1>1. n \in Nat \ {0} /\ MaxReply \in Nat BY PlaybackAssumption
<1>2. rx \in Nat /\ kept \in 0 .. rx /\ played \in 0 .. kept BY <1>1 DEF PlayInv
<1>3. rx + n <= MaxReply /\ rx' = rx + n /\ UNCHANGED <<played, spoken>>
  BY DEF Inbound, speaker
<1>4. PICK a \in Nat : Packets(buf, a, kept) BY DEF PlayInv, Whole
<1>5. PICK m \in 0 .. n : \E part \in Seq(Halves) :
        /\ Len(part) = 2 * m /\ \A j \in 1 .. m : Pair(part, j, rx + j)
        /\ buf' = buf \o part /\ Len(buf') <= Room
        /\ kept' = IF m = 0 THEN kept ELSE rx + m
  BY Arrives
<1>6. PICK part \in Seq(Halves) :
        /\ Len(part) = 2 * m /\ \A j \in 1 .. m : Pair(part, j, rx + j)
        /\ buf' = buf \o part /\ Len(buf') <= Room
        /\ kept' = IF m = 0 THEN kept ELSE rx + m
  BY <1>5
<1>7. kept' \in Nat /\ kept <= kept' /\ kept' \in 0 .. rx' BY <1>1, <1>2, <1>3, <1>6
<1>8. Packets(part, m, kept')
  <2>1. ASSUME NEW j \in 1 .. m PROVE \E p \in 1 .. kept' : Pair(part, j, p)
    <3>1. rx + j \in 1 .. kept' BY <1>2, <1>6
    <3> QED BY <1>6, <3>1
  <2> QED BY <1>6, <2>1 DEF Packets
<1>9. Packets(buf', a + m, kept')
  <2>1. buf \in Seq(Halves) BY <1>4 DEF Packets
  <2> QED BY <1>1, <1>2, <1>4, <1>6, <1>7, <1>8, <2>1, Concatenated
<1>10. spoken' = << >> \/ \E p \in 1 .. rx' : spoken' = Decoded(p, 1)
  BY <1>1, <1>2, <1>3 DEF PlayInv
<1>11. Whole(buf', kept')
  <2>1. a + m \in Nat BY <1>1
  <2> QED BY <1>9, <2>1 DEF Whole
<1> QED BY <1>1, <1>2, <1>3, <1>6, <1>7, <1>10, <1>11 DEF PlayInv, Whole

LEMMA SamePair ==
  ASSUME NEW s \in Seq(Halves), NEW t \in Seq(Halves), Len(s) = 2, Len(t) = 2,
         s[1] = t[1], s[2] = t[2]
  PROVE  s = t
<1>1. s = [i \in 1 .. 2 |-> s[i]] /\ t = [i \in 1 .. 2 |-> t[i]] OBVIOUS
<1>2. \A i \in 1 .. 2 : s[i] = t[i]
  <2> SUFFICES ASSUME NEW i \in 1 .. 2 PROVE s[i] = t[i] OBVIOUS
  <2>1. i = 1 \/ i = 2 OBVIOUS
  <2> QED BY <2>1
<1> QED BY <1>1, <1>2, Zenon

(* A read of a buffer that is not empty takes its first packet.                 *)
LEMMA TakesPacket ==
  ASSUME PlayBuffer, NEW a \in Nat, a > 0, buf \in Seq(Halves), Len(buf) = 2 * a
  PROVE  spoken' = SubSeq(buf, 1, 2) /\ buf' = SubSeq(buf, 3, Len(buf)) /\ played' = buf[2][1]
<1>1. Smaller(2, Len(buf)) = 2 BY DEF Smaller
<1>2. /\ spoken' = SubSeq(buf, 1, Smaller(2, Len(buf)))
      /\ buf' = SubSeq(buf, Smaller(2, Len(buf)) + 1, Len(buf))
      /\ played' = IF Smaller(2, Len(buf)) = 0 THEN played ELSE buf[Smaller(2, Len(buf))][1]
  BY DEF PlayBuffer
<1>3. Smaller(2, Len(buf)) + 1 = 3 /\ Smaller(2, Len(buf)) # 0 BY <1>1
<1> HIDE DEF Smaller
<1>4. buf' = SubSeq(buf, 3, Len(buf)) BY <1>2, <1>3
<1>5. played' = buf[Smaller(2, Len(buf))][1] BY <1>2, <1>3
<1>6. spoken' = SubSeq(buf, 1, 2) /\ played' = buf[2][1] BY <1>1, <1>2, <1>5
<1> QED BY <1>4, <1>6

(* A read takes the first packet, or nothing.                                   *)
LEMMA ReadStep == ASSUME PlayInv, PlayBuffer PROVE PlayInv'
<1>1. MaxReply \in Nat /\ rx \in Nat /\ kept \in 0 .. rx /\ kept \in Nat
  BY PlaybackAssumption DEF PlayInv
<1>2. PICK a \in Nat : Packets(buf, a, kept) BY DEF PlayInv, Whole
<1>3. buf \in Seq(Halves) /\ Len(buf) = 2 * a BY <1>2 DEF Packets
<1>4. UNCHANGED <<rx, kept>> BY DEF PlayBuffer
<1>5. CASE a = 0
  <2>1. Smaller(2, Len(buf)) = 0 /\ buf = << >> BY <1>3, <1>5 DEF Smaller
  <2>2. spoken' = << >> /\ buf' = buf /\ played' = played BY <2>1 DEF PlayBuffer
  <2> QED BY <1>4, <2>2 DEF PlayInv, Whole, Packets
<1>6. CASE a > 0
  <2>2. spoken' = SubSeq(buf, 1, 2) /\ buf' = SubSeq(buf, 3, Len(buf)) /\ played' = buf[2][1]
    BY <1>3, <1>6, TakesPacket
  <2>3. PICK p \in 1 .. kept : Pair(buf, 1, p) BY <1>2, <1>6 DEF Packets
  <2>4. buf[1] = <<p, 1>> /\ buf[2] = <<p, 2>> BY <2>3 DEF Pair
  <2>5. spoken' = Decoded(p, 1)
    <3>1. Decoded((p - 1) + 1, 1) \in Seq(Halves) /\ Len(Decoded((p - 1) + 1, 1)) = 2 * 1
          /\ \A j \in 1 .. 1 : Pair(Decoded((p - 1) + 1, 1), j, (p - 1) + j)
      <4>1. p - 1 \in Nat /\ (p - 1) + 1 <= MaxReply BY <1>1 DEF PlayInv
      <4> QED BY <4>1, DecodedPairs
    <3>2. (p - 1) + 1 = p BY <1>1
    <3>3. Decoded(p, 1) \in Seq(Halves) /\ Len(Decoded(p, 1)) = 2
          /\ Decoded(p, 1)[1] = <<p, 1>> /\ Decoded(p, 1)[2] = <<p, 2>>
      BY <3>1, <3>2 DEF Pair
    <3>4. spoken' \in Seq(Halves) /\ Len(spoken') = 2
          /\ spoken'[1] = <<p, 1>> /\ spoken'[2] = <<p, 2>>
      BY <1>3, <1>6, <2>2, <2>4
    <3>5. spoken'[1] = Decoded(p, 1)[1] /\ spoken'[2] = Decoded(p, 1)[2] BY <3>3, <3>4
    <3> HIDE DEF Decoded
    <3> QED BY <3>3, <3>4, <3>5, SamePair
  <2>6. /\ buf' \in Seq(Halves) /\ Len(buf') = 2 * (a - 1)
        /\ \A i \in 1 .. 2 * (a - 1) : buf'[i] = buf[i + 2]
    BY <1>3, <1>6, <2>2
  <2>7. ASSUME NEW j \in 1 .. a - 1 PROVE \E q \in 1 .. kept : Pair(buf', j, q)
    <3>1. PICK q \in 1 .. kept : Pair(buf, j + 1, q) BY <1>2, <1>6 DEF Packets
    <3>2. 2 * (j + 1) - 1 = (2 * j - 1) + 2 /\ 2 * (j + 1) = 2 * j + 2 OBVIOUS
    <3>3. 2 * j - 1 \in 1 .. 2 * (a - 1) /\ 2 * j \in 1 .. 2 * (a - 1) BY <1>6
    <3>4. Pair(buf', j, q) BY <2>6, <3>1, <3>2, <3>3 DEF Pair
    <3> QED BY <3>4
  <2>8. Packets(buf', a - 1, kept) /\ a - 1 \in Nat BY <1>6, <2>6, <2>7 DEF Packets
  <2>9. Whole(buf', kept) BY <2>8 DEF Whole
  <2>10. Len(buf') <= Room BY <1>3, <1>6, <2>6, PlaybackAssumption DEF PlayInv
  <2>11. played' = p BY <2>2, <2>4
  <2>12. p \in 1 .. rx BY <1>1
  <2> QED BY <1>1, <1>4, <2>5, <2>9, <2>10, <2>11, <2>12 DEF PlayInv, Whole, Packets
<1> QED BY <1>5, <1>6

(* The other steps leave the packets alone.                                     *)
LEMMA PlayInvKept == ASSUME PlayInv, [AudioNext]_avars PROVE PlayInv'
<1>1. CASE UNCHANGED <<buf, rx, kept, spoken, played>>
  BY <1>1 DEF PlayInv, Whole, Packets
<1>2. CASE Capture
  BY <1>1, <1>2 DEF Capture, Arm, Lapse, pvars, stream, speaker
<1>3. CASE GiveUp BY <1>1, <1>3 DEF GiveUp, Abandon, stream, speaker
<1>4. CASE Reply BY <1>4, InboundStep DEF Reply
<1>5. CASE Speak
  <2>1. CASE TakeChirp \/ PlayChirp BY <1>1, <2>1 DEF TakeChirp, PlayChirp, stream
  <2>2. CASE PlayBuffer BY <2>2, ReadStep
  <2> QED BY <1>5, <2>1, <2>2 DEF Speak, Play
<1>6. CASE Background \/ UNCHANGED avars
  BY <1>1, <1>6 DEF Background, avars, pvars, stream, speaker
<1> QED BY <1>2, <1>3, <1>4, <1>5, <1>6 DEF AudioNext

LEMMA PlayInductive == AudioSpec => []PlayInv
<1>1. AudioInit => PlayInv
  <2> SUFFICES ASSUME AudioInit PROVE PlayInv OBVIOUS
  <2>1. buf = << >> /\ rx = 0 /\ kept = 0 /\ played = 0 /\ spoken = << >>
    BY DEF AudioInit, PlaybackInit
  <2>2. MaxReply \in Nat /\ Room \in Nat BY PlaybackAssumption
  <2>3. Packets(buf, 0, kept) BY <2>1 DEF Packets
  <2>4. Whole(buf, kept) BY <2>3 DEF Whole
  <2> QED BY <2>1, <2>2, <2>4 DEF PlayInv
<1> QED BY <1>1, PlayInvKept, PTL DEF AudioSpec

(* However large the buffer and the payloads, and whatever chirps come between, a   *)
(* read takes a whole packet or nothing (session.cpp:123-130, 426, 754-765).        *)
THEOREM WholePacketsOnly == AudioSpec => []PlaysWholePackets
<1>1. PlayInv => PlaysWholePackets BY DEF PlayInv, PlaysWholePackets
<1> QED BY <1>1, PlayInductive, PTL

----------------------------------------------------------------------------
(* The type invariant                                                       *)

TurnTypes ==
  /\ active \in BOOLEAN /\ chirp \in Chirps \cup {"none"} /\ asked \in Nat
  /\ ppc \in {"top", "blip", "read"} /\ blip \in Chirps \cup {"none"}
  /\ heard \in 0 .. asked

LEMMA TurnTypesKept == ASSUME TurnTypes, [AudioNext]_avars PROVE TurnTypes'
<1>1. CASE UNCHANGED <<active, chirp, asked, ppc, blip, heard>> BY <1>1 DEF TurnTypes
<1>2. CASE Arm \/ Lapse \/ Abandon
  <2>1. UNCHANGED <<ppc, blip, heard>> BY <1>2 DEF Arm, Lapse, Abandon, speaker
  <2>2. chirp' \in Chirps \cup {"none"} /\ asked' \in {asked, asked + 1}
    BY <1>2 DEF Arm, Lapse, Abandon, Ask, Chirps, TurnTypes
  <2>3. active' \in BOOLEAN BY <1>2 DEF Arm, Lapse, Abandon
  <2> QED BY <2>1, <2>2, <2>3 DEF TurnTypes
<1>3. CASE TakeChirp
  <2>1. UNCHANGED <<active, asked>> BY <1>3 DEF TakeChirp
  <2>2. chirp' \in Chirps \cup {"none"} BY <1>3 DEF TakeChirp
  <2>3. ppc' \in {"blip", "read"} /\ blip' \in {blip, chirp} /\ heard' \in {heard, asked}
    BY <1>3 DEF TakeChirp
  <2> QED BY <2>1, <2>2, <2>3 DEF TurnTypes
<1>4. CASE PlayChirp BY <1>4 DEF PlayChirp, TurnTypes, turn
<1>5. CASE PlayBuffer BY <1>5 DEF PlayBuffer, TurnTypes, turn
<1>6. CASE Capture
  BY <1>1, <1>2, <1>6 DEF Capture, pvars, turn, speaker
<1>7. CASE GiveUp BY <1>2, <1>7 DEF GiveUp
<1>8. CASE Reply BY <1>1, <1>8 DEF Reply, Inbound, turn, speaker
<1>9. CASE Background \/ UNCHANGED avars
  BY <1>1, <1>9 DEF Background, avars, pvars, turn, speaker
<1> QED BY <1>3, <1>4, <1>5, <1>6, <1>7, <1>8, <1>9 DEF AudioNext, Speak, Play

LEMMA TurnTyped == AudioSpec => []TurnTypes
<1>1. AudioInit => TurnTypes
  <2> SUFFICES ASSUME AudioInit PROVE TurnTypes OBVIOUS
  <2>1. active \in BOOLEAN BY DEF AudioInit, PlaybackInit
  <2> QED BY <2>1 DEF AudioInit, PlaybackInit, TurnTypes
<1> QED BY <1>1, TurnTypesKept, PTL DEF AudioSpec

(* The type invariant of the three tasks (session.cpp:198-226, 588-683, 724-773).   *)
THEOREM AudioTypeCorrect == AudioSpec => []AudioTypeOK
<1>1. PlayInv /\ TurnTypes => PlaybackTypeOK
  <2> SUFFICES ASSUME PlayInv, TurnTypes PROVE PlaybackTypeOK OBVIOUS
  <2>1. buf \in Seq(Halves) BY DEF PlayInv, Whole, Packets
  <2>2. spoken \in Seq(Halves)
    <3>1. CASE spoken = << >> BY <3>1
    <3>2. ASSUME NEW p \in 1 .. rx, spoken = Decoded(p, 1) PROVE spoken \in Seq(Halves)
      <4>1. p - 1 \in Nat /\ (p - 1) + 1 <= MaxReply /\ (p - 1) + 1 = p
        BY PlaybackAssumption DEF PlayInv
      <4>2. Decoded((p - 1) + 1, 1) \in Seq(Halves) BY <4>1, DecodedPairs
      <4> QED BY <3>2, <4>1, <4>2
    <3> QED BY <3>1, <3>2 DEF PlayInv
  <2> QED BY <2>1, <2>2 DEF PlayInv, TurnTypes, PlaybackTypeOK
<1> QED BY <1>1, TurnTyped, PlayInductive, CaptureTyped, PTL DEF AudioTypeOK

----------------------------------------------------------------------------
(* The order of the reply and what is still owed                            *)

Before(a, b) == a[1] < b[1] \/ (a[1] = b[1] /\ a[2] < b[2])

(* What waits in the buffer comes after what was played, in the order it was         *)
(* decoded, and ends with the last packet that found room; an empty buffer has been   *)
(* played to its end. It is the safe half of ReplyIsPlayed (session.cpp:426, 754-765). *)
ReplyInOrder ==
  /\ \A i, j \in 1 .. Len(buf) : i < j => Before(buf[i], buf[j])
  /\ \A i \in 1 .. Len(buf) : played < buf[i][1]
  /\ IF buf = << >> THEN played = kept ELSE buf[Len(buf)][1] = kept

LEMMA HalvesInOrder ==
  ASSUME NEW f \in Nat, NEW i \in Nat \ {0}, NEW j \in Nat \ {0}
  PROVE  /\ Half(f, i) \in (Nat \ {0}) \X {1, 2} /\ f < Half(f, i)[1]
         /\ i < j => Before(Half(f, i), Half(f, j))
<1> DEFINE d(k) == (k - 1) \div 2
           e(k) == (k - 1) % 2
<1>1. \A k \in Nat \ {0} : d(k) \in Nat /\ e(k) \in {0, 1} /\ k - 1 = 2 * d(k) + e(k) OBVIOUS
<1>2. \A k \in Nat \ {0} : Half(f, k) = <<f + 1 + d(k), e(k) + 1>> BY DEF Half
<1> HIDE DEF d, e
<1>3. /\ d(i) \in Nat /\ e(i) \in {0, 1} /\ i - 1 = 2 * d(i) + e(i)
      /\ d(j) \in Nat /\ e(j) \in {0, 1} /\ j - 1 = 2 * d(j) + e(j)
  BY <1>1
<1>4. i < j => d(i) < d(j) \/ (d(i) = d(j) /\ e(i) < e(j)) BY <1>3
<1>5. Half(f, i) = <<f + 1 + d(i), e(i) + 1>> /\ Half(f, j) = <<f + 1 + d(j), e(j) + 1>> BY <1>2
<1>6. f + 1 + d(i) \in Nat \ {0} /\ f < f + 1 + d(i) /\ e(i) + 1 \in {1, 2} BY <1>3
<1>7. i < j => Before(Half(f, i), Half(f, j)) BY <1>3, <1>4, <1>5 DEF Before
<1> QED BY <1>5, <1>6, <1>7

LEMMA OrderInbound ==
  ASSUME PlayInv, ReplyInOrder, NEW n \in Payloads, Inbound(n) PROVE ReplyInOrder'
<1>1. n \in Nat \ {0} /\ MaxReply \in Nat BY PlaybackAssumption
<1>2. rx \in Nat /\ kept \in 0 .. rx /\ played \in 0 .. kept BY <1>1 DEF PlayInv
<1>3. PICK m \in 0 .. n : \E part \in Seq(Halves) :
        /\ Len(part) = 2 * m /\ \A j \in 1 .. m : Pair(part, j, rx + j)
        /\ \A i \in 1 .. 2 * m : part[i] = Half(rx, i)
        /\ buf' = buf \o part /\ kept' = IF m = 0 THEN kept ELSE rx + m
  BY Arrives
<1>4. PICK part \in Seq(Halves) :
        /\ Len(part) = 2 * m /\ \A j \in 1 .. m : Pair(part, j, rx + j)
        /\ \A i \in 1 .. 2 * m : part[i] = Half(rx, i)
        /\ buf' = buf \o part /\ kept' = IF m = 0 THEN kept ELSE rx + m
  BY <1>3
<1>5. buf \in Seq(Halves) /\ played' = played BY DEF PlayInv, Whole, Packets, Inbound, speaker
<1>6. /\ Len(buf) \in Nat /\ Len(buf') = Len(buf) + 2 * m
      /\ \A i \in 1 .. Len(buf) : buf'[i] = buf[i]
      /\ \A i \in Len(buf) + 1 .. Len(buf) + 2 * m : buf'[i] = part[i - Len(buf)]
  <2>1. Len(buf) \in Nat /\ Len(buf \o part) = Len(buf) + 2 * m BY <1>4, <1>5
  <2>2. ASSUME NEW i \in 1 .. Len(buf) PROVE (buf \o part)[i] = buf[i] BY <1>4, <1>5
  <2>3. ASSUME NEW i \in 1 .. Len(part) PROVE (buf \o part)[Len(buf) + i] = part[i] BY <1>4, <1>5
  <2>4. ASSUME NEW i \in Len(buf) + 1 .. Len(buf) + 2 * m
        PROVE  (buf \o part)[i] = part[i - Len(buf)]
    <3>1. i - Len(buf) \in 1 .. Len(part) /\ Len(buf) + (i - Len(buf)) = i BY <1>4, <2>1
    <3>2. (buf \o part)[Len(buf) + (i - Len(buf))] = part[i - Len(buf)] BY <2>3, <3>1
    <3> QED BY <3>1, <3>2
  <2> QED BY <1>4, <2>1, <2>2, <2>4
<1>7. CASE m = 0
  <2>1. part = << >> BY <1>4, <1>7
  <2>2. buf' = buf /\ kept' = kept BY <1>4, <1>5, <1>7, <2>1
  <2> QED BY <1>5, <2>2 DEF ReplyInOrder
<1>8. CASE m > 0
  <2>1. \A i \in 1 .. Len(buf) : buf[i] \in Halves /\ buf[i][1] <= kept
    <3> SUFFICES ASSUME NEW i \in 1 .. Len(buf) PROVE buf[i] \in Halves /\ buf[i][1] <= kept OBVIOUS
    <3>1. buf[i] \in Halves /\ buf[Len(buf)] \in Halves BY <1>5
    <3>2. buf # << >> /\ buf[Len(buf)][1] = kept BY <1>5 DEF ReplyInOrder
    <3>3. i = Len(buf) \/ Before(buf[i], buf[Len(buf)]) BY <1>5 DEF ReplyInOrder
    <3> QED BY <1>1, <3>1, <3>2, <3>3 DEF Before, Halves
  <2>2. \A i \in Len(buf) + 1 .. Len(buf) + 2 * m :
          i - Len(buf) \in 1 .. 2 * m /\ buf'[i] = Half(rx, i - Len(buf)) /\ rx < buf'[i][1]
    <3> SUFFICES ASSUME NEW i \in Len(buf) + 1 .. Len(buf) + 2 * m
                 PROVE  i - Len(buf) \in 1 .. 2 * m /\ buf'[i] = Half(rx, i - Len(buf)) /\ rx < buf'[i][1]
      OBVIOUS
    <3>1. i - Len(buf) \in 1 .. 2 * m /\ i - Len(buf) \in Nat \ {0} BY <1>6
    <3>2. buf'[i] = Half(rx, i - Len(buf)) BY <1>4, <1>6, <3>1
    <3> QED BY <1>2, <3>1, <3>2, HalvesInOrder
  <2>3. ASSUME NEW i \in 1 .. Len(buf'), NEW j \in 1 .. Len(buf'), i < j
        PROVE  Before(buf'[i], buf'[j])
    <3>1. CASE j <= Len(buf)
      <4>1. i \in 1 .. Len(buf) /\ j \in 1 .. Len(buf) BY <1>6, <2>3, <3>1
      <4> QED BY <1>6, <2>3, <4>1 DEF ReplyInOrder
    <3>2. CASE i <= Len(buf) /\ j > Len(buf)
      <4>1. i \in 1 .. Len(buf) /\ j \in Len(buf) + 1 .. Len(buf) + 2 * m BY <1>6, <3>2
      <4>2. buf'[i][1] <= kept /\ rx < buf'[j][1] /\ buf'[i] \in Halves /\ j - Len(buf) \in Nat \ {0}
        BY <1>6, <2>1, <2>2, <4>1
      <4>3. buf'[j] = Half(rx, j - Len(buf)) BY <2>2, <4>1
      <4>4. buf'[j][1] \in Nat
        <5>1. Half(rx, j - Len(buf)) \in (Nat \ {0}) \X {1, 2} BY <1>2, <4>2, HalvesInOrder
        <5> QED BY <4>3, <5>1
      <4>5. buf'[i][1] \in Nat BY <1>1, <4>2 DEF Halves
      <4> QED BY <1>2, <4>2, <4>4, <4>5 DEF Before
    <3>3. CASE i > Len(buf)
      <4>1. /\ i \in Len(buf) + 1 .. Len(buf) + 2 * m /\ j \in Len(buf) + 1 .. Len(buf) + 2 * m
            /\ i - Len(buf) < j - Len(buf)
            /\ i - Len(buf) \in Nat \ {0} /\ j - Len(buf) \in Nat \ {0}
        BY <1>6, <2>3, <3>3
      <4>2. buf'[i] = Half(rx, i - Len(buf)) /\ buf'[j] = Half(rx, j - Len(buf)) BY <2>2, <4>1
      <4>3. Before(Half(rx, i - Len(buf)), Half(rx, j - Len(buf))) BY <1>2, <4>1, HalvesInOrder
      <4> QED BY <4>2, <4>3
    <3> QED BY <1>6, <3>1, <3>2, <3>3
  <2>4. ASSUME NEW i \in 1 .. Len(buf') PROVE played' < buf'[i][1]
    <3>1. CASE i <= Len(buf)
      <4>1. i \in 1 .. Len(buf) BY <1>6, <3>1
      <4> QED BY <1>5, <1>6, <4>1 DEF ReplyInOrder
    <3>2. CASE i > Len(buf)
      <4>1. i \in Len(buf) + 1 .. Len(buf) + 2 * m BY <1>6, <3>2
      <4>2. buf'[i] = Half(rx, i - Len(buf)) /\ rx < buf'[i][1] /\ i - Len(buf) \in Nat \ {0}
        BY <1>6, <2>2, <4>1
      <4>3. buf'[i][1] \in Nat BY <1>2, <4>2, HalvesInOrder
      <4> QED BY <1>2, <1>5, <4>2, <4>3
    <3> QED BY <1>6, <3>1, <3>2
  <2>5. buf' # << >> /\ buf'[Len(buf')][1] = kept'
    <3>1. Len(buf') \in Len(buf) + 1 .. Len(buf) + 2 * m /\ Len(buf') - Len(buf) = 2 * m
      BY <1>6, <1>8
    <3>2. buf'[Len(buf')] = part[2 * m] BY <1>6, <3>1
    <3>3. m \in 1 .. m /\ Pair(part, m, rx + m) BY <1>4, <1>8
    <3>4. buf'[Len(buf')][1] = rx + m BY <3>2, <3>3 DEF Pair
    <3>5. buf' # << >> BY <1>6, <1>8
    <3> QED BY <1>4, <1>8, <3>4, <3>5
  <2> QED BY <2>3, <2>4, <2>5 DEF ReplyInOrder
<1> QED BY <1>7, <1>8

LEMMA OrderRead == ASSUME PlayInv, ReplyInOrder, PlayBuffer PROVE ReplyInOrder' /\ played <= played'
<1>1. PICK a \in Nat : Packets(buf, a, kept) BY DEF PlayInv, Whole
<1>2. buf \in Seq(Halves) /\ Len(buf) = 2 * a /\ kept' = kept BY <1>1 DEF Packets, PlayBuffer
<1>3. MaxReply \in Nat /\ played \in Nat BY PlaybackAssumption DEF PlayInv
<1>4. CASE a = 0
  <2>1. Smaller(2, Len(buf)) = 0 /\ buf = << >> BY <1>2, <1>4 DEF Smaller
  <2>2. buf' = buf /\ played' = played BY <2>1 DEF PlayBuffer
  <2> QED BY <1>2, <1>3, <2>2 DEF ReplyInOrder
<1>5. CASE a > 0
  <2>1. buf' = SubSeq(buf, 3, Len(buf)) /\ played' = buf[2][1] BY <1>2, <1>5, TakesPacket
  <2>2. /\ Len(buf') = 2 * a - 2 /\ \A i \in 1 .. Len(buf') : i + 2 \in 1 .. Len(buf) /\ buf'[i] = buf[i + 2]
    BY <1>2, <1>5, <2>1
  <2>3. PICK p \in 1 .. kept : Pair(buf, 1, p) BY <1>1, <1>5 DEF Packets
  <2>4. buf[2] = <<p, 2>> /\ played' = p /\ 2 \in 1 .. Len(buf)
    <3>1. buf[2] = <<p, 2>> BY <2>3 DEF Pair
    <3> QED BY <1>2, <1>5, <2>1, <3>1
  <2>5. played < played'
    <3>1. played < buf[2][1] BY <2>4 DEF ReplyInOrder
    <3> QED BY <2>4, <3>1
  <2>6. ASSUME NEW i \in 1 .. Len(buf'), NEW j \in 1 .. Len(buf'), i < j
        PROVE  Before(buf'[i], buf'[j])
    <3>1. i + 2 \in 1 .. Len(buf) /\ j + 2 \in 1 .. Len(buf) /\ i + 2 < j + 2 BY <2>2, <2>6
    <3> QED BY <2>2, <3>1 DEF ReplyInOrder
  <2>7. ASSUME NEW i \in 1 .. Len(buf') PROVE played' < buf'[i][1]
    <3>1. i + 2 \in 1 .. Len(buf) /\ 2 < i + 2 /\ buf'[i] = buf[i + 2] BY <2>2
    <3>2. Before(buf[2], buf[i + 2]) BY <2>4, <3>1 DEF ReplyInOrder
    <3>3. buf[i + 2] \in Halves BY <1>2, <3>1
    <3>4. buf[i + 2][1] \in Nat /\ buf[i + 2][2] \in {1, 2} BY <3>3 DEF Halves
    <3> QED BY <2>4, <3>1, <3>2, <3>4 DEF Before
  <2>8. IF buf' = << >> THEN played' = kept' ELSE buf'[Len(buf')][1] = kept'
    <3>1. buf # << >> /\ buf[Len(buf)][1] = kept BY <1>2, <1>5 DEF ReplyInOrder
    <3>2. CASE a = 1
      <4>1. Len(buf) = 2 /\ Len(buf') = 0 BY <1>2, <2>2, <3>2
      <4>2. buf' \in Seq(Halves) BY <1>2, <2>1
      <4>3. buf' = << >> BY <4>1, <4>2
      <4> QED BY <1>2, <2>1, <3>1, <4>1, <4>3
    <3>3. CASE a # 1
      <4>1. Len(buf') \in 1 .. Len(buf') /\ Len(buf') + 2 = Len(buf) BY <1>2, <1>5, <2>2, <3>3
      <4>2. buf'[Len(buf')] = buf[Len(buf)] BY <2>2, <4>1
      <4>3. buf' # << >> BY <4>1
      <4> QED BY <1>2, <3>1, <4>2, <4>3
    <3> QED BY <3>2, <3>3
  <2>9. p \in Nat BY <1>3 DEF PlayInv
  <2> QED BY <1>3, <2>4, <2>5, <2>6, <2>7, <2>8, <2>9 DEF ReplyInOrder
<1> QED BY <1>4, <1>5

LEMMA OrderKept ==
  ASSUME PlayInv, ReplyInOrder, [AudioNext]_avars PROVE ReplyInOrder' /\ played <= played'
<1>0. played \in Nat BY PlaybackAssumption DEF PlayInv
<1>1. CASE UNCHANGED <<buf, kept, played>> BY <1>0, <1>1 DEF ReplyInOrder
<1>2. CASE Capture BY <1>1, <1>2 DEF Capture, Arm, Lapse, pvars, stream, speaker
<1>3. CASE GiveUp BY <1>1, <1>3 DEF GiveUp, Abandon, stream, speaker
<1>4. CASE Reply
  <2>1. PICK n \in Payloads : Inbound(n) BY <1>4 DEF Reply
  <2>2. played' = played BY <2>1 DEF Inbound, speaker
  <2> QED BY <1>0, <2>1, <2>2, OrderInbound
<1>5. CASE Speak
  <2>1. CASE TakeChirp \/ PlayChirp BY <1>1, <2>1 DEF TakeChirp, PlayChirp, stream
  <2>2. CASE PlayBuffer BY <2>2, OrderRead
  <2> QED BY <1>5, <2>1, <2>2 DEF Speak, Play
<1>6. CASE Background \/ UNCHANGED avars
  BY <1>1, <1>6 DEF Background, avars, pvars, stream, speaker
<1> QED BY <1>2, <1>3, <1>4, <1>5, <1>6 DEF AudioNext

(* The reply is played in the order it was decoded, nothing twice, and what found room   *)
(* stays in the buffer until it is played, for every buffer and every payload            *)
(* (session.cpp:417-428, 754-765).                                                       *)
THEOREM RepliesInOrder == AudioSpec => [](ReplyInOrder) /\ [][played <= played']_avars
<1>1. AudioInit => ReplyInOrder BY DEF AudioInit, PlaybackInit, ReplyInOrder
<1> QED BY <1>1, OrderKept, PlayInductive, PTL DEF AudioSpec

(* A chirp that was asked for and not heard yet still waits for the playback task: the    *)
(* safe half of LatestChirpHeard (session.cpp:668, 680, 735-752).                         *)
ChirpIsWaiting == heard < asked => chirp # "none"

THEOREM NoChirpForgotten == AudioSpec => []ChirpIsWaiting
<1>1. AudioInit => ChirpIsWaiting BY DEF AudioInit, PlaybackInit, ChirpIsWaiting
<1>2. TurnTypes /\ ChirpIsWaiting /\ [AudioNext]_avars => ChirpIsWaiting'
  <2> SUFFICES ASSUME TurnTypes, ChirpIsWaiting, [AudioNext]_avars PROVE ChirpIsWaiting' OBVIOUS
  <2>1. CASE UNCHANGED <<chirp, asked, heard>> BY <2>1 DEF ChirpIsWaiting
  <2>2. CASE Arm \/ Lapse \/ Abandon
    BY <2>2 DEF Arm, Lapse, Abandon, Ask, ChirpIsWaiting, speaker, TurnTypes
  <2>3. CASE TakeChirp BY <2>3 DEF TakeChirp, ChirpIsWaiting, TurnTypes
  <2>4. CASE PlayChirp \/ PlayBuffer BY <2>1, <2>4 DEF PlayChirp, PlayBuffer, turn
  <2>5. CASE Capture BY <2>1, <2>2, <2>5 DEF Capture, pvars, turn, speaker
  <2>6. CASE GiveUp BY <2>2, <2>6 DEF GiveUp
  <2>7. CASE Reply BY <2>1, <2>7 DEF Reply, Inbound, turn, speaker
  <2>8. CASE Background \/ UNCHANGED avars
    BY <2>1, <2>8 DEF Background, avars, pvars, turn, speaker
  <2> QED BY <2>3, <2>4, <2>5, <2>6, <2>7, <2>8 DEF AudioNext, Speak, Play
<1> QED BY <1>1, <1>2, TurnTyped, PTL DEF AudioSpec

(* A fire whose snapshot was not copied yet has the uploader notified or about to copy it: *)
(* the safe half of LatestIsPosted (session.cpp:198-226, 658).                             *)
FireIsNoticed == copied < capture_seq => notified \/ upc = "copy"

NoticeInv == FireIsNoticed /\ (wake_at = 0 => capture_seq = 0)

LEMMA NoticeKept ==
  ASSUME IInv, CaptureTypeOK, NoticeInv, [CaptureNext]_cvars PROVE NoticeInv'
<1>1. CASE UNCHANGED <<capture_seq, copied, notified, upc, wake_at>>
  BY <1>1 DEF NoticeInv, FireIsNoticed
<1>2. CASE Frame
  <2>1. frame' = frame + 1 /\ frame \in Nat BY <1>2 DEF Frame, Hear, IInv, RingInv
  <2>2. CASE Snapshot
    <3>1. notified' = TRUE /\ wake_at' # 0 BY <2>1, <2>2 DEF Snapshot
    <3> QED BY <3>1 DEF NoticeInv, FireIsNoticed
  <2>3. CASE UNCHANGED <<snapshot, notified>> BY <1>1, <1>2, <2>3 DEF Frame, snapshot, uploader
  <2> QED BY <1>2, <2>2, <2>3 DEF Frame
<1>3. CASE UploadIdle \/ UNCHANGED cvars BY <1>1, <1>3 DEF UploadIdle, cvars, snapshot, uploader
<1>4. CASE UploadTake BY <1>4 DEF UploadTake, NoticeInv, FireIsNoticed, snapshot
<1>5. CASE UploadDone BY <1>5 DEF UploadDone, NoticeInv, FireIsNoticed, snapshot
<1>6. CASE UploadCopy
  <2>1. UNCHANGED <<wake_at, capture_seq>> BY <1>6 DEF UploadCopy, snapshot
  <2>2. CASE wake_pcm # << >>
    <3>1. copied' = capture_seq /\ capture_seq \in Nat BY <1>6, <2>2 DEF UploadCopy, IInv, FireInv
    <3> QED BY <2>1, <3>1 DEF NoticeInv, FireIsNoticed
  <2>3. CASE wake_pcm = << >>
    <3>1. wake_at = 0
      <4>1. wake_at \in Nat /\ Len(wake_pcm) = Capped(wake_at, Capacity)
        BY OneFrameMore DEF IInv, FireInv
      <4>2. Capacity \in Nat /\ Capacity > 0 BY CapacityAssumption
      <4> QED BY <2>3, <4>1, <4>2 DEF Capped
    <3>2. capture_seq = 0 /\ copied' = copied BY <1>6, <2>3, <3>1 DEF UploadCopy, NoticeInv
    <3>3. copied \in 0 .. capture_seq BY DEF CaptureTypeOK
    <3> QED BY <2>1, <3>1, <3>2, <3>3 DEF NoticeInv, FireIsNoticed
  <2> QED BY <2>2, <2>3
<1> QED BY <1>2, <1>3, <1>4, <1>5, <1>6 DEF CaptureNext, Upload

THEOREM NoFireForgotten == AudioSpec => []FireIsNoticed
<1>1. CaptureInit => NoticeInv BY DEF CaptureInit, NoticeInv, FireIsNoticed
<1>2. NoticeInv => FireIsNoticed BY DEF NoticeInv
<1> QED BY <1>1, <1>2, NoticeKept, AudioCaptures, Inductive, CaptureTyped, PTL DEF CaptureSpec
===============================================================================
