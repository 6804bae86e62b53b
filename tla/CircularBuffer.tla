--------------------------- MODULE CircularBuffer ---------------------------
(***************************************************************************)
(* The ring that captureTask keeps its audio in: r_head and r_count over    *)
(* kRingPkts slots for the uplink backlog, c_head and c_count over          *)
(* kWakeCaptureSamples for the wake capture.                                *)
(***************************************************************************)
EXTENDS Integers, Sequences

CONSTANT Capacity

ASSUME CapacityAssumption == Capacity \in Nat \ {0}

Slots == 0 .. Capacity - 1

Buffers(Values) == [slots : [Slots -> Values], head : Slots, count : 0 .. Capacity]

Empty(filler) == [slots |-> [i \in Slots |-> filler], head |-> 0, count |-> 0]

\* What the buffer holds, oldest first.
Contents(b) == [i \in 1 .. b.count |-> b.slots[(b.head + i - 1) % Capacity]]

\* Planted: a full buffer keeps its head.
BugPutKeepsHead(b, x) ==
  [slots |-> [b.slots EXCEPT ![(b.head + b.count) % Capacity] = x],
   head  |-> b.head,
   count |-> IF b.count < Capacity THEN b.count + 1 ELSE b.count]

\* Planted: one element too many is counted.
BugPutCountsOn(b, x) ==
  [slots |-> [b.slots EXCEPT ![(b.head + b.count) % Capacity] = x],
   head  |-> IF b.count <= Capacity THEN b.head ELSE (b.head + 1) % Capacity,
   count |-> IF b.count <= Capacity THEN b.count + 1 ELSE b.count]

\* ring_push, cap_push: a full buffer drops its oldest element.
Put(b, x) ==
  [slots |-> [b.slots EXCEPT ![(b.head + b.count) % Capacity] = x],
   head  |-> IF b.count < Capacity THEN b.head ELSE (b.head + 1) % Capacity,
   count |-> IF b.count < Capacity THEN b.count + 1 ELSE b.count]

\* ring_pop: what it returns, and what it leaves.
Oldest(b)     == b.slots[b.head]
DropOldest(b) == [b EXCEPT !.head = (b.head + 1) % Capacity, !.count = b.count - 1]

\* The wake snapshot: one memcpy up to the end of the array, one from its beginning.
Linear(b) ==
  LET first == IF b.count < Capacity - b.head THEN b.count ELSE Capacity - b.head
  IN  [i \in 1 .. b.count |->
         IF i <= first THEN b.slots[b.head + i - 1] ELSE b.slots[i - first - 1]]
=============================================================================
