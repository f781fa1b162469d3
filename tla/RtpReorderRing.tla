--------------------------- MODULE RtpReorderRing ---------------------------
(* The operations of rtp_reorder.c without FEC (fec NULL or not enabled) on  *)
(* one rtp_reorder_t: a ring of slots indexed by sequence number collects    *)
(* the first packets of a stream, then delivers in order, waits at a hole    *)
(* and gives the hole up when a packet beyond the window arrives.            *)
(*                                                                           *)
(* A packet is its position i in the sender's stream; the code only sees     *)
(* i % SeqMod.                                                               *)
EXTENDS Integers, Sequences, FiniteSets

CONSTANTS
    SeqMod,        \* 2^16, the range of an RTP sequence number
    Window,        \* RTP_REORDER_WINDOW_SIZE_SMALL
    Collect        \* RTP_REORDER_INIT_COLLECT

\* The range of count, a uint16_t like window_size.
CountMod == 65536

ASSUME RingAssumption ==
    /\ Window \in Nat \ {0} /\ Window < CountMod
    /\ SeqMod \in Nat \ {0} /\ SeqMod % Window = 0 /\ SeqMod % 2 = 0
    /\ Collect \in 1..Window

None == -1

\* rtp_reorder_t: phase 0 not started, 1 collecting, 2 active; out is what
\* was delivered since the caller last emptied it.
RingType(Packets) ==
    [phase : 0..2, base : 0..(SeqMod - 1),
     slots : [0..(Window - 1) -> Packets \cup {None}],
     count : 0..(CountMod - 1), out : Seq(Packets)]

\* rtp_reorder_init
EmptyRing ==
    [phase |-> 0, base |-> 0, slots |-> [s \in 0..(Window - 1) |-> None],
     count |-> 0, out |-> << >>]

Buffered(r) == {r.slots[s] : s \in 0..(Window - 1)} \ {None}

SlotOf(seq) == seq % Window

\* (int16_t)(a - b)
SeqDiff(a, b) ==
    LET d == (a - b) % SeqMod
    IN  IF d >= SeqMod \div 2 THEN d - SeqMod ELSE d

-----------------------------------------------------------------------------
\* Slots occupied from base b on, up to the first hole.
RunLength(s, b) ==
    CHOOSE k \in 0..Window :
        /\ \A j \in 0..(k - 1) : s[SlotOf(b + j)] # None
        /\ k = Window \/ s[SlotOf(b + k)] = None

\* The first n slots from base b on emptied.
Cleared(s, b, n) ==
    [t \in 0..(Window - 1) |->
        IF \E j \in 0..(n - 1) : t = SlotOf(b + j) THEN None ELSE s[t]]

\* What the first n slots from base b on hold, in their order.
Held(s, b, n) ==
    LET occupied == {j \in 0..(n - 1) : s[SlotOf(b + j)] # None}
        nth(k)   == CHOOSE j \in occupied : Cardinality({l \in occupied : l <= j}) = k
    IN  [k \in 1..Cardinality(occupied) |-> s[SlotOf(b + nth(k))]]

\* flush_consecutive
FlushConsecutive(r) ==
    LET run == RunLength(r.slots, r.base)
        k   == IF run < r.count THEN run ELSE r.count
    IN  [r EXCEPT !.slots = Cleared(@, r.base, k),
                  !.base  = (@ + k) % SeqMod,
                  !.count = @ - k,
                  !.out   = @ \o [j \in 1..k |-> r.slots[SlotOf(r.base + j - 1)]]]

\* Faulty variant: the packets in the way are dropped, not delivered.
ForceFlushUntilDropping(r, seq) ==
    LET n == SeqDiff(seq, r.base) - Window + 1
    IN  IF n <= 0 THEN r
        ELSE [r EXCEPT !.slots = Cleared(@, r.base, n),
                       !.base  = (@ + n) % SeqMod,
                       !.count = 0]

\* force_flush_until: base_seq moves until seq fits into the window; what
\* it passes is delivered, holes are lost.
ForceFlushUntil(r, seq) ==
    LET n      == SeqDiff(seq, r.base) - Window + 1
        reach  == IF n < Window THEN n ELSE Window
        passed == Held(r.slots, r.base, reach)
    IN  IF n <= 0 THEN r
        ELSE [r EXCEPT !.slots = Cleared(@, r.base, reach),
                       !.base  = (@ + n) % SeqMod,
                       !.count = (@ - Len(passed)) % CountMod,
                       !.out   = @ \o passed]

-----------------------------------------------------------------------------
(* rtp_reorder_insert, one operator for each way through it.                 *)

\* Put packet i into its slot, whatever is there.
Put(r, i) == [r EXCEPT !.slots[SlotOf(i)] = i, !.count = (@ + 1) % CountMod]

\* Faulty variant: base_seq stays at the first packet seen.
CollectedFirstBase(r, i) ==
    IF r.slots[SlotOf(i)] # None THEN r ELSE Put(r, i)

\* Phase 1, the packet: stored in a free slot, base_seq the least so far.
Collected(r, i) ==
    IF r.slots[SlotOf(i)] # None THEN r
    ELSE Put([r EXCEPT !.base = IF SeqDiff(i, @) < 0 THEN i % SeqMod ELSE @], i)

\* The expected packet: straight through when nothing waits, else stored
\* (over what the slot holds) and flushed with what follows it.
Expected(r, i) ==
    IF r.count = 0 /\ r.slots[SlotOf(i)] = None
    THEN [r EXCEPT !.base = (@ + 1) % SeqMod, !.out = Append(@, i)]
    ELSE FlushConsecutive(Put(r, i))

\* A packet ahead of a hole: room is made by force, a duplicate is dropped.
Ahead(r, i) ==
    LET f == ForceFlushUntil(r, i)
        s == f.slots[SlotOf(i)]
    IN  IF s # None /\ s % SeqMod = i % SeqMod THEN f ELSE Put(f, i)

\* rtp_reorder_insert
InsertPacket(r, i) ==
    CASE r.phase = 0 ->
            Put([r EXCEPT !.base = i % SeqMod, !.phase = 1], i)
      [] r.phase = 1 ->
            LET c == Collected(r, i)
            IN  IF c.count < Collect THEN c
                ELSE FlushConsecutive([c EXCEPT !.phase = 2])
      [] r.phase = 2 /\ SeqDiff(i, r.base) = 0 -> Expected(r, i)
      [] r.phase = 2 /\ SeqDiff(i, r.base) < 0 -> r
      [] r.phase = 2 /\ SeqDiff(i, r.base) > 0 -> Ahead(r, i)
=============================================================================
