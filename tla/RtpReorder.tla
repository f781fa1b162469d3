----------------------------- MODULE RtpReorder -----------------------------
(* One rtp_reorder_t under a network that loses, duplicates and delays: any  *)
(* packet from MaxLate behind to MaxJump ahead of the newest one so far may  *)
(* arrive next.                                                              *)
EXTENDS RtpReorderRing

CONSTANTS
    First,         \* positions at which the stream may be joined
    Last,          \* bound: the last position sent
    MaxLate,       \* bound: how far a packet may lag behind the newest
    MaxJump,       \* bound: the longest run of lost packets, plus one
    InitSpread     \* bound: spread of the packets collected at the start

ASSUME ReorderAssumption ==
    /\ Last \in Nat
    /\ First \subseteq 0..Last
    /\ MaxLate \in Nat
    /\ MaxJump \in Nat \ {0}
    /\ MaxLate + MaxJump + Window < SeqMod \div 2
    /\ InitSpread \in 0..Window

VARIABLES
    ring,     \* the rtp_reorder_t; out is what the last call delivered
    newest,   \* network: the newest position that arrived, None before
    lastOut   \* the position delivered last since rtp_reorder_init

vars == <<ring, newest, lastOut>>

Positions == 0..Last

-----------------------------------------------------------------------------
Init ==
    /\ ring = EmptyRing
    /\ newest = None
    /\ lastOut = None

\* What the network may hand over next (external).
Arrivals ==
    IF newest = None THEN First
    ELSE {i \in Positions :
             /\ newest - MaxLate <= i /\ i <= newest + MaxJump
             /\ ring.phase = 1 =>
                   \A k \in Buffered(ring) : -InitSpread < i - k /\ i - k < InitSpread}

Insert(i) ==
    /\ newest' = IF i > newest THEN i ELSE newest
    /\ ring' = InsertPacket([ring EXCEPT !.out = << >>], i)
    /\ lastOut' = IF ring'.out = << >> THEN lastOut ELSE ring'.out[Len(ring'.out)]

\* rtp_reorder_cleanup followed by rtp_reorder_init for a new stream.
Reinit ==
    /\ ring.phase # 0
    /\ ring' = EmptyRing
    /\ newest' = None
    /\ lastOut' = None

Next == (\E i \in Arrivals : Insert(i)) \/ Reinit

Spec == Init /\ [][Next]_vars

-----------------------------------------------------------------------------
TypeOK ==
    /\ ring \in RingType(Positions)
    /\ newest \in Positions \cup {None}
    /\ lastOut \in Positions \cup {None}

\* Packets leave strictly in the sender's order, across the wrap of the
\* sequence number and whatever the network does: none twice, none late.
InOrder ==
    [][\A k \in 1..Len(ring'.out) :
          (IF k = 1 THEN lastOut ELSE ring'.out[k - 1]) < ring'.out[k]]_vars

\* A packet that was stored is delivered exactly when it leaves its slot:
\* making room, flushing and replacing lose nothing that had arrived.
StoredIsDelivered ==
    [][ring'.phase # 0 =>
          \A i \in Buffered(ring) :
              i \in Buffered(ring') \/ \E k \in 1..Len(ring'.out) : ring'.out[k] = i]_vars

\* What the ring promises the client: the packets that arrive in time leave
\* in order, once, and none that was stored is lost.
Reordered == InOrder /\ StoredIsDelivered

\* The window begins at position b: base_seq is its number, what was delivered
\* lies before it, what is stored lies in it, each packet in the slot its number
\* gives.  While packets are collected the first and the newest are stored.
WindowAt(b) ==
    /\ ring.base = b % SeqMod
    /\ lastOut < b
    /\ b <= newest + 1 /\ newest < b + Window
    /\ \A s \in 0..(Window - 1) :
          LET i == ring.slots[s]
          IN  i # None => s = SlotOf(i) /\ b <= i /\ i <= newest
    /\ ring.phase = 0 => newest = None /\ Buffered(ring) = {}
    /\ ring.phase # 0 => newest # None
    /\ ring.phase = 1 => {b, newest} \subseteq Buffered(ring)
    /\ ring.phase # 2 => lastOut = None

\* There is such a position, although the code knows numbers only: none of the
\* stored packets is a lap off, so to deliver by slot, without looking at the
\* number again, is right.
WindowAligned == \E b \in 0..(Last + 1) : WindowAt(b)

WindowInv == TypeOK /\ WindowAligned

Stored == Cardinality({s \in 0..(Window - 1) : ring.slots[s] # None})

\* count never says less than is buffered: flush_consecutive, which stops at
\* zero, leaves nothing behind for want of a count.  It may say more: after a
\* forced flush a duplicate of the packet at base_seq is stored over itself
\* and counted again.
CountCovers == ring.count >= Stored

\* The ring of rtp_reorder.c is well formed at every return of
\* rtp_reorder_insert: the window sits where base_seq says and is counted.
RingInv == WindowInv /\ CountCovers
=============================================================================
