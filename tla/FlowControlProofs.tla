------------------------- MODULE FlowControlProofs -------------------------
(* The relay of one response, for every pool configuration, size of what     *)
(* recv() returns, socket behaviour and load of the worker: no wakeup is     *)
(* lost but for a queue below the flush threshold, and bytes are only thrown *)
(* away when the queue limit moves.                                          *)
EXTENDS FlowControl, TLAPS

USE FlowAssumption

-----------------------------------------------------------------------------
(* Division, products and the extremes of two numbers.                       *)

LEMMA DivBounds ==
    ASSUME NEW a \in Nat, NEW b \in Nat \ {0}
    PROVE  a \div b \in Nat /\ (a \div b) * b <= a /\ a < (a \div b) * b + b
<1>1. a \div b \in Int /\ a % b \in 0..(b - 1)
  OBVIOUS
<1>2. a = b * (a \div b) + (a % b)
  OBVIOUS
<1> QED
  BY <1>1, <1>2

\* What comes less than one b after r times b is at most the r-th multiple.
LEMMA MultipleBelow ==
    ASSUME NEW b \in Nat \ {0}, NEW q \in Nat, NEW r \in Nat, q * b < r * b + b
    PROVE  q <= r
<1>1. SUFFICES ASSUME q >= r + 1 PROVE FALSE
  OBVIOUS
<1>2. PICK d \in Nat : q = r + 1 + d
  <2>1. q - r - 1 \in Nat /\ q = r + 1 + (q - r - 1)
    BY <1>1
  <2> QED
    BY <2>1
<1>3. d * b \in Nat /\ r * b \in Nat
  OBVIOUS
<1>4. q * b = r * b + b + d * b
  BY <1>2
<1> QED
  BY <1>3, <1>4

LEMMA ProductMonotone ==
    ASSUME NEW a \in Nat, NEW b \in Nat, NEW c \in Nat, NEW d \in Nat, a <= c, b <= d
    PROVE  a * b \in Nat /\ c * d \in Nat /\ a * b <= c * d
<1>1. PICK x \in Nat, y \in Nat : c = a + x /\ d = b + y
  <2>1. c - a \in Nat /\ c = a + (c - a) /\ d - b \in Nat /\ d = b + (d - b)
    OBVIOUS
  <2> QED
    BY <2>1
<1>2. a * b \in Nat /\ a * y \in Nat /\ x * b \in Nat /\ x * y \in Nat
  OBVIOUS
<1>3. c * d = a * b + a * y + x * b + x * y
  BY <1>1
<1> QED
  BY <1>2, <1>3

LEMMA DivMonotone ==
    ASSUME NEW a \in Nat, NEW c \in Nat, NEW b \in Nat \ {0}, a <= c
    PROVE  a \div b \in Nat /\ c \div b \in Nat /\ a \div b <= c \div b
<1>1. /\ a \div b \in Nat /\ (a \div b) * b <= a /\ a < (a \div b) * b + b
      /\ c \div b \in Nat /\ (c \div b) * b <= c /\ c < (c \div b) * b + b
  BY DivBounds
<1>2. (a \div b) * b < (c \div b) * b + b
  BY <1>1
<1> QED
  BY <1>1, <1>2, MultipleBelow

LEMMA LeastMost ==
    ASSUME NEW a \in Nat, NEW b \in Nat
    PROVE  /\ Least(a, b) \in Nat /\ Least(a, b) <= a /\ Least(a, b) <= b
           /\ Most(a, b) \in Nat /\ Most(a, b) >= a /\ Most(a, b) >= b
           /\ \A x \in Nat : x <= a /\ x <= b => x <= Least(a, b)
           /\ \A x \in Nat : x >= a /\ x >= b => x >= Most(a, b)
BY DEF Least, Most

-----------------------------------------------------------------------------
(* The queue: its capacity and the lowest high watermark.                    *)

LEMMA QueueCapacity ==
    ASSUME NEW k \in Nat
    PROVE  QueueBytes(k) \in Nat /\ QueueBytes(k + 1) = QueueBytes(k) + SlotBytes
           /\ QueueBytes(0) = 0
BY DEF QueueBytes

\* Three quarters of MinBuffers, in whole buffers.
LEMMA LowestWatermark ==
    \E m \in Nat \ {0} :
        /\ MinBuffers = 4 * m
        /\ m * SlotBytes \in Nat
        /\ Hwm(MinBuffers * SlotBytes) = 3 * (m * SlotBytes)
<1>1. PICK m \in Nat : MinBuffers = 4 * m
  <2>1. MinBuffers = 4 * (MinBuffers \div 4) /\ MinBuffers \div 4 \in Nat
    BY HeadRoomAssumption
  <2> QED
    BY <2>1
<1>2. m # 0
  BY <1>1
<1>3. m * SlotBytes \in Nat /\ MinBuffers * SlotBytes * 3 = 4 * (3 * (m * SlotBytes))
  BY <1>1
<1>4. (4 * (3 * (m * SlotBytes))) \div 4 = 3 * (m * SlotBytes)
  BY <1>3
<1>5. Hwm(MinBuffers * SlotBytes) = 3 * (m * SlotBytes)
  BY <1>3, <1>4 DEF Hwm
<1> QED
  BY <1>1, <1>2, <1>3, <1>5

\* A queue at the lowest high watermark is at least that many buffers.
LEMMA BuffersAtWatermark ==
    ASSUME NEW k \in Nat, QueueBytes(k) >= Hwm(MinBuffers * SlotBytes)
    PROVE  k > 0 /\ 4 * k >= 3 * MinBuffers
<1>1. PICK m \in Nat \ {0} :
          /\ MinBuffers = 4 * m
          /\ m * SlotBytes \in Nat
          /\ Hwm(MinBuffers * SlotBytes) = 3 * (m * SlotBytes)
  BY LowestWatermark
<1>2. (3 * m) * SlotBytes < k * SlotBytes + SlotBytes
  <2>1. k * SlotBytes \in Nat /\ (3 * m) * SlotBytes = 3 * (m * SlotBytes)
    OBVIOUS
  <2> QED
    BY <1>1, <2>1 DEF QueueBytes
<1>3. 3 * m <= k
  BY <1>2, MultipleBelow
<1> QED
  BY <1>1, <1>3

-----------------------------------------------------------------------------
(* The limit: its type, its floor, and that it grows with its inputs.        *)

LEMMA FairShare ==
    ASSUME NEW n \in Nat, NEW m \in Nat, n <= m, NEW active \in Nat
    PROVE  /\ FairBytes(n, active) \in Nat /\ FairBytes(m, active) \in Nat
           /\ MinBuffers * SlotBytes <= FairBytes(n, active)
           /\ FairBytes(n, active) <= FairBytes(m, active)
<1> DEFINE base == Least(BaseBuffers, MaxBuffers)
           share(x) == Most(x, base) \div Most(active, 1)
<1>1. base \in Nat
  BY LeastMost
<1>2. Most(active, 1) \in Nat \ {0}
  BY DEF Most
<1>3. Most(n, base) \in Nat /\ Most(m, base) \in Nat /\ Most(n, base) <= Most(m, base)
  BY <1>1 DEF Most
<1>4. share(n) \in Nat /\ share(m) \in Nat /\ share(n) <= share(m)
  BY <1>2, <1>3, DivMonotone
<1> HIDE DEF share
<1>5. /\ Most(share(n), MinBuffers) \in Nat /\ Most(share(m), MinBuffers) \in Nat
      /\ MinBuffers <= Most(share(n), MinBuffers)
      /\ Most(share(n), MinBuffers) <= Most(share(m), MinBuffers)
  BY <1>4 DEF Most
<1>6. /\ FairBytes(n, active) = Most(share(n), MinBuffers) * SlotBytes
      /\ FairBytes(m, active) = Most(share(m), MinBuffers) * SlotBytes
  BY DEF FairBytes, share
<1>7. SlotBytes \in Nat /\ SlotBytes <= SlotBytes /\ MinBuffers \in Nat
  OBVIOUS
<1>8. /\ Most(share(n), MinBuffers) * SlotBytes \in Nat
      /\ Most(share(m), MinBuffers) * SlotBytes \in Nat
      /\ Most(share(n), MinBuffers) * SlotBytes <= Most(share(m), MinBuffers) * SlotBytes
  BY ONLY <1>5, <1>7, ProductMonotone
<1>9. MinBuffers * SlotBytes <= Most(share(n), MinBuffers) * SlotBytes
  BY ONLY <1>5, <1>7, ProductMonotone
<1> QED
  BY ONLY <1>6, <1>8, <1>9

LEMMA LimitGrows ==
    ASSUME NEW f \in Nat, NEW g \in Nat, f <= g, NEW a \in Nat, NEW b \in Nat, a <= b
    PROVE  /\ ComputeLimitBytes(f, a) \in Nat /\ ComputeLimitBytes(g, b) \in Nat
           /\ 4 * SlotBytes <= ComputeLimitBytes(f, a)
           /\ ComputeLimitBytes(f, a) <= ComputeLimitBytes(g, b)
<1> DEFINE cap == (IF MaxBuffers > MinBuffers THEN MaxBuffers - MinBuffers ELSE MaxBuffers) * SlotBytes
           low == FloorBuffers * SlotBytes
           x == (f * a) \div 10
           y == (g * b) \div 10
<1>1. cap \in Nat
  OBVIOUS
<1>2. low \in Nat /\ 4 * SlotBytes <= low
  <2>1. 4 \in Nat /\ FloorBuffers \in Nat /\ 4 <= FloorBuffers /\ SlotBytes \in Nat /\ SlotBytes <= SlotBytes
    BY HeadRoomAssumption
  <2> QED
    BY ONLY <2>1, ProductMonotone
<1>3. x \in Nat /\ y \in Nat /\ x <= y
  <2>1. f * a \in Nat /\ g * b \in Nat /\ f * a <= g * b
    BY ProductMonotone
  <2> QED
    BY ONLY <2>1, DivMonotone
<1>4. ComputeLimitBytes(f, a) = Most(Least(x, cap), low) /\ ComputeLimitBytes(g, b) = Most(Least(y, cap), low)
  BY DEF ComputeLimitBytes
<1> HIDE DEF x, y, cap, low
<1>5. /\ Most(Least(x, cap), low) \in Nat /\ Most(Least(y, cap), low) \in Nat
      /\ low <= Most(Least(x, cap), low)
      /\ Most(Least(x, cap), low) <= Most(Least(y, cap), low)
  BY ONLY <1>1, <1>2, <1>3 DEF Most, Least
<1>6. 4 * SlotBytes \in Nat
  OBVIOUS
<1> QED
  BY ONLY <1>2, <1>4, <1>5, <1>6

LEMMA Factors ==
    ASSUME NEW n, NEW u
    PROVE  BurstFactor(n, u) \in {10, 15, 30} /\ \A s : SlowClamp(BurstFactor(n, u), s) \in {8, 10, 15, 30}
<1>1. BurstFactor(n, u) \in {10, 15, 30}
  BY DEF BurstFactor
<1> QED
  BY <1>1 DEF SlowClamp

\* An allocation never shrinks the pool.
LEMMA PoolGrows ==
    ASSUME TypeOK
    PROVE  PoolAfterAlloc \in 1..MaxBuffers /\ load.buffers <= PoolAfterAlloc
<1>1. load.buffers \in 1..MaxBuffers /\ MaxBuffers \in Nat /\ ExpandSize \in Nat
  BY DEF TypeOK
<1>2. Least(load.buffers + ExpandSize, MaxBuffers) \in 1..MaxBuffers /\ load.buffers <= Least(load.buffers + ExpandSize, MaxBuffers)
  BY ONLY <1>1 DEF Least
<1> QED
  BY <1>1, <1>2 DEF PoolAfterAlloc

LEMMA UpdateTypes ==
    ASSUME TypeOK, NEW n \in Nat, NEW u \in Nat
    PROVE  /\ UpdateQueueLimit(n, u).avg \in Nat
           /\ UpdateQueueLimit(n, u).slow \in BOOLEAN
           /\ UpdateQueueLimit(n, u).since \in -1..Debounce
<1>1. avg \in Nat /\ QueueBytes(slots) \in Nat /\ slow \in BOOLEAN /\ since \in -1..Debounce
  BY QueueCapacity DEF TypeOK
<1>2. (4 * avg + QueueBytes(slots)) \div 5 \in Nat
  BY <1>1
<1>3. UpdateQueueLimit(n, u).avg \in Nat
  BY <1>1, <1>2 DEF UpdateQueueLimit
<1>4. UpdateQueueLimit(n, u).slow \in BOOLEAN
  BY <1>1, Zenon DEF UpdateQueueLimit
<1>5. UpdateQueueLimit(n, u).since \in {-1, 0, since}
  BY Zenon DEF UpdateQueueLimit
<1>6. UpdateQueueLimit(n, u).since \in -1..Debounce
  BY <1>1, <1>5
<1> QED
  BY <1>3, <1>4, <1>6
-----------------------------------------------------------------------------
(* The inductive invariant, one lemma per action.                            *)

LEMMA InitFlowInv == Init => FlowInv
<1> SUFFICES ASSUME Init PROVE FlowInv
  OBVIOUS
<1>1. TypeOK
  <2>1. load \in [active: Nat, buffers: 1..MaxBuffers, others: Nat]
    BY DEF Init
  <2>2. since \in -1..Debounce /\ bytes \in Nat /\ slots \in Nat /\ avg \in Nat
    BY DEF Init
  <2> QED
    BY <2>1, <2>2 DEF TypeOK, Init
<1>2. QueueShape
  BY QueueCapacity DEF Init, QueueShape
<1>3. LessThanBatch
  <2>1. \A least \in 1..SlotBytes : 0 * least <= 0
    OBVIOUS
  <2> QED
    BY <2>1 DEF Init, LessThanBatch
<1> QED
  BY <1>1, <1>2, <1>3 DEF FlowInv, Init, StalledBelowBatch, Stalled, DrainScheduled, PausedOnBytes

LEMMA ReadableKeepsInv ==
    ASSUME FlowInv, UpstreamReadable
    PROVE  FlowInv'
<1>1. /\ pc = "idle" /\ pc' = "recv"
      /\ UNCHANGED <<bytes, slots, avg, since, slow, paused, pending, armed, load, lost>>
  BY DEF UpstreamReadable
<1>2. TypeOK' /\ QueueShape'
  BY <1>1 DEF FlowInv, TypeOK, QueueShape, QueueBytes
<1>3. StalledBelowBatch' /\ DrainScheduled' /\ PausedOnBytes'
  BY <1>1 DEF FlowInv, StalledBelowBatch, Stalled, DrainScheduled, PausedOnBytes, Streaming, QueueBytes, Hwm
<1>4. LessThanBatch'
  BY <1>1 DEF FlowInv, LessThanBatch, Streaming
<1> QED
  BY <1>2, <1>3, <1>4 DEF FlowInv

LEMMA PauseKeepsInv ==
    ASSUME FlowInv, Pause
    PROVE  FlowInv'
<1>1. /\ bytes \in Nat /\ slots \in Nat /\ pending \in BOOLEAN /\ armed \in BOOLEAN
      /\ pc \in {"recv", "resume"} /\ pc' = "idle" /\ paused' = TRUE
      /\ pending' = (pending \/ (pc = "resume" /\ bytes > 0 /\ ~armed))
      /\ UNCHANGED <<bytes, slots, avg, since, slow, armed, load, lost>>
      /\ slots <= bytes
  BY DEF FlowInv, TypeOK, QueueShape, Pause, Receiving, EndLoop
<1>2. QueueBytes(slots) >= Hwm(MinBuffers * SlotBytes)
  BY DEF Pause, ShouldPause
<1>3. bytes > 0
  BY <1>1, <1>2, BuffersAtWatermark
<1>4. pending' \in BOOLEAN /\ (pending => pending')
  BY <1>1
<1>5. TypeOK' /\ QueueShape'
  BY <1>1, <1>4 DEF FlowInv, TypeOK, QueueShape, QueueBytes
<1>6. LessThanBatch'
  BY <1>1, <1>4 DEF FlowInv, LessThanBatch, Streaming
<1>7. StalledBelowBatch'
  <2>1. Stalled' => bytes' < BatchBytes
    BY <1>1, <1>6 DEF LessThanBatch, Streaming, Stalled
  <2> QED
    BY <1>1, <1>2, <2>1 DEF StalledBelowBatch, QueueBytes, Hwm
<1> QED
  BY <1>1, <1>3, <1>5, <1>6, <1>7 DEF FlowInv, DrainScheduled, PausedOnBytes

\* A loop that ends with nothing changed but what it may have scheduled.
LEMMA EndLoopKeepsInv ==
    ASSUME FlowInv, Receiving, EndLoop(bytes), UNCHANGED <<bytes, slots, paused, armed>>,
           avg' \in Nat, since' \in -1..Debounce, slow' \in BOOLEAN,
           load' \in [active: Nat, buffers: 1..MaxBuffers, others: Nat],
           lost' \in {"none", "hole", "abort"}
    PROVE  FlowInv'
<1>1. /\ bytes \in Nat /\ slots \in Nat /\ pending \in BOOLEAN /\ armed \in BOOLEAN
      /\ paused \in BOOLEAN
      /\ pc \in {"recv", "resume"} /\ pc' = "idle"
      /\ pending' = (pending \/ (pc = "resume" /\ bytes > 0 /\ ~armed))
      /\ UNCHANGED <<bytes, slots, paused, armed>>
  BY DEF FlowInv, TypeOK, Receiving, EndLoop
<1>2. pending' \in BOOLEAN /\ (pending => pending')
  BY <1>1
<1>3. TypeOK' /\ QueueShape'
  BY <1>1, <1>2 DEF FlowInv, TypeOK, QueueShape, QueueBytes
<1>4. paused => pc = "recv" /\ bytes > 0
  BY <1>1 DEF FlowInv, PausedOnBytes, Streaming
<1>5. StalledBelowBatch' /\ DrainScheduled' /\ PausedOnBytes'
  BY <1>1, <1>2, <1>4
  DEF FlowInv, StalledBelowBatch, Stalled, DrainScheduled, PausedOnBytes, QueueBytes, Hwm
<1>6. LessThanBatch'
  BY <1>1, <1>2 DEF FlowInv, LessThanBatch, Streaming
<1> QED
  BY <1>3, <1>5, <1>6 DEF FlowInv

\* The pool after an allocation is a pool.
LEMMA AllocatedLoad ==
    ASSUME TypeOK, BufferAllocated
    PROVE  load' \in [active: Nat, buffers: 1..MaxBuffers, others: Nat]
BY PoolGrows DEF TypeOK, BufferAllocated

LEMMA DrainedKeepsInv ==
    ASSUME FlowInv, Drained
    PROVE  FlowInv'
<1>1. load' \in [active: Nat, buffers: 1..MaxBuffers, others: Nat]
  BY AllocatedLoad DEF FlowInv, Drained
<1> QED
  BY <1>1, EndLoopKeepsInv DEF FlowInv, TypeOK, Drained

\* The connection is closed, or its transfer ended with a write under way.
LEMMA ClosedKeepsInv ==
    ASSUME FlowInv, bytes' \in Nat, slots' \in Nat, QueueShape',
           UNCHANGED <<paused, armed>>,
           pending' \in BOOLEAN,
           pc' = "closed" \/ (pc' = "closing" /\ (pending' \/ armed')),
           avg' \in Nat, since' \in -1..Debounce, slow' \in BOOLEAN,
           load' \in [active: Nat, buffers: 1..MaxBuffers, others: Nat],
           lost' \in {"none", "hole", "abort"}
    PROVE  FlowInv'
BY DEF FlowInv, TypeOK, StalledBelowBatch, Stalled, DrainScheduled, LessThanBatch,
       PausedOnBytes, Streaming

LEMMA ExhaustedKeepsInv ==
    ASSUME FlowInv, RelayExhausted
    PROVE  FlowInv'
<1>1. /\ avg' \in Nat /\ since' \in -1..Debounce /\ slow' \in BOOLEAN
      /\ load' \in [active: Nat, buffers: 1..MaxBuffers, others: Nat]
      /\ lost' \in {"none", "hole", "abort"}
      /\ Receiving /\ UNCHANGED <<bytes, slots, paused, armed>>
      /\ bytes' \in Nat /\ slots' \in Nat /\ pending \in BOOLEAN
  BY DEF FlowInv, TypeOK, RelayExhausted
<1>2. QueueShape'
  BY <1>1 DEF FlowInv, QueueShape, QueueBytes
<1>3. \/ pc' = "closed" /\ UNCHANGED pending
      \/ EndLoop(bytes)
  BY DEF RelayExhausted
<1> QED
  BY <1>1, <1>2, <1>3, ClosedKeepsInv, EndLoopKeepsInv

LEMMA BatchSchedules ==
    ASSUME NEW b \in Nat, pending \in BOOLEAN, armed \in BOOLEAN
    PROVE  /\ ScheduleBatch(b) \in BOOLEAN
           /\ pending => ScheduleBatch(b)
           /\ ~ScheduleBatch(b) /\ ~armed => ~pending /\ b < BatchBytes
<1> DEFINE full == b >= BatchBytes
<1>1. full \in BOOLEAN /\ (~full => b < BatchBytes)
  OBVIOUS
<1>2. ScheduleBatch(b) = (pending \/ (full /\ ~armed))
  BY DEF ScheduleBatch
<1> HIDE DEF full
<1> QED
  BY <1>1, <1>2

\* A buffer is queued: below a batch no byte of the queue was sent yet, and
\* the buffer that completes a batch schedules the write.
LEMMA QueuedKeepsInv ==
    ASSUME FlowInv, Receiving, NEW size \in Sizes, bytes' = bytes + size, slots' = slots + 1,
           \/ pending' = ScheduleBatch(bytes') /\ UNCHANGED pc
           \/ BeginDrainClose(ScheduleBatch(bytes')),
           UNCHANGED <<paused, armed, lost>>,
           avg' \in Nat, since' \in -1..Debounce, slow' \in BOOLEAN,
           load' \in [active: Nat, buffers: 1..MaxBuffers, others: Nat]
    PROVE  FlowInv'
<1>1. /\ bytes \in Nat /\ slots \in Nat /\ size \in 1..SlotBytes
      /\ bytes' = bytes + size /\ slots' = slots + 1
      /\ pending \in BOOLEAN /\ armed \in BOOLEAN /\ paused \in BOOLEAN
      /\ pc \in {"recv", "resume"}
      /\ UNCHANGED <<paused, armed, lost>>
  BY DEF FlowInv, TypeOK, Receiving
<1>2. bytes' \in Nat /\ slots' \in Nat /\ QueueShape'
  <2>1. bytes' \in Nat /\ slots' \in Nat /\ slots' <= bytes'
    BY <1>1 DEF FlowInv, QueueShape
  <2>2. QueueBytes(slots') = QueueBytes(slots) + SlotBytes /\ QueueBytes(slots) \in Nat
    BY <1>1, QueueCapacity
  <2>3. bytes' <= QueueBytes(slots')
    BY <1>1, <2>2 DEF FlowInv, QueueShape
  <2> QED
    BY <2>1, <2>3 DEF QueueShape, QueueBytes
<1>3. CASE BeginDrainClose(ScheduleBatch(bytes'))
  <2>1. pc' = "closing" /\ pending' \in BOOLEAN /\ (pending' \/ armed')
    BY <1>1, <1>2, <1>3, BatchSchedules DEF BeginDrainClose
  <2>2. lost' \in {"none", "hole", "abort"}
    BY <1>1 DEF FlowInv, TypeOK
  <2> QED
    BY <1>1, <1>2, <2>1, <2>2, ClosedKeepsInv
<1>4. CASE pending' = ScheduleBatch(bytes') /\ UNCHANGED pc
  <2>1. /\ pending' \in BOOLEAN /\ (pending => pending')
        /\ ~pending' /\ ~armed' => ~pending /\ ~armed /\ bytes' < BatchBytes
    BY <1>1, <1>2, <1>4, BatchSchedules
  <2>2. TypeOK'
    BY <1>1, <1>2, <1>4, <2>1 DEF FlowInv, TypeOK
  <2>3. paused => pc = "recv" /\ bytes > 0
    BY <1>1 DEF FlowInv, PausedOnBytes, Streaming
  <2>4. DrainScheduled' /\ PausedOnBytes'
    BY <1>1, <1>2, <1>4, <2>3 DEF DrainScheduled, PausedOnBytes
  <2>5. StalledBelowBatch'
    <3> SUFFICES ASSUME Stalled'
                 PROVE  bytes' < BatchBytes /\ QueueBytes(slots') >= Hwm(MinBuffers * SlotBytes)
      BY DEF StalledBelowBatch, QueueBytes, Hwm
    <3>1. Stalled /\ bytes' < BatchBytes
      BY <1>1, <1>4, <2>1 DEF Stalled
    <3>2. QueueBytes(slots) >= Hwm(MinBuffers * SlotBytes) /\ Hwm(MinBuffers * SlotBytes) \in Int
      BY <3>1, LowestWatermark DEF FlowInv, StalledBelowBatch
    <3>3. QueueBytes(slots') = QueueBytes(slots) + SlotBytes /\ QueueBytes(slots) \in Nat
      BY <1>1, QueueCapacity
    <3> QED
      BY <3>1, <3>2, <3>3
  <2>6. LessThanBatch'
    <3> SUFFICES ASSUME ~pending', ~armed', NEW least \in 1..SlotBytes,
                        \A sz \in Sizes : least <= sz
                 PROVE  bytes' < BatchBytes /\ slots' * least <= bytes'
      BY <2>1 DEF LessThanBatch
    <3>1. slots * least <= bytes
      BY <1>1, <2>1 DEF FlowInv, LessThanBatch, Streaming
    <3>2. slots * least \in Nat /\ slots' * least = slots * least + least /\ least <= size
      BY <1>1
    <3> QED
      BY <1>1, <2>1, <3>1, <3>2
  <2> QED
    BY <1>2, <2>2, <2>4, <2>5, <2>6 DEF FlowInv
<1> QED
  BY <1>3, <1>4

LEMMA RelayKeepsInv ==
    ASSUME FlowInv, Relay
    PROVE  FlowInv'
<1> DEFINE upd == UpdateQueueLimit(PoolAfterAlloc, load.others + slots + 1)
<1>1. /\ TypeOK /\ bytes \in Nat /\ slots \in Nat /\ pending \in BOOLEAN
      /\ load \in [active: Nat, buffers: 1..MaxBuffers, others: Nat]
  BY DEF FlowInv, TypeOK
<1>2. PoolAfterAlloc \in Nat /\ load.others + slots + 1 \in Nat
  BY <1>1, PoolGrows
<1>3. upd.avg \in Nat /\ upd.slow \in BOOLEAN /\ upd.since \in -1..Debounce
  BY ONLY <1>1, <1>2, UpdateTypes
<1>4. /\ avg' = upd.avg /\ slow' = upd.slow /\ since' = upd.since
      /\ BufferAllocated /\ Receiving /\ UNCHANGED <<paused, armed>>
  BY DEF Relay
<1>5. /\ avg' \in Nat /\ since' \in -1..Debounce /\ slow' \in BOOLEAN
      /\ load' \in [active: Nat, buffers: 1..MaxBuffers, others: Nat]
  BY <1>1, <1>3, <1>4, AllocatedLoad
<1>6. \/ /\ \E size \in Sizes : bytes' = bytes + size
         /\ slots' = slots + 1 /\ UNCHANGED lost
         /\ \/ pending' = ScheduleBatch(bytes') /\ UNCHANGED pc
            \/ BeginDrainClose(ScheduleBatch(bytes'))
      \/ pc' = "closed" /\ lost' = "abort" /\ UNCHANGED <<bytes, slots, pending>>
      \/ EndLoop(bytes) /\ lost' = "hole" /\ UNCHANGED <<bytes, slots>>
  BY DEF Relay
<1>7. CASE /\ \E size \in Sizes : bytes' = bytes + size
           /\ slots' = slots + 1 /\ UNCHANGED lost
           /\ \/ pending' = ScheduleBatch(bytes') /\ UNCHANGED pc
              \/ BeginDrainClose(ScheduleBatch(bytes'))
  BY <1>4, <1>5, <1>7, QueuedKeepsInv
<1>8. CASE pc' = "closed" /\ lost' = "abort" /\ UNCHANGED <<bytes, slots, pending>>
  <2>1. QueueShape'
    BY <1>8 DEF FlowInv, QueueShape, QueueBytes
  <2> QED
    BY <1>1, <1>4, <1>5, <1>8, <2>1, ClosedKeepsInv
<1>9. CASE EndLoop(bytes) /\ lost' = "hole" /\ UNCHANGED <<bytes, slots>>
  BY <1>4, <1>5, <1>9, EndLoopKeepsInv
<1> QED
  BY <1>6, <1>7, <1>8, <1>9

\* The end of the transfer, seen by recv() or as an event of the socket.
LEMMA EndKeepsInv ==
    ASSUME FlowInv, UpstreamEnd \/ UpstreamHangup
    PROVE  FlowInv'
<1>1. /\ BeginDrainClose(pending)
      /\ UNCHANGED <<bytes, slots, avg, since, slow, paused, armed, lost>>
  BY DEF UpstreamEnd, UpstreamHangup
<1>2. load' \in [active: Nat, buffers: 1..MaxBuffers, others: Nat]
  <2>1. CASE UpstreamEnd
    BY <2>1, AllocatedLoad DEF FlowInv, UpstreamEnd
  <2>2. CASE UpstreamHangup
    BY <2>2 DEF FlowInv, TypeOK, UpstreamHangup
  <2> QED
    BY <2>1, <2>2
<1>3. pc' = "closing" /\ pending' \in BOOLEAN /\ (pending' \/ armed')
  BY <1>1 DEF FlowInv, TypeOK, BeginDrainClose
<1>4. bytes' \in Nat /\ slots' \in Nat /\ QueueShape'
  BY <1>1 DEF FlowInv, TypeOK, QueueShape, QueueBytes
<1>5. avg' \in Nat /\ since' \in -1..Debounce /\ slow' \in BOOLEAN /\ lost' \in {"none", "hole", "abort"}
  BY <1>1 DEF FlowInv, TypeOK
<1> QED
  BY <1>1, <1>2, <1>3, <1>4, <1>5, ClosedKeepsInv

LEMMA WritableKeepsInv ==
    ASSUME FlowInv, ClientWritable
    PROVE  FlowInv'
<1>1. /\ armed /\ pending' = TRUE
      /\ UNCHANGED <<bytes, slots, avg, since, slow, paused, armed, pc, load, lost>>
  BY DEF ClientWritable
<1>2. TypeOK' /\ QueueShape'
  BY <1>1 DEF FlowInv, TypeOK, QueueShape, QueueBytes
<1> QED
  BY <1>1, <1>2 DEF FlowInv, StalledBelowBatch, Stalled, DrainScheduled, LessThanBatch,
                    PausedOnBytes, Streaming

LEMMA GoneKeepsInv ==
    ASSUME FlowInv, ClientGone
    PROVE  FlowInv'
<1>1. pc' = "closed" /\ UNCHANGED <<bytes, slots, avg, since, slow, paused, pending, armed, load, lost>>
  BY DEF ClientGone
<1>2. QueueShape'
  BY <1>1 DEF FlowInv, QueueShape, QueueBytes
<1> QED
  BY <1>1, <1>2, ClosedKeepsInv DEF FlowInv, TypeOK

\* The clock and the other clients touch nothing the relay waits for.
LEMMA AroundKeepsInv ==
    ASSUME FlowInv, Tick \/ OtherClients
    PROVE  FlowInv'
<1>1. UNCHANGED <<bytes, slots, avg, slow, paused, pending, armed, pc, lost>>
  BY DEF Tick, OtherClients
<1>2. since' \in -1..Debounce
  BY DEF FlowInv, TypeOK, Tick, OtherClients
<1>3. load' \in [active: Nat, buffers: 1..MaxBuffers, others: Nat]
  <2>1. CASE Tick
    BY <2>1 DEF FlowInv, TypeOK, Tick
  <2>2. CASE OtherClients
    BY <2>2 DEF OtherClients
  <2> QED
    BY <2>1, <2>2
<1>4. TypeOK' /\ QueueShape'
  BY <1>1, <1>2, <1>3 DEF FlowInv, TypeOK, QueueShape, QueueBytes
<1>5. StalledBelowBatch' /\ DrainScheduled' /\ PausedOnBytes' /\ LessThanBatch'
  BY <1>1 DEF FlowInv, StalledBelowBatch, Stalled, DrainScheduled, LessThanBatch,
              PausedOnBytes, Streaming, QueueBytes, Hwm
<1> QED
  BY <1>4, <1>5 DEF FlowInv

\* The drain hook at most clears the pause and starts the receive loop.
LEMMA DrainHook ==
    ASSUME TypeOK, pc \in {"idle", "closing"}, NEW k,
           OnClientDrain(k) \/ UNCHANGED <<pc, paused>>
    PROVE  /\ paused' \in BOOLEAN /\ pc' \in {"idle", "resume", "closing"}
           /\ pc' = "resume" => ~paused'
           /\ pc' = "closing" <=> pc = "closing"
BY DEF TypeOK, OnClientDrain

\* A write that leaves something is watched by the poller or queued again.
LEMMA PartialWriteKeepsInv ==
    ASSUME FlowInv, pc \in {"idle", "closing"}, NEW n \in Nat, NEW k \in 0..slots, Consume(n, k),
           OnClientDrain(slots') \/ UNCHANGED <<pc, paused>>,
           armed' \in BOOLEAN, pending' \in BOOLEAN, pending' \/ armed',
           n <= bytes, UNCHANGED <<avg, since, slow, load, lost>>
    PROVE  FlowInv'
<1>1. TypeOK /\ bytes \in Nat /\ slots \in Nat
  BY DEF FlowInv, TypeOK
<1>2. bytes' \in Nat /\ slots' \in Nat /\ bytes' > 0 /\ slots' <= bytes' /\ bytes' <= QueueBytes(slots')
  BY <1>1 DEF Consume
<1>3. QueueShape'
  BY <1>2 DEF QueueShape, QueueBytes
<1>4. /\ paused' \in BOOLEAN /\ pc' \in {"idle", "resume", "closing"}
      /\ pc' = "resume" => ~paused'
  BY <1>1, DrainHook
<1>5. TypeOK'
  BY <1>1, <1>2, <1>4 DEF TypeOK
<1> QED
  BY <1>2, <1>3, <1>4, <1>5
  DEF FlowInv, StalledBelowBatch, Stalled, DrainScheduled, LessThanBatch, PausedOnBytes

\* A write that leaves nothing resumes the upstream it finds paused.
LEMMA WriteAllKeepsInv ==
    ASSUME FlowInv, HandleWrite, WriteAll
    PROVE  FlowInv'
<1>1. /\ TypeOK /\ bytes \in Nat /\ paused \in BOOLEAN /\ pc \in {"idle", "closing"}
      /\ UNCHANGED <<avg, since, slow, load, lost>>
      /\ bytes' = 0 /\ slots' = 0 /\ armed' = FALSE /\ pending' = FALSE
      /\ (pc = "idle" /\ paused => bytes > 0)
  BY DEF FlowInv, TypeOK, HandleWrite, WriteAll, PausedOnBytes, Streaming
<1>2. QueueShape'
  BY <1>1, QueueCapacity DEF QueueShape, QueueBytes
<1>3. CASE pc = "closing"
  <2>1. pc' = "closed" /\ paused' = paused
    BY <1>3 DEF WriteAll
  <2>2. TypeOK'
    BY <1>1, <2>1 DEF TypeOK
  <2> QED
    BY <1>2, <2>1, <2>2
    DEF FlowInv, StalledBelowBatch, Stalled, DrainScheduled, LessThanBatch, PausedOnBytes, Streaming
<1>4. CASE pc = "idle"
  <2>1. IF bytes > 0 THEN OnClientDrain(0) ELSE UNCHANGED <<pc, paused>>
    BY <1>4 DEF WriteAll
  <2>2. CanResume(0)
    <3>1. MinBuffers * SlotBytes \in Nat
      OBVIOUS
    <3>2. (MinBuffers * SlotBytes) \div 2 \in Nat
      BY <3>1
    <3> QED
      BY <3>2, QueueCapacity DEF CanResume, Lwm
  <2>3. ~paused' /\ paused' \in BOOLEAN /\ pc' \in {"idle", "resume"}
    BY <1>1, <1>4, <2>1, <2>2 DEF OnClientDrain
  <2>4. TypeOK'
    BY <1>1, <2>3 DEF TypeOK
  <2>5. LessThanBatch'
    <3>1. \A least \in 1..SlotBytes : 0 * least <= 0
      OBVIOUS
    <3> QED
      BY <1>1, <3>1 DEF LessThanBatch
  <2> QED
    BY <1>2, <2>3, <2>4, <2>5 DEF FlowInv, StalledBelowBatch, Stalled, DrainScheduled, PausedOnBytes
<1> QED
  BY <1>1, <1>3, <1>4

LEMMA WriteKeepsInv ==
    ASSUME FlowInv, HandleWrite
    PROVE  FlowInv'
<1>1. /\ bytes \in Nat /\ pc \in {"idle", "closing"}
      /\ UNCHANGED <<avg, since, slow, load, lost>>
  BY DEF FlowInv, TypeOK, HandleWrite
<1>2. ASSUME NEW n \in SendSizes, WriteBlocked(n)
      PROVE  FlowInv'
  <2>1. /\ n \in Nat /\ n <= bytes /\ armed' = TRUE /\ pending' = FALSE
        /\ \E k \in 0..slots : Consume(n, k)
        /\ OnClientDrain(slots') \/ UNCHANGED <<pc, paused>>
    BY <1>1, <1>2 DEF WriteBlocked
  <2> QED
    BY <1>1, <2>1, PartialWriteKeepsInv
<1>3. CASE WriteBudgetSpent
  <2>1. /\ WriteBudget \in Nat /\ WriteBudget <= bytes /\ armed' = FALSE /\ pending' = TRUE
        /\ \E k \in 0..slots : Consume(WriteBudget, k)
        /\ OnClientDrain(slots')
    BY <1>1, <1>3 DEF WriteBudgetSpent
  <2> QED
    BY <1>1, <2>1, PartialWriteKeepsInv
<1> QED
  BY <1>2, <1>3, WriteAllKeepsInv DEF HandleWrite

\* No wakeup is lost but one: a draining connection has a write scheduled or
\* its socket watched, and so has an upstream paused by
\* connection_should_pause_upstream, unless connection_queue_buffer left a
\* queue below the flush threshold alone.
THEOREM FlowInvariant == Spec => []FlowInv
<1>1. ASSUME FlowInv, [Next]_vars
      PROVE  FlowInv'
  <2>1. CASE UNCHANGED vars
    <3>1. TypeOK' /\ QueueShape'
      BY <1>1, <2>1 DEF vars, FlowInv, TypeOK, QueueShape, QueueBytes
    <3>2. StalledBelowBatch' /\ DrainScheduled' /\ PausedOnBytes' /\ LessThanBatch'
      BY <1>1, <2>1
      DEF vars, FlowInv, StalledBelowBatch, Stalled, DrainScheduled, LessThanBatch,
          PausedOnBytes, Streaming, QueueBytes, Hwm
    <3> QED
      BY <3>1, <3>2 DEF FlowInv
  <2>2. CASE Next
    BY <1>1, <2>2, ReadableKeepsInv, PauseKeepsInv, DrainedKeepsInv, RelayKeepsInv,
       ExhaustedKeepsInv, EndKeepsInv, WritableKeepsInv, WriteKeepsInv, GoneKeepsInv,
       AroundKeepsInv
    DEF Next
  <2> QED
    BY <1>1, <2>1, <2>2
<1> QED
  BY <1>1, InitFlowInv, PTL DEF Spec

-----------------------------------------------------------------------------
(* How full a buffer must be.                                                *)

\* An upstream whose every recv() brings `least' bytes never stalls when the
\* lowest high watermark in such buffers is a batch: 48 buffers and 64 KiB,
\* 1366 of the 1536 bytes.  The stall of connection_queue_buffer is theirs who
\* send less.
THEOREM FullBuffersNeverStall ==
    ASSUME NEW least \in 1..SlotBytes,
           \A size \in Sizes : least <= size,
           3 * MinBuffers * least >= 4 * BatchBytes
    PROVE  Spec => []~Stalled
<1>1. FlowInv => ~Stalled
  <2> SUFFICES ASSUME FlowInv, Stalled PROVE FALSE
    OBVIOUS
  <2>1. slots \in Nat /\ bytes \in Nat
    BY DEF FlowInv, TypeOK
  <2>2. bytes < BatchBytes /\ slots * least <= bytes
    BY DEF FlowInv, LessThanBatch, Stalled, Streaming
  <2>3. 4 * slots >= 3 * MinBuffers
    BY <2>1, BuffersAtWatermark DEF FlowInv, StalledBelowBatch
  <2>4. (3 * MinBuffers) * least <= (4 * slots) * least
    BY <2>1, <2>3, ProductMonotone
  <2>5. (4 * slots) * least = 4 * (slots * least) /\ slots * least \in Nat
        /\ (3 * MinBuffers) * least \in Nat
    BY <2>1
  <2> QED
    BY <2>1, <2>2, <2>4, <2>5
<1> QED
  BY <1>1, FlowInvariant, PTL

-----------------------------------------------------------------------------
(* Bytes that were read have room, unless the limit moves.                   *)

\* A queue below the high watermark has room for another buffer under any
\* limit that is computed from no less than what the watermark came from.
LEMMA RoomBelowWatermark ==
    ASSUME TypeOK, ~ShouldPause, NEW n \in Nat, load.buffers <= n, NEW f \in Nat, f >= 8,
           SlowClamp(BurstFactor(load.buffers, load.others + slots), slow) <= f
    PROVE  QueueBytes(slots) + SlotBytes <= ComputeLimitBytes(FairBytes(n, load.active), f)
<1> DEFINE burst == SlowClamp(BurstFactor(load.buffers, load.others + slots), slow)
           fair == FairBytes(load.buffers, load.active)
           fairNow == FairBytes(n, load.active)
           limit == ComputeLimitBytes(fairNow, f)
           k == slots
<1>1. slots \in Nat /\ load.buffers \in Nat /\ load.active \in Nat
  BY DEF TypeOK
<1>2. k \in Nat /\ QueueBytes(slots) = k * SlotBytes /\ k * SlotBytes \in Nat
  BY <1>1 DEF QueueBytes
<1>3. burst \in Nat /\ burst <= f
  BY Factors
<1>4. /\ fair \in Nat /\ fairNow \in Nat /\ fair <= fairNow
      /\ MinBuffers * SlotBytes <= fairNow
  <2>1. /\ fair \in Nat /\ fairNow \in Nat /\ fair <= fairNow
        /\ MinBuffers * SlotBytes <= fair
    BY <1>1, FairShare
  <2>2. MinBuffers * SlotBytes \in Nat
    OBVIOUS
  <2> QED
    BY ONLY <2>1, <2>2
<1>5. /\ QueueLimit \in Nat /\ limit \in Nat
      /\ 4 * SlotBytes <= QueueLimit /\ QueueLimit <= limit
  <2>1. QueueLimit = ComputeLimitBytes(fair, burst)
    BY DEF QueueLimit
  <2> HIDE DEF fair, fairNow, burst
  <2>2. /\ ComputeLimitBytes(fair, burst) \in Nat /\ limit \in Nat
        /\ 4 * SlotBytes <= ComputeLimitBytes(fair, burst)
        /\ ComputeLimitBytes(fair, burst) <= limit
    BY ONLY <1>3, <1>4, LimitGrows, f \in Nat
  <2> QED
    BY ONLY <2>1, <2>2
<1>6. CASE QueueBytes(slots) < Hwm(QueueLimit)
  <2>1. Hwm(QueueLimit) \in Int /\ 4 * Hwm(QueueLimit) <= QueueLimit * 3
    BY <1>5 DEF Hwm
  <2> QED
    BY <1>2, <1>5, <1>6, <2>1
<1>7. CASE QueueBytes(slots) < Hwm(MinBuffers * SlotBytes)
  <2>1. PICK m \in Nat : MinBuffers = 4 * m
    <3>1. MinBuffers = 4 * (MinBuffers \div 4) /\ MinBuffers \div 4 \in Nat
      BY HeadRoomAssumption
    <3> QED
      BY <3>1
  <2>2. m * SlotBytes \in Nat /\ Hwm(MinBuffers * SlotBytes) = 3 * (m * SlotBytes)
    <3>1. m * SlotBytes \in Nat /\ MinBuffers * SlotBytes * 3 = 4 * (3 * (m * SlotBytes))
      BY <2>1
    <3>2. (4 * (3 * (m * SlotBytes))) \div 4 = 3 * (m * SlotBytes)
      BY <3>1
    <3> QED
      BY <3>1, <3>2 DEF Hwm
  <2>3. k + 1 <= 3 * m
    <3>1. SUFFICES ASSUME 3 * m <= k PROVE FALSE
      BY <1>2
    <3>2. (3 * m) * SlotBytes <= k * SlotBytes
      <4>1. 3 * m \in Nat /\ SlotBytes \in Nat /\ SlotBytes <= SlotBytes
        OBVIOUS
      <4> QED
        BY ONLY <1>2, <3>1, <4>1, ProductMonotone
    <3>3. (3 * m) * SlotBytes = 3 * (m * SlotBytes)
      OBVIOUS
    <3> QED
      BY <1>2, <1>7, <2>2, <3>2, <3>3
  <2>4. /\ (k + 1) * SlotBytes \in Nat /\ (k + 1) * SlotBytes = k * SlotBytes + SlotBytes
    BY <1>2
  <2>5. (k + 1) * SlotBytes <= 3 * (m * SlotBytes)
    <3>1. k + 1 \in Nat /\ 3 * m \in Nat /\ SlotBytes \in Nat /\ SlotBytes <= SlotBytes
      BY <1>2
    <3>2. (k + 1) * SlotBytes <= (3 * m) * SlotBytes
      BY ONLY <2>3, <3>1, ProductMonotone
    <3>3. (3 * m) * SlotBytes = 3 * (m * SlotBytes)
      OBVIOUS
    <3> QED
      BY <3>2, <3>3
  <2>6. (k + 1) * SlotBytes <= (fairNow * f) \div 10 /\ (fairNow * f) \div 10 \in Nat
    <3>1. fairNow * f \in Nat /\ (MinBuffers * SlotBytes) * 8 <= fairNow * f
      <4>1. MinBuffers * SlotBytes \in Nat /\ 8 \in Nat /\ 8 <= f
        OBVIOUS
      <4> HIDE DEF fairNow
      <4> QED
        BY ONLY <1>4, <4>1, ProductMonotone, f \in Nat
    <3>2. (MinBuffers * SlotBytes) * 8 = 32 * (m * SlotBytes)
      BY <2>1
    <3> HIDE DEF fairNow, k
    <3>3. 10 * ((k + 1) * SlotBytes) <= fairNow * f
      BY <2>2, <2>4, <2>5, <3>1, <3>2
    <3> QED
      BY ONLY <2>4, <3>1, <3>3
  <2>7. MaxBuffers > MinBuffers /\ (k + 1) * SlotBytes <= (MaxBuffers - MinBuffers) * SlotBytes
        /\ (MaxBuffers - MinBuffers) * SlotBytes \in Nat
    <3>1. MaxBuffers - MinBuffers >= 3 * m /\ MaxBuffers > MinBuffers
      BY <2>1, HeadRoomAssumption
    <3>2. k + 1 \in Nat /\ MaxBuffers - MinBuffers \in Nat /\ k + 1 <= MaxBuffers - MinBuffers
          /\ SlotBytes \in Nat /\ SlotBytes <= SlotBytes
      BY <1>2, <2>3, <3>1
    <3>3. (k + 1) * SlotBytes <= (MaxBuffers - MinBuffers) * SlotBytes
          /\ (MaxBuffers - MinBuffers) * SlotBytes \in Nat
      BY ONLY <3>2, ProductMonotone
    <3> QED
      BY <3>1, <3>3
  <2>8. limit = Most(Least((fairNow * f) \div 10, (MaxBuffers - MinBuffers) * SlotBytes),
                     FloorBuffers * SlotBytes)
    BY <2>7 DEF ComputeLimitBytes
  <2>9. FloorBuffers * SlotBytes \in Nat
    OBVIOUS
  <2> HIDE DEF fairNow, limit, k
  <2>10. (k + 1) * SlotBytes <= limit
    BY ONLY <2>4, <2>6, <2>7, <2>8, <2>9, LeastMost DEF Least, Most
  <2> QED
    BY <1>2, <2>4, <2>10 DEF limit, fairNow
<1>8. QueueBytes(slots) < Hwm(QueueLimit) \/ QueueBytes(slots) < Hwm(MinBuffers * SlotBytes)
  <2>1. Hwm(QueueLimit) \in Int /\ Hwm(MinBuffers * SlotBytes) \in Int
    <3>1. MinBuffers * SlotBytes \in Nat
      OBVIOUS
    <3> QED
      BY <1>5, <3>1 DEF Hwm
  <2> QED
    BY <1>2, <2>1 DEF ShouldPause
<1> QED
  BY <1>6, <1>7, <1>8

LEMMA LossMovesLimit ==
    ASSUME FlowInv, Relay, lost' # lost,
           ~(slow' /\ ~slow),
           ~(BurstFactor(load'.buffers, load.others + slots + 1)
                 < BurstFactor(load.buffers, load.others + slots))
    PROVE  FALSE
<1> DEFINE buffers == PoolAfterAlloc
           used == load.others + slots + 1
           upd == UpdateQueueLimit(buffers, used)
           was == BurstFactor(load.buffers, load.others + slots)
           now == BurstFactor(buffers, used)
<1>1. TypeOK /\ slots \in Nat /\ slow \in BOOLEAN /\ load \in [active: Nat, buffers: 1..MaxBuffers, others: Nat]
  BY DEF FlowInv, TypeOK
<1>2. buffers \in Nat /\ load.buffers <= buffers
  BY <1>1, PoolGrows
<1>3. slow' = upd.slow /\ load' = [load EXCEPT !.buffers = buffers] /\ ~ShouldPause
      /\ ~(QueueBytes(slots) + SlotBytes <= upd.limit)
  BY DEF Relay, BufferAllocated
<1>4. load'.buffers = buffers
  BY <1>1, <1>3
<1>5. upd.limit = ComputeLimitBytes(FairBytes(buffers, load.active), SlowClamp(now, upd.slow))
  BY DEF UpdateQueueLimit
<1>6. was \in {10, 15, 30} /\ now \in {10, 15, 30} /\ was <= now
  BY <1>4, Factors
<1> HIDE DEF upd, was, now
<1>7. SlowClamp(now, upd.slow) \in Nat /\ SlowClamp(now, upd.slow) >= 8
      /\ SlowClamp(was, slow) <= SlowClamp(now, upd.slow)
  BY <1>1, <1>3, <1>6 DEF SlowClamp
<1> HIDE DEF buffers
<1>8. QueueBytes(slots) + SlotBytes <= ComputeLimitBytes(FairBytes(buffers, load.active), SlowClamp(now, upd.slow))
  BY ONLY <1>1, <1>2, <1>3, <1>7, RoomBelowWatermark DEF was
<1> QED
  BY <1>3, <1>5, <1>8

\* Bytes taken from the upstream are only thrown away when the limit checked
\* by connection_should_pause_upstream is not the one connection_queue_buffer
\* applies: the sample in between made the client slow, or the allocation
\* tipped the burst factor.
THEOREM LossNeedsMovedLimit == Spec => LossOnlyWhenLimitMoves
<1> DEFINE Moved == \/ slow' /\ ~slow
                    \/ BurstFactor(load'.buffers, load.others + slots + 1)
                           < BurstFactor(load.buffers, load.others + slots)
<1>1. ASSUME FlowInv, [Next]_vars PROVE [lost' # lost => Moved]_vars
  <2>1. CASE Relay
    BY <1>1, <2>1, LossMovesLimit
  <2>2. CASE ~Relay
    <3>1. lost' = lost
      BY <1>1, <2>2
      DEF Next, vars, UpstreamReadable, Pause, Drained, RelayExhausted, UpstreamEnd, UpstreamHangup,
          ClientWritable, HandleWrite, ClientGone, Tick, OtherClients
    <3> QED
      BY <3>1
  <2> QED
    BY <2>1, <2>2
<1> QED
  BY <1>1, FlowInvariant, PTL DEF Spec, LossOnlyWhenLimitMoves
=============================================================================
