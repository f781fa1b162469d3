---------------------------- MODULE FlowControl ----------------------------
(* TCP-to-TCP relaying of one HTTP-proxied response: the upstream socket is *)
(* read into pool buffers, the buffers wait in the client's send queue, the *)
(* worker's write queue drains them.  The module holds the queue limit of   *)
(* connection.c (fair share, burst factor, slow-client clamp with its EWMA  *)
(* and debounce), the watermarks that pause and resume the upstream, and    *)
(* the scheduling of writes.                                                *)
(*                                                                          *)
(* The worker is one thread, so a handler is never interleaved with another *)
(* one: pc says which handler is in the middle of its receive loop.  Every  *)
(* relayed buffer has the pool's capacity SlotBytes, whatever recv() put    *)
(* into it; which buffers of the queue hold how much is left open.  Other   *)
(* clients only show through `load'.  Doubles are integers: factors in      *)
(* tenths or hundredths, the EWMA rounded down to a byte.                   *)
EXTENDS Integers

CONSTANTS
    SlotBytes,      \* BUFFER_POOL_BUFFER_SIZE
    Sizes,          \* bytes one recv() of the upstream may put into a buffer
    MinBuffers,     \* CONN_QUEUE_MIN_BUFFERS
    BaseBuffers,    \* CONN_QUEUE_BASE_BUFFERS
    FloorBuffers,   \* the 4 of connection_compute_limit_bytes
    MaxBuffers,     \* config.buffer_pool_max_size
    ExpandSize,     \* BUFFER_POOL_EXPAND_SIZE
    LowWatermark,   \* BUFFER_POOL_LOW_WATERMARK
    BatchBytes,     \* SEND_QUEUE_BATCH_BYTES
    WriteBudget,    \* the 256 KiB one connection_handle_write may send
    Debounce,       \* CONN_QUEUE_SLOW_DEBOUNCE_MS, in clock ticks
    SendSizes,      \* what the client's socket accepts before EAGAIN
    Loads           \* [active, buffers, others]: streams, pool size and
                    \* the buffers in use elsewhere

ASSUME FlowAssumption ==
    /\ SlotBytes \in Nat \ {0}
    /\ Sizes \subseteq 1..SlotBytes
    /\ MinBuffers \in Nat \ {0}
    /\ BaseBuffers \in Nat \ {0}
    /\ FloorBuffers \in Nat \ {0}
    /\ MaxBuffers \in Nat \ {0}
    /\ ExpandSize \in Nat \ {0}
    /\ LowWatermark \in Nat
    /\ BatchBytes \in Nat \ {0}
    /\ WriteBudget \in Nat \ {0}
    /\ Debounce \in Nat \ {0}
    /\ SendSizes \subseteq Nat
    /\ Loads \subseteq [active: Nat, buffers: 1..MaxBuffers, others: Nat]

\* The lowest high watermark, three quarters of the 64 of MinBuffers, is a
\* number of buffers, and the reserve leaves it within the hard cap: true of
\* every pool that may hold the 128 buffers it starts with.
ASSUME HeadRoomAssumption ==
    /\ MinBuffers % 4 = 0
    /\ FloorBuffers >= 4
    /\ 4 * (MaxBuffers - MinBuffers) >= 3 * MinBuffers

VARIABLES
    bytes,    \* send_queue.total_bytes
    slots,    \* send_queue.num_queued: buffers that still hold bytes to send
    avg,      \* queue_avg_bytes
    since,    \* ticks since slow_candidate_since was set, -1 when it is 0
    slow,     \* slow_active
    paused,   \* upstream_paused (and any_upstream_paused)
    pending,  \* write_queue_pending
    armed,    \* write_poll_armed
    pc,       \* "idle", in the "recv" or "resume" loop, "closing", "closed"
    load,     \* the rest of the worker
    lost      \* "none", or how relayed bytes were lost: "hole", "abort"

vars == <<bytes, slots, avg, since, slow, paused, pending, armed, pc, load, lost>>

Least(a, b) == IF a < b THEN a ELSE b

Most(a, b) == IF a > b THEN a ELSE b

-----------------------------------------------------------------------------
(* The queue limit.                                                         *)

\* connection_queue_bytes: the capacity k queued buffers hold on to.
QueueBytes(k) == k * SlotBytes

\* connection_compute_limit_bytes; the burst factor in tenths.
ComputeLimitBytes(fair, burst) ==
    LET limit == (fair * burst) \div 10
        cap   == IF MaxBuffers > MinBuffers THEN MaxBuffers - MinBuffers
                                            ELSE MaxBuffers
    IN  Most(Least(limit, cap * SlotBytes), FloorBuffers * SlotBytes)

\* The fair share of connection_prepare_queue_limit_inputs.
FairBytes(buffers, active) ==
    LET total == Most(buffers, Least(BaseBuffers, MaxBuffers))
    IN  Most(total \div Most(active, 1), MinBuffers) * SlotBytes

\* Its burst factor, for a pool of `buffers' of which `used' are in use.
BurstFactor(buffers, used) ==
    IF buffers - used < LowWatermark \div 2 \/ 100 * used >= 95 * MaxBuffers
    THEN 10
    ELSE IF buffers >= MaxBuffers \/ 100 * used >= 85 * MaxBuffers
         THEN 15
         ELSE 30

SlowClamp(burst, s) == IF s /\ burst > 8 THEN 8 ELSE burst

\* connection_compute_queue_limit, from the state the worker is in.
QueueLimit ==
    ComputeLimitBytes(FairBytes(load.buffers, load.active),
                      SlowClamp(BurstFactor(load.buffers, load.others + slots), slow))

\* connection_update_queue_limit: the EWMA and the slow-client state machine
\* after a sample, and the limit they give.  buffers and used are the pool
\* after the allocation of the buffer that is about to be queued.
UpdateQueueLimit(buffers, used) ==
    LET fair      == FairBytes(buffers, load.active)
        burst     == BurstFactor(buffers, used)
        bursted   == ComputeLimitBytes(fair, burst)
        average   == IF avg <= 0 THEN QueueBytes(slots)
                                 ELSE (4 * avg + QueueBytes(slots)) \div 5
        threshold == Least(15 * fair, 9 * bursted)             \* tenths
        exit0     == Least(110 * fair, 75 * bursted)           \* hundredths
        exit      == IF exit0 >= 10 * threshold
                     THEN (threshold * 75) \div 10 ELSE exit0
        above     == 10 * average > threshold
        entering  == above /\ ~slow /\ since >= Debounce
        leaving   == (slow \/ entering) /\ 100 * average < exit
        slowNow   == (slow \/ entering) /\ ~leaving
    IN  [avg   |-> average,
         slow  |-> slowNow,
         since |-> IF ~above \/ leaving THEN -1
                   ELSE IF since = -1 THEN 0 ELSE since,
         limit |-> ComputeLimitBytes(fair, SlowClamp(burst, slowNow))]

Hwm(limit) == (limit * 3) \div 4

Lwm(limit) == limit \div 2

\* Faulty variant: the watermark of a client that is not slow.
ShouldPauseUnclamped ==
    QueueBytes(slots) >= Hwm(ComputeLimitBytes(
        FairBytes(load.buffers, load.active),
        BurstFactor(load.buffers, load.others + slots)))

\* connection_should_pause_upstream, with its fast path.
ShouldPause ==
    /\ QueueBytes(slots) >= Hwm(MinBuffers * SlotBytes)
    /\ QueueBytes(slots) >= Hwm(QueueLimit)

\* connection_can_resume_upstream, with its fast path, for k queued buffers.
CanResume(k) ==
    \/ QueueBytes(k) <= Lwm(MinBuffers * SlotBytes)
    \/ QueueBytes(k) <= Lwm(ComputeLimitBytes(
           FairBytes(load.buffers, load.active),
           SlowClamp(BurstFactor(load.buffers, load.others + k), slow)))

-----------------------------------------------------------------------------
(* Scheduling of writes.                                                    *)

\* Faulty variant: a batch is only scheduled two buffers past the threshold.
ScheduleBatchLate(b) == pending \/ (b >= BatchBytes + 2 * SlotBytes /\ ~armed)

\* The tail of connection_queue_buffer: send_queue_should_flush, then
\* connection_schedule_write, which leaves an armed connection to the poller.
ScheduleBatch(b) == pending \/ (b >= BatchBytes /\ ~armed)

-----------------------------------------------------------------------------
Init ==
    /\ bytes = 0
    /\ slots = 0
    /\ avg = 0
    /\ since = -1
    /\ slow = FALSE
    /\ paused = FALSE
    /\ pending = FALSE
    /\ armed = FALSE
    /\ pc = "idle"
    /\ load \in Loads
    /\ lost = "none"

Streaming == pc \in {"idle", "recv", "resume"}

Receiving == pc \in {"recv", "resume"}

\* POLLER_IN on the upstream socket: the edge-triggered handler starts its
\* loop, whether or not the upstream is paused.
UpstreamReadable ==
    /\ pc = "idle"
    /\ pc' = "recv"
    /\ UNCHANGED <<bytes, slots, avg, since, slow, paused, pending, armed, load, lost>>

\* How a receive loop ends.  After a resume, connection_handle_write
\* schedules what the loop queued unless the poller watches the socket.
EndLoop(b) ==
    /\ pc' = "idle"
    /\ pending' = (pending \/ (pc = "resume" /\ b > 0 /\ ~armed))

\* http_proxy_try_receive_response stops before recv() at the high watermark.
Pause ==
    /\ Receiving
    /\ ShouldPause
    /\ paused' = TRUE
    /\ EndLoop(bytes)
    /\ UNCHANGED <<bytes, slots, avg, since, slow, armed, load, lost>>

\* buffer_pool_alloc: the size of the pool after an allocation.
PoolAfterAlloc ==
    LET free == load.buffers - load.others - slots
    IN  IF free <= LowWatermark
        THEN Least(load.buffers + ExpandSize, MaxBuffers) ELSE load.buffers

PoolExhausted == PoolAfterAlloc <= load.others + slots

\* A buffer is allocated before recv(), whatever recv() then returns.
BufferAllocated ==
    /\ ~PoolExhausted
    /\ load' = [load EXCEPT !.buffers = PoolAfterAlloc]

\* recv() returns EAGAIN; the buffer goes back to the pool, grown perhaps.
Drained ==
    /\ Receiving
    /\ ~ShouldPause
    /\ BufferAllocated
    /\ EndLoop(bytes)
    /\ UNCHANGED <<bytes, slots, avg, since, slow, paused, armed, lost>>

\* The end of a transfer: connection_begin_drain_close, and the same lines at
\* the end of http_proxy_handle_socket_event.  `was' is write_queue_pending.
BeginDrainClose(was) ==
    /\ pc' = "closing"
    /\ pending' = (was \/ ~armed)

\* The rest of http_proxy_try_receive_response: a buffer is filled from the
\* socket and offered to connection_queue_buffer.
Relay ==
    /\ Receiving
    /\ ~ShouldPause
    /\ BufferAllocated
    /\ LET upd  == UpdateQueueLimit(PoolAfterAlloc, load.others + slots + 1)
           fits == QueueBytes(slots) + SlotBytes <= upd.limit
       IN  /\ avg' = upd.avg
           /\ slow' = upd.slow
           /\ since' = upd.since
           /\ \/ /\ fits
                 /\ \E size \in Sizes : bytes' = bytes + size
                 /\ slots' = slots + 1
                 /\ \/ /\ pending' = ScheduleBatch(bytes')
                       /\ UNCHANGED pc
                    \/ \* the last byte of Content-Length
                       BeginDrainClose(ScheduleBatch(bytes'))
                 /\ UNCHANGED lost
              \/ \* the handler fails, the worker closes the connection
                 /\ ~fits
                 /\ pc = "recv"
                 /\ pc' = "closed"
                 /\ lost' = "abort"
                 /\ UNCHANGED <<bytes, slots, pending>>
              \/ \* http_proxy_resume_upstream only leaves its loop
                 /\ ~fits
                 /\ pc = "resume"
                 /\ EndLoop(bytes)
                 /\ lost' = "hole"
                 /\ UNCHANGED <<bytes, slots>>
    /\ UNCHANGED <<paused, armed>>

\* The same with no buffer to be had: recv() is not called.
RelayExhausted ==
    /\ Receiving
    /\ ~ShouldPause
    /\ PoolExhausted
    /\ \/ /\ pc = "recv"
          /\ pc' = "closed"
          /\ UNCHANGED pending
       \/ /\ pc = "resume"
          /\ EndLoop(bytes)
    /\ UNCHANGED <<bytes, slots, avg, since, slow, paused, armed, load, lost>>

\* Faulty variant: the end of the transfer schedules no write.
UpstreamEndUnscheduled ==
    /\ Receiving
    /\ ~ShouldPause
    /\ BufferAllocated
    /\ pc' = "closing"
    /\ UNCHANGED <<bytes, slots, avg, since, slow, paused, pending, armed, lost>>

\* recv() returns 0 or an error, in either loop.
UpstreamEnd ==
    /\ Receiving
    /\ ~ShouldPause
    /\ BufferAllocated
    /\ BeginDrainClose(pending)
    /\ UNCHANGED <<bytes, slots, avg, since, slow, paused, armed, lost>>

\* POLLER_ERR on the upstream socket after its loop, or a hang-up without
\* POLLER_IN: the transfer ends though the upstream may be paused, and what
\* its socket still holds is not read.
UpstreamHangup ==
    /\ pc = "idle"
    /\ BeginDrainClose(pending)
    /\ UNCHANGED <<bytes, slots, avg, since, slow, paused, armed, load, lost>>

\* POLLER_OUT on the client socket.
ClientWritable ==
    /\ pc \in {"idle", "closing"}
    /\ armed
    /\ ~pending
    /\ pending' = TRUE
    /\ UNCHANGED <<bytes, slots, avg, since, slow, paused, armed, pc, load, lost>>

\* stream_on_client_drain, after a write that sent something and left k
\* buffers.  A transfer that ended has nothing to read any more.
OnClientDrain(k) ==
    IF paused /\ CanResume(k)
    THEN paused' = FALSE /\ pc' = IF pc = "idle" THEN "resume" ELSE pc
    ELSE UNCHANGED <<paused, pc>>

\* Faulty variant: an emptied queue does not tell the stream.
WriteAllQuiet ==
    /\ bytes' = 0
    /\ slots' = 0
    /\ bytes <= WriteBudget
    /\ armed' = FALSE
    /\ pending' = FALSE
    /\ IF pc = "closing" THEN pc' = "closed" /\ UNCHANGED paused
                         ELSE UNCHANGED <<pc, paused>>

\* connection_handle_write sends the whole queue: the connection is done
\* when it was only draining.
WriteAll ==
    /\ bytes' = 0
    /\ slots' = 0
    /\ bytes <= WriteBudget
    /\ armed' = FALSE
    /\ pending' = FALSE
    /\ IF pc = "closing"
       THEN pc' = "closed" /\ UNCHANGED paused
       ELSE IF bytes > 0 THEN OnClientDrain(0) ELSE UNCHANGED <<pc, paused>>

\* send_queue_consume_memory: n of the queued bytes go, and the k buffers whose
\* last byte went.  The buffers that stay hold at least a byte each; those
\* that went held no more than n, and with the one in progress no less.
Consume(n, k) ==
    /\ bytes' = bytes - n
    /\ slots' = slots - k
    /\ slots' > 0 /\ slots' <= bytes' /\ bytes' <= QueueBytes(slots')
    /\ k <= n /\ n < QueueBytes(k + 1)

\* It sends n bytes and the socket is full.
WriteBlocked(n) ==
    /\ n < bytes
    /\ n < WriteBudget
    /\ n > 0 \/ ~armed
    /\ armed' = TRUE
    /\ pending' = FALSE
    /\ \E k \in 0..slots : Consume(n, k)
    /\ IF n > 0 THEN OnClientDrain(slots') ELSE UNCHANGED <<pc, paused>>

\* It stops at its budget and the worker queues it again.
WriteBudgetSpent ==
    /\ bytes > WriteBudget
    /\ armed' = FALSE
    /\ pending' = TRUE
    /\ \E k \in 0..slots : Consume(WriteBudget, k)
    /\ OnClientDrain(slots')

\* worker_drain_writes takes the connection off the write queue.
HandleWrite ==
    /\ pc \in {"idle", "closing"}
    /\ pending
    /\ \/ WriteAll
       \/ \E n \in SendSizes : WriteBlocked(n)
       \/ WriteBudgetSpent
    /\ UNCHANGED <<avg, since, slow, load, lost>>

\* The client goes away, or a send fails for good.
ClientGone ==
    /\ pc \in {"idle", "closing"}
    /\ pc' = "closed"
    /\ UNCHANGED <<bytes, slots, avg, since, slow, paused, pending, armed, load, lost>>

\* The clock, as far as the debounce can tell.
Tick ==
    /\ pc = "idle"
    /\ since \in 0..(Debounce - 1)
    /\ since' = since + 1
    /\ UNCHANGED <<bytes, slots, avg, slow, paused, pending, armed, pc, load, lost>>

\* Other clients come and go, the pool grows and shrinks.
OtherClients ==
    /\ pc = "idle"
    /\ load' \in {l \in Loads : l.others + slots <= l.buffers}
    /\ UNCHANGED <<bytes, slots, avg, since, slow, paused, pending, armed, pc, lost>>

Next ==
    \/ UpstreamReadable \/ Pause \/ Drained \/ Relay \/ RelayExhausted
    \/ UpstreamEnd \/ UpstreamHangup \/ ClientWritable \/ HandleWrite
    \/ ClientGone \/ Tick \/ OtherClients

(* A loop that was entered goes on, and every turn of the worker's loop      *)
(* drains the write queue and collects poller events; the client reads, so   *)
(* a full socket becomes writable again.  An upstream event can come between *)
(* any two writes, hence strong fairness.                                    *)
Fairness ==
    /\ WF_vars(Pause \/ Drained \/ Relay \/ RelayExhausted \/ UpstreamEnd)
    /\ SF_vars(ClientWritable)
    /\ SF_vars(HandleWrite)

Spec == Init /\ [][Next]_vars /\ Fairness

-----------------------------------------------------------------------------
TypeOK ==
    /\ bytes \in Nat
    /\ slots \in Nat
    /\ avg \in Nat
    /\ since \in -1..Debounce
    /\ slow \in BOOLEAN
    /\ paused \in BOOLEAN
    /\ pending \in BOOLEAN
    /\ armed \in BOOLEAN
    /\ pc \in {"idle", "recv", "resume", "closing", "closed"}
    /\ load \in [active: Nat, buffers: 1..MaxBuffers, others: Nat]
    /\ lost \in {"none", "hole", "abort"}

\* The queue is made of buffers that hold between one byte and their capacity.
QueueShape == slots <= bytes /\ bytes <= QueueBytes(slots)

\* An upstream that waits for a write nobody will make: the watermark counts
\* the capacity of the queued buffers, the flush threshold their payload.
Stalled == pc \in {"idle", "recv"} /\ paused /\ ~pending /\ ~armed

\* What can stall: buffers of at least the lowest high watermark that hold
\* less than a batch.  A queue that holds a batch is never left alone.
StalledBelowBatch ==
    Stalled => /\ bytes < BatchBytes
               /\ QueueBytes(slots) >= Hwm(MinBuffers * SlotBytes)

\* A draining connection only closes through a write, so one is always under
\* way (connection_schedule_write and connection_watch_writable between them
\* never let go of the connection).
DrainScheduled == pc = "closing" => pending \/ armed

\* What no write was scheduled for is less than a batch, and nothing of it
\* was sent: its buffers are as full as recv() made them.
LessThanBatch ==
    Streaming /\ ~pending /\ ~armed =>
        /\ bytes < BatchBytes
        /\ \A least \in 1..SlotBytes :
               (\A size \in Sizes : least <= size) => slots * least <= bytes

\* A paused upstream waits for bytes that are still queued: the write that
\* takes the last of them finds something to resume.
PausedOnBytes == Streaming /\ paused => bytes > 0 /\ pc # "resume"

\* The types, and no lost wakeup between the paused upstream and the client
\* but for the stall of a queue that holds less than a batch.
FlowInv ==
    /\ TypeOK
    /\ QueueShape
    /\ StalledBelowBatch
    /\ DrainScheduled
    /\ LessThanBatch
    /\ PausedOnBytes

\* Bytes taken from the upstream are only thrown away when the limit moved
\* between the watermark check and connection_queue_buffer: the sample made
\* the client slow, or the allocation in between tipped the burst factor.
LossOnlyWhenLimitMoves ==
    [][lost' # lost =>
          \/ slow' /\ ~slow
          \/ BurstFactor(load'.buffers, load.others + slots + 1)
                 < BurstFactor(load.buffers, load.others + slots)]_vars

\* A paused upstream is resumed, or the client keeps receiving: the relay
\* never stands still with both sides waiting for each other, except for good
\* in the stall of connection_queue_buffer, a queue below the flush threshold.
RelayProgress ==
    \/ []<>(~paused \/ pc = "closed")
    \/ []<><<bytes' < bytes>>_vars
    \/ <>[](Stalled /\ bytes \in 1..(BatchBytes - 1))

\* An ended transfer delivers what is queued and closes.
DrainCompletes == pc = "closing" ~> pc = "closed"
=============================================================================
