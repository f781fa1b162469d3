--------------------------- MODULE MulticastSource ---------------------------
(* A multicast source of multicast.c, shared by the viewers of one worker.   *)
(* Ordinary viewers get batches that the source's own reorder ring fills;    *)
(* FCC and snapshot viewers get every packet, put it through a ring of their *)
(* own, and are promoted to the batches when both rings have reached the     *)
(* same sequence number.  An FEC packet in the stream turns everything back  *)
(* to packets.                                                               *)
(*                                                                           *)
(* One RTP stream without an FEC port; packets are positions in it, as in    *)
(* RtpReorderRing.  The clients' queues take all (FlowControl describes when *)
(* they do not).  A source that failed is left to its viewers (a new viewer  *)
(* would open another one).  FccSession describes how an FCC session gets to *)
(* where it takes part here.                                                 *)
EXTENDS RtpReorderRing, Functions, FiniteSets

SeqExt == INSTANCE SequencesExt

CONSTANTS
    Viewers,       \* mcast_session_t objects
    BatchCap,      \* packets that fit into BUFFER_POOL_BATCH_SIZE
    Exact,         \* whether they fill it to the byte
    SentFirst, SentLast, \* bound: the part of the stream that is sent
    MaxMishaps,    \* bound: packets lost or repeated, steps without memory
    MaxJoins       \* bound: attachments

ASSUME SourceAssumption ==
    /\ BatchCap \in Nat \ {0} /\ Exact \in BOOLEAN
    /\ SentFirst \in Nat \ {0} /\ SentLast \in Nat /\ SentFirst <= SentLast
    /\ SentLast - SentFirst < SeqMod \div 2
    /\ None \notin Viewers

VARIABLES
    subscribers, \* source->subscribers, newest first; the source exists
                 \* while there are any
    packetSubs,  \* source->packet_subscribers, newest first
    refs,        \* source->refs
    clients,     \* source->batch_clients
    shared,      \* source->shared_output
    sring,       \* source->reorder
    batch,       \* the packets in source->batch
    srcFailed,   \* source->failed
    owner,       \* fdmap: the connection that gets the socket's events
    viewer,      \* the sessions and what they use of their stream context
    sent,        \* network: the newest packet sent
    late,        \* network: a packet that was overtaken, or None
    lossy,       \* network: a packet was lost
    mishaps,     \* packets lost or repeated and steps without memory so far
    joins        \* attachments so far

wire == <<sent, late, lossy>>
registry == <<subscribers, packetSubs, refs, clients, owner>>
sourceVars == <<registry, shared, sring, batch, srcFailed, viewer, wire, mishaps, joins>>

Packets == SentFirst..SentLast

\* History: since is the newest packet sent when the viewer joined, last the
\* last one its client's queue got; replayed says whether one ever was not
\* after the one before, skipped whether a packet sent since the viewer joined
\* was left out between the two; hurt whether the viewer itself missed
\* something for want of memory.
Session(fcc, snapshot, batched) ==
    [batched |-> batched, failed |-> FALSE, fcc |-> fcc, snapshot |-> snapshot,
     pending |-> << >>, ring |-> EmptyRing,
     since |-> sent, last |-> None, replayed |-> FALSE, skipped |-> FALSE, hurt |-> FALSE]

Nobody == [Session("none", FALSE, FALSE) EXCEPT !.since = None]

\* The packets reach the client's queue (rtp_queue_buf_direct).
Played(x, packets) ==
    LET all == IF x.last = None THEN packets ELSE <<x.last>> \o packets
        n   == Len(all)
    IN  [x EXCEPT !.last = IF n = 0 THEN None ELSE all[n],
                  !.replayed = @ \/ \E k \in 1..(n - 1) : all[k + 1] <= all[k],
                  !.skipped  = @ \/ \E k \in 1..(n - 1) :
                                      \E p \in (all[k] + 1)..(all[k + 1] - 1) : p > x.since]

Attached(v) == v \in Range(subscribers)

\* A list without the viewers of gone.
Without(list, gone) ==
    LET kept[k \in 0..Len(list)] ==
            IF k = 0 THEN << >>
            ELSE IF list[k] \in gone THEN kept[k - 1] ELSE Append(kept[k - 1], list[k])
    IN  kept[Len(list)]

-----------------------------------------------------------------------------
(* Batches.  m is the part of the source that delivery changes, with the     *)
(* viewers; fail are the viewers for whom buffer_ref_view has no memory.     *)

\* mcast_source_fanout
Fanout(m, packets, fail) ==
    [m EXCEPT !.viewer = [v \in Viewers |->
        IF ~Attached(v) \/ ~@[v].batched \/ @[v].failed THEN @[v]
        ELSE IF v \in fail /\ refs > 1 THEN [@[v] EXCEPT !.failed = TRUE, !.hurt = TRUE]
        ELSE Played(@[v], packets)]]

\* mcast_source_flush
FlushBatch(m, fail) ==
    IF m.batch = << >> THEN m
    ELSE [Fanout(m, m.batch, fail) EXCEPT !.batch = << >>]

\* mcast_source_append.  Packets are of one size, so the batch is flushed
\* before it would overflow, or, if they fill it to the byte, when it is full.
\* Without memory for a batch the packet itself is handed out.
AppendPacket(m, i, fail, noBatch) ==
    LET f == IF Len(m.batch) = BatchCap THEN FlushBatch(m, fail) ELSE m
        a == [f EXCEPT !.batch = Append(@, i)]
    IN  IF clients = 0 THEN m
        ELSE IF f.batch = << >> /\ noBatch THEN Fanout(f, <<i>>, fail)
        ELSE IF Exact /\ Len(a.batch) = BatchCap THEN FlushBatch(a, fail) ELSE a

\* The packets that the source's ring delivers.
AppendPackets(m, packets, fail, noBatch) ==
    LET after[k \in 0..Len(packets)] ==
            IF k = 0 THEN m ELSE AppendPacket(after[k - 1], packets[k], fail, noBatch)
    IN  after[Len(packets)]

-----------------------------------------------------------------------------
(* Packets for one viewer.                                                   *)

\* stream_process_rtp_payload: into the viewer's ring, from there to the
\* snapshot or to the client.
FeedOne(x, i) ==
    LET r == InsertPacket(x.ring, i)
        y == [x EXCEPT !.ring = [r EXCEPT !.out = << >>]]
    IN  IF x.snapshot THEN y ELSE Played(y, r.out)

\* The packets in turn.
Feed(x, packets) ==
    LET after[k \in 0..Len(packets)] ==
            IF k = 0 THEN x ELSE FeedOne(after[k - 1], packets[k])
    IN  after[Len(packets)]

\* mcast_deliver_packet, with fcc_handle_mcast_transition, which keeps the
\* packet, and fcc_handle_mcast_active, which first lets go of what was kept.
DeliverPacket(x, i) ==
    CASE x.failed -> x
      [] ~x.failed /\ x.fcc = "REQUESTED" -> [x EXCEPT !.pending = Append(@, i)]
      [] ~x.failed /\ x.fcc # "REQUESTED" ->
            Feed([x EXCEPT !.pending = << >>], Append(x.pending, i))

\* The loop over the packet subscribers.  A view that cannot be had costs
\* that viewer the packet.
DeliverPrivate(vw, i, fail) ==
    [v \in Viewers |->
        IF v \notin Range(packetSubs) THEN vw[v]
        ELSE IF v \in fail /\ (refs > 1 \/ shared) THEN [vw[v] EXCEPT !.hurt = TRUE]
        ELSE DeliverPacket(vw[v], i)]

\* The condition in mcast_source_promote_ready, r being the source's ring.
Ready(x, r) ==
    /\ ~x.failed /\ ~x.snapshot
    /\ x.fcc # "REQUESTED" /\ x.pending = << >>
    /\ r.phase = 2 /\ x.ring.phase = 2
    /\ x.ring.count = 0 /\ x.ring.base = r.base

\* Faulty variant: promoted viewers also get the batch under way.
PromotedUnflushed(m, ready, fail) ==
    [m EXCEPT !.viewer = [v \in Viewers |-> [m.viewer[v] EXCEPT !.batched = @ \/ v \in ready]]]

\* mcast_source_promote_ready: what is in the batch goes to the others first.
Promoted(m, ready, fail) ==
    LET f == IF ready = {} THEN m ELSE FlushBatch(m, fail)
    IN  [f EXCEPT !.viewer = [v \in Viewers |-> [f.viewer[v] EXCEPT !.batched = @ \/ v \in ready]]]

-----------------------------------------------------------------------------
\* A step with so many mishaps: viewers or a batch without memory, or a
\* packet that comes again.
Mishap(fail, noBatch, again) ==
    /\ mishaps' = mishaps + again + (IF fail = {} /\ ~noBatch THEN 0 ELSE 1)
    /\ mishaps' <= MaxMishaps

State == [viewer |-> viewer, batch |-> batch]

Becomes(m) == viewer' = m.viewer /\ batch' = m.batch

\* mcast_source_process_packet for RTP packet i.
Process(i, fail, noBatch, again) ==
    LET private == [State EXCEPT !.viewer = DeliverPrivate(@, i, fail)]
        r       == InsertPacket(sring, i)
        out     == AppendPackets(private, r.out, fail, noBatch)
        ready   == {v \in Range(packetSubs) : Ready(out.viewer[v], r)}
    IN  /\ subscribers # << >>
        /\ Mishap(fail, noBatch, again)
        /\ \/ /\ shared
              /\ sring' = [r EXCEPT !.out = << >>]
              /\ Becomes(Promoted(out, ready, fail))
              /\ packetSubs' = Without(packetSubs, ready)
              /\ clients' = clients + Cardinality(ready)
           \/ /\ ~shared
              /\ Becomes(private)
              /\ UNCHANGED <<sring, packetSubs, clients>>
        /\ UNCHANGED <<subscribers, refs, owner, shared, srcFailed, joins>>

\* Bound: the network delays a packet by less than the window.
InWindow(i) == late = None \/ i < late + Window

\* Bound: the packets that a ring collects to start with fit into its window.
CollectedTogether(i) ==
    /\ \A r \in {sring} \cup {viewer[v].ring : v \in Viewers} :
          r.phase = 1 => \A k \in Buffered(r) : i < k + Window
    /\ \A v \in Viewers : \A k \in Range(viewer[v].pending) : i < k + Window

\* The next packet of the stream arrives; the newest one arrives again; the
\* overtaken one arrives.

Receive(fail, noBatch) ==
    /\ sent < SentLast
    /\ InWindow(sent + 1) /\ CollectedTogether(sent + 1)
    /\ Process(sent + 1, fail, noBatch, 0)
    /\ sent' = sent + 1
    /\ UNCHANGED <<late, lossy>>

ReceiveAgain ==
    /\ sent >= SentFirst /\ sent # late
    /\ CollectedTogether(sent)
    /\ Process(sent, {}, FALSE, 1)
    /\ UNCHANGED wire

ReceiveLate(fail, noBatch) ==
    /\ late # None /\ CollectedTogether(late)
    /\ Process(late, fail, noBatch, 0)
    /\ late' = None
    /\ UNCHANGED <<sent, lossy>>

\* The network: the next packet is overtaken; a packet is lost.
Overtaken ==
    /\ subscribers # << >>
    /\ sent < SentLast /\ late = None
    /\ sent' = sent + 1
    /\ late' = sent + 1
    /\ UNCHANGED <<registry, shared, sring, batch, srcFailed, viewer, lossy, mishaps, joins>>

Lost ==
    /\ subscribers # << >>
    /\ mishaps < MaxMishaps
    /\ mishaps' = mishaps + 1
    /\ lossy' = TRUE
    /\ \/ late # None /\ late' = None /\ UNCHANGED sent
       \/ sent < SentLast /\ InWindow(sent + 1) /\ sent' = sent + 1 /\ UNCHANGED late
    /\ UNCHANGED <<registry, shared, sring, batch, srcFailed, viewer, joins>>

-----------------------------------------------------------------------------
\* A batched viewer gets a copy of the source's window.
TakeOverRing(x, lacks) ==
    [x EXCEPT !.batched = FALSE, !.failed = @ \/ lacks, !.hurt = @ \/ lacks, !.ring = sring]

\* The FEC packet itself: an FCC viewer that is past unicast lets go of what
\* was kept, nothing else is done with it.
DeliverFec(x, lacks) ==
    IF x.failed \/ x.fcc # "ACTIVE" \/ lacks THEN x
    ELSE Feed([x EXCEPT !.pending = << >>], x.pending)

\* mcast_source_process_packet for an FEC packet, with
\* mcast_source_enable_private_fec.  The FEC decoder rejects the packet, so
\* that the rings go on without recovery.
ReceiveFec(fail) ==
    /\ subscribers # << >>
    /\ shared
    /\ Mishap(fail, FALSE, 0)
    /\ LET f == FlushBatch(State, fail).viewer
           t == [v \in Viewers |-> IF f[v].batched THEN TakeOverRing(f[v], v \in fail) ELSE f[v]]
       IN  viewer' = [v \in Viewers |->
                IF Attached(v) THEN DeliverFec(t[v], v \in fail /\ refs > 1) ELSE t[v]]
    /\ batch' = << >>
    /\ packetSubs' = SeqExt!Reverse(Without(subscribers, {v \in Viewers : ~viewer[v].batched}))
                     \o packetSubs
    /\ shared' = FALSE
    /\ clients' = 0
    /\ sring' = EmptyRing
    /\ UNCHANGED <<subscribers, refs, owner, srcFailed, wire, joins>>

-----------------------------------------------------------------------------
\* mcast_session_join that finds the source or opens it.
SessionJoin(v, fcc, snapshot, fail) ==
    /\ ~Attached(v)
    /\ joins < MaxJoins
    /\ ~srcFailed
    /\ Mishap(fail, FALSE, 0)
    /\ LET output  == shared \/ subscribers = << >>
           batched == output /\ fcc = "none" /\ ~snapshot
           f       == FlushBatch(State, fail)
       IN  /\ Becomes([f EXCEPT !.viewer[v] = Session(fcc, snapshot, batched)])
           /\ clients' = clients + (IF batched THEN 1 ELSE 0)
           /\ packetSubs' = IF batched THEN packetSubs ELSE <<v>> \o packetSubs
           /\ shared' = output
    /\ subscribers' = <<v>> \o subscribers
    /\ refs' = refs + 1
    /\ owner' = v
    /\ joins' = joins + 1
    /\ UNCHANGED <<sring, srcFailed, wire>>

\* The FCC session of v has reached the first packet that was kept, or gives
\* up unicast before it delivered anything (see FccSession).
FccActive(v) ==
    /\ Attached(v)
    /\ viewer[v].fcc = "REQUESTED"
    /\ \/ /\ viewer[v].pending # << >>
          /\ viewer' = [viewer EXCEPT ![v].fcc = "ACTIVE", ![v].ring =
                [EmptyRing EXCEPT !.phase = 2, !.base = Head(viewer[v].pending) % SeqMod]]
       \/ viewer' = [viewer EXCEPT ![v].fcc = "ACTIVE"]
    /\ UNCHANGED <<registry, shared, sring, batch, srcFailed, wire, mishaps, joins>>

\* snapshot_fallback_to_streaming
SnapshotFallback(v) ==
    /\ Attached(v)
    /\ viewer[v].snapshot
    /\ viewer' = [viewer EXCEPT ![v].snapshot = FALSE]
    /\ UNCHANGED <<registry, shared, sring, batch, srcFailed, wire, mishaps, joins>>

\* Faulty variant: a departing viewer leaves the owner of the socket alone.
NewOwnerKept(rest) == owner

\* Event dispatch goes to the newest viewer that is left.
NewOwner(rest) == Head(rest)

\* mcast_session_cleanup; the last viewer takes the source along.
Detach(v, m) ==
    LET rest == Without(subscribers, {v})
    IN  /\ subscribers' = rest
        /\ refs' = refs - 1
        /\ clients' = clients - (IF viewer[v].batched THEN 1 ELSE 0)
        /\ packetSubs' = Without(packetSubs, {v})
        /\ \/ /\ rest # << >>
              /\ owner' = NewOwner(rest)
              /\ Becomes([m EXCEPT !.viewer[v] = Nobody])
              /\ UNCHANGED <<shared, sring>>
           \/ /\ rest = << >>
              /\ owner' = None
              /\ Becomes([viewer |-> [m.viewer EXCEPT ![v] = Nobody],
                          batch |-> << >>])
              /\ shared' = FALSE
              /\ sring' = EmptyRing

SourceGone == subscribers' = << >>

\* The client goes away.
Leave(v) ==
    /\ Attached(v)
    /\ Detach(v, State)
    /\ srcFailed' = (srcFailed /\ ~SourceGone)
    /\ UNCHANGED <<wire, mishaps, joins>>

\* mcast_session_tick that fails: the worker closes the connection.
TickDetaches(v) ==
    /\ Attached(v)
    /\ viewer[v].failed \/ srcFailed
    /\ Detach(v, State)
    /\ srcFailed' = (srcFailed /\ ~SourceGone)
    /\ UNCHANGED <<wire, mishaps, joins>>

\* A tick 100 ms or more after the batch was begun hands it out.
TickFlushes(v, fail) ==
    /\ Attached(v)
    /\ ~viewer[v].failed /\ ~srcFailed
    /\ batch # << >>
    /\ Mishap(fail, FALSE, 0)
    /\ Becomes(FlushBatch(State, fail))
    /\ UNCHANGED <<registry, shared, sring, srcFailed, wire, joins>>

\* A tick after MCAST_TIMEOUT_SEC without data, by when any batch is old: the
\* source has failed, v is the first to be closed.
TickTimesOut(v, fail) ==
    /\ Attached(v)
    /\ ~viewer[v].failed /\ ~srcFailed
    /\ Mishap(fail, FALSE, 0)
    /\ Detach(v, FlushBatch(State, fail))
    /\ srcFailed' = ~SourceGone
    /\ UNCHANGED <<wire, joins>>

\* recvmmsg, recv or poller_mod fails for good.
ReceiveFails ==
    /\ subscribers # << >>
    /\ ~srcFailed
    /\ srcFailed' = TRUE
    /\ UNCHANGED <<registry, shared, sring, batch, viewer, wire, mishaps, joins>>

-----------------------------------------------------------------------------
SourceInit ==
    /\ sent = SentFirst - 1 /\ late = None /\ lossy = FALSE
    /\ subscribers = << >> /\ packetSubs = << >>
    /\ refs = 0 /\ clients = 0
    /\ shared = FALSE /\ sring = EmptyRing
    /\ batch = << >>
    /\ srcFailed = FALSE
    /\ owner = None
    /\ viewer = [v \in Viewers |-> Nobody]
    /\ mishaps = 0 /\ joins = 0

Fails == {{}} \cup {{v} : v \in Range(subscribers)}

SourceNext ==
    \/ \E fail \in Fails, noBatch \in BOOLEAN :
          Receive(fail, noBatch) \/ ReceiveLate(fail, noBatch)
    \/ ReceiveAgain \/ Overtaken \/ Lost
    \/ \E fail \in Fails : ReceiveFec(fail)
    \/ \E v \in Viewers, fail \in Fails :
          \/ SessionJoin(v, "none", FALSE, fail) \/ SessionJoin(v, "none", TRUE, fail)
          \/ SessionJoin(v, "REQUESTED", FALSE, fail) \/ SessionJoin(v, "ACTIVE", FALSE, fail)
          \/ TickFlushes(v, fail) \/ TickTimesOut(v, fail)
    \/ \E v \in Viewers : FccActive(v) \/ SnapshotFallback(v) \/ Leave(v) \/ TickDetaches(v)
    \/ ReceiveFails

SourceSpec == SourceInit /\ [][SourceNext]_sourceVars

-----------------------------------------------------------------------------
SourceTypeOK ==
    /\ subscribers \in Seq(Viewers) /\ packetSubs \in Seq(Viewers)
    /\ refs \in Nat /\ clients \in Nat
    /\ {shared, srcFailed} \subseteq BOOLEAN
    /\ sring \in RingType(Packets)
    /\ batch \in Seq(Packets) /\ Len(batch) <= BatchCap
    /\ owner \in Viewers \cup {None}
    /\ \A v \in Viewers : viewer[v].ring \in RingType(Packets) /\ viewer[v].fcc \in {"none", "REQUESTED", "ACTIVE"}
    /\ sent \in (SentFirst - 1)..SentLast /\ late \in Packets \cup {None}

\* The reference and batch counts and the list of packet subscribers agree
\* with the sessions, each of which is on the list once, and the socket's
\* events always go to a connection that is still subscribed.
RegistryExact ==
    LET attached == Range(subscribers)
    IN  /\ refs = Len(subscribers) /\ Cardinality(attached) = refs
        /\ clients = Cardinality({v \in attached : viewer[v].batched})
        /\ Range(packetSubs) = {v \in attached : ~viewer[v].batched}
        /\ Len(packetSubs) = Cardinality(Range(packetSubs))
        /\ IF refs = 0 THEN owner = None ELSE owner \in attached

\* The registry of a shared source is well formed after every event.
RegistryInv == SourceTypeOK /\ RegistryExact

\* "No replay": through private packets, promotion, batches and the return to
\* private packets no viewer gets a packet twice or out of order.
NoReplay == \A v \in Viewers : ~viewer[v].replayed

\* "No skipped handoff data", and "a local drop must not interrupt other
\* subscribers": while the network loses nothing, a viewer that did not run
\* out of memory itself gets, from its first packet on, every one sent since it
\* joined.
NothingSkipped == ~lossy => \A v \in Viewers : viewer[v].skipped => viewer[v].hurt

\* What mcast_source_promote_ready says of the handoff: "no replay or skipped
\* handoff data".
HandoffIntact == NoReplay /\ NothingSkipped
=============================================================================
