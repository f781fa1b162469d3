----------------------------- MODULE FccSession -----------------------------
(* fcc.c, fcc_telecom.c, fcc_huawei.c: one viewer's fast channel change.  A  *)
(* unicast server sends the recent past of the channel faster than it plays; *)
(* when it has caught up the viewer joins the multicast group, keeps what    *)
(* arrives there in a pending list, tells the server where to stop, and      *)
(* continues with multicast once the unicast packets have reached that       *)
(* point.  Both streams pass through the viewer's reorder ring.              *)
(*                                                                           *)
(* The two vendors' messages differ only in layout: a response refuses,      *)
(* accepts or redirects.  The multicast source is shared by viewers; here it *)
(* is the one subscription of this viewer (mcast_session_t).  Time is        *)
(* counted in units, as the ages of the time stamps the code compares.       *)
EXTENDS RtpReorderRing, Functions

CONSTANTS
    Servers,           \* addresses of FCC servers
    MaxRedirects,      \* FCC_MAX_REDIRECTS
    SignalingTimeout,  \* FCC_TIMEOUT_SIGNALING_MS
    UnicastTimeout,    \* FCC_TIMEOUT_UNICAST_SEC
    SyncWait,          \* FCC_TIMEOUT_SYNC_WAIT_SEC
    McastTimeout,      \* MCAST_TIMEOUT_SEC
    UniFirst,          \* the position the server starts at
    LiveFirst,         \* the position multicast is at
    StreamEnd,         \* bound: the last position of the stream
    MaxLead,           \* bound: how far unicast runs ahead of multicast
    MaxOverrun,        \* bound: unicast packets after the point to stop at
    MaxLosses,         \* bound: packets the network loses
    MaxNoise           \* bound: packets of the server that are ignored, repeated
                       \* or overtaken

ASSUME FccAssumption ==
    /\ Servers # {}
    /\ MaxRedirects \in Nat
    /\ {SignalingTimeout, UnicastTimeout, SyncWait, McastTimeout} \subseteq Nat \ {0}
    /\ SignalingTimeout <= UnicastTimeout
    /\ UniFirst \in Nat /\ LiveFirst \in Nat /\ StreamEnd \in Nat
    /\ UniFirst <= LiveFirst /\ LiveFirst <= StreamEnd
    /\ StreamEnd - UniFirst < SeqMod \div 2
    /\ Window > 1
    /\ {MaxLead, MaxOverrun} \subseteq 0..(Window - 1)
    /\ MaxLosses \in Nat /\ MaxNoise \in Nat

VARIABLES
    state,      \* fcc->state
    server,     \* fcc->fcc_server
    redirects,  \* fcc->redirect_count
    termSent,   \* fcc->fcc_term_sent
    termSeq,    \* fcc->fcc_term_seqn
    pending,    \* the list at fcc->pending_list_head
    quiet,      \* age of fcc->last_data_time
    age,        \* age of fcc->unicast_start_time
    joined,     \* mcast.source is set
    failed,     \* mcast.failed
    mcastQuiet, \* age of the source's last_data_time
    reorder,    \* ctx->reorder
    open,       \* the connection exists
    uni,        \* network: the next unicast packet
    live,       \* network: the next multicast packet
    losses,     \* network: packets lost so far, at least 1 once it upset the order
    noise,      \* network: packets ignored, repeated or late so far
    played,     \* history: the packets the client got
    terms,      \* history: termination messages sent
    sendFailed, \* history: one could not be sent
    fellBack,   \* history: unicast was given up for multicast
    apart       \* history: the packets collected first did not fit the window

fcc     == <<state, server, redirects, termSent, termSeq, pending, age>>
mcast   == <<joined, failed, mcastQuiet>>
network == <<uni, live, losses, noise>>
history == <<played, terms, sendFailed, fellBack, apart>>
fccVars == <<fcc, quiet, mcast, reorder, open, network, history>>

StreamPositions == UniFirst..StreamEnd

States == {"INIT", "REQUESTED", "UNICAST_PENDING", "UNICAST_ACTIVE",
           "MCAST_REQUESTED", "MCAST_ACTIVE"}

Older(t, cap) == IF t < cap THEN t + 1 ELSE t

-----------------------------------------------------------------------------
\* fcc_session_init and fcc_initialize_and_request.  A request that cannot
\* be sent ends the connection before it streams.
FccInit ==
    /\ state = "REQUESTED"
    /\ server \in Servers
    /\ redirects = 0
    /\ termSent = FALSE /\ termSeq = 0
    /\ pending = << >>
    /\ quiet = 0 /\ age = 0
    /\ joined = FALSE /\ failed = FALSE /\ mcastQuiet = 0
    /\ reorder = EmptyRing
    /\ open = TRUE
    /\ uni = UniFirst /\ live = LiveFirst /\ losses = 0 /\ noise = 0
    /\ played = << >>
    /\ terms = 0 /\ sendFailed = FALSE /\ fellBack = FALSE /\ apart = FALSE

\* mcast_session_join: nothing when subscribed already; otherwise it may fail
\* (no interface, socket, memory), which no caller in fcc*.c looks at.  Only a
\* new source starts its last_data_time, one that other viewers share keeps it.
Join ==
    /\ UNCHANGED failed
    /\ \/ joined /\ UNCHANGED <<joined, mcastQuiet>>
       \/ ~joined /\ joined' = TRUE /\ mcastQuiet' \in 0..McastTimeout
       \/ ~joined /\ UNCHANGED <<joined, mcastQuiet>>

\* To multicast without having reached the termination sequence.
Fallback ==
    /\ state' = "MCAST_ACTIVE"
    /\ Join
    /\ fellBack' = TRUE
    /\ UNCHANGED <<termSent, termSeq, pending, age, reorder, open, network,
                   played, terms, sendFailed, apart>>

\* Faulty variant: the termination message is sent whatever was sent before.
CleanupAlwaysTerminates ==
    /\ terms' = terms + 1
    /\ UNCHANGED sendFailed

\* fcc_session_cleanup, the message: only when none was sent before.
CleanupTerminates ==
    \/ termSent /\ UNCHANGED <<terms, sendFailed>>
    \/ ~termSent /\ terms' = terms + 1 /\ UNCHANGED sendFailed
    \/ ~termSent /\ sendFailed' = TRUE /\ UNCHANGED <<terms>>

\* stream_context_cleanup: fcc_session_cleanup, mcast_session_cleanup and
\* rtp_reorder_cleanup.
Cleanup ==
    /\ open' = FALSE
    /\ CleanupTerminates
    /\ state' = "INIT"
    /\ termSent' = FALSE /\ termSeq' = 0
    /\ pending' = << >>
    /\ joined' = FALSE
    /\ reorder' = EmptyRing
    /\ UNCHANGED <<server, redirects, quiet, age, failed, mcastQuiet, network,
                   played, fellBack, apart>>

\* The client goes away.
Disconnect == open /\ Cleanup

-----------------------------------------------------------------------------
(* Messages of the server.  Each one read sets last_data_time.               *)

\* FMT 3 / FMT 6 with an error, "no unicast needed", an unknown type or too
\* short to be followed.  FMT 3 may name another address all the same.
ServerRefuses ==
    /\ open /\ state = "REQUESTED"
    /\ quiet' = 0
    /\ server' \in Servers
    /\ Fallback
    /\ UNCHANGED redirects

\* FMT 3 / FMT 6, type 2, which may name the address that sends the stream.
ServerAccepts ==
    /\ open /\ state = "REQUESTED"
    /\ state' = "UNICAST_PENDING"
    /\ quiet' = 0 /\ age' = 0
    /\ server' \in Servers
    /\ UNCHANGED <<redirects, termSent, termSeq, pending, mcast, reorder,
                   open, network, history>>

\* A copy of the redirection just followed.
RepeatedRedirect(s) == redirects > 0 /\ s = server

RedirectsAfter == redirects + 1

\* FMT 3 / FMT 6, type 3: the request goes to server s, as long as there
\* were not too many; if it cannot be sent the connection is closed.  One
\* redirection too many changes the address with FMT 3, not with FMT 6.
ServerRedirects(s) ==
    /\ open /\ state = "REQUESTED" /\ ~RepeatedRedirect(s)
    /\ \/ /\ RedirectsAfter <= MaxRedirects
          /\ redirects' = RedirectsAfter
          /\ server' = s
          /\ quiet' = 0
          /\ UNCHANGED <<state, termSent, termSeq, pending, age, mcast, reorder,
                         open, network, history>>
       \/ RedirectsAfter <= MaxRedirects /\ Cleanup
       \/ /\ RedirectsAfter > MaxRedirects
          /\ redirects' = RedirectsAfter
          /\ server' \in {server, s}
          /\ quiet' = 0
          /\ Fallback

\* What is read and ignored: unknown formats, a response nobody waits for, a
\* repeated redirection.
ServerNoise ==
    /\ open /\ noise < MaxNoise
    /\ noise' = noise + 1
    /\ quiet' = 0
    /\ UNCHANGED <<fcc, mcast, reorder, open, uni, live, losses, history>>

\* fcc_handle_sync_notification
Synchronise ==
    /\ state \notin {"MCAST_REQUESTED", "MCAST_ACTIVE"}
    /\ state' = "MCAST_REQUESTED"
    /\ Join
    /\ UNCHANGED <<server, redirects, termSent, termSeq, pending, age, reorder,
                   open, network, history>>

\* FMT 4 / FMT 8
ServerSyncs ==
    /\ open
    /\ quiet' = 0
    /\ Synchronise

-----------------------------------------------------------------------------
(* Media.                                                                    *)

\* The viewer's ring, what the client got, and apart.
Output == [reorder |-> reorder, played |-> played, apart |-> apart]

\* Packet i comes while r collects and does not fit into one window with a
\* packet that was collected before.
Apart(r, i) ==
    r.phase = 1 /\ \E k \in Buffered(r) : i >= k + Window \/ k >= i + Window

\* stream_process_rtp_payload: into the ring, and from there to the client.
Handled(x, i) ==
    LET r == InsertPacket(x.reorder, i)
    IN  [reorder |-> [r EXCEPT !.out = << >>], played |-> x.played \o r.out,
         apart |-> x.apart \/ Apart(x.reorder, i)]

\* The packets of sequence s in turn.
Processed(s) ==
    LET after[k \in 0..Len(s)] == IF k = 0 THEN Output ELSE Handled(after[k - 1], s[k])
    IN  after[Len(s)]

Deliver(x) == reorder' = x.reorder /\ played' = x.played /\ apart' = x.apart

\* Faulty variant: one packet short of the multicast packets kept.
ReachedTerminationEarly(r) ==
    /\ termSent /\ r.phase = 2
    /\ SeqDiff(r.base - 1, termSeq - 2) >= 0

\* base_seq - 1, the last packet delivered, is where multicast takes over.
ReachedTermination(r) ==
    /\ termSent /\ r.phase = 2
    /\ SeqDiff(r.base - 1, termSeq - 1) >= 0

\* What the server may have sent (external): it repeats the group's stream,
\* and once told to stop only what is in flight still comes.
UnicastReach(i) ==
    /\ i <= live + MaxLead
    /\ termSent => \E t \in StreamPositions : t % SeqMod = termSeq /\ i <= t + MaxOverrun

UnicastSent(i) == i >= uni /\ UnicastReach(i)

\* fcc_handle_unicast_media for packet i.
HandleUnicastMedia(i) ==
    /\ quiet' = 0
    /\ \/ /\ state = "MCAST_ACTIVE"
          /\ UNCHANGED <<state, reorder, played, apart>>
       \/ /\ state # "MCAST_ACTIVE"
          /\ Deliver(Processed(<<i>>))
          /\ state' = IF ReachedTermination(reorder') THEN "MCAST_ACTIVE"
                      ELSE IF state = "UNICAST_PENDING" THEN "UNICAST_ACTIVE"
                      ELSE state
    /\ UNCHANGED <<server, redirects, termSent, termSeq, pending, age, mcast,
                   open, live, terms, sendFailed, fellBack>>

\* Packet i arrives; those before it were lost, or are late.
UnicastArrives(i) ==
    /\ open
    /\ UnicastSent(i) /\ losses + (i - uni) <= MaxLosses
    /\ uni' = i + 1 /\ losses' = losses + (i - uni)
    /\ UNCHANGED noise
    /\ HandleUnicastMedia(i)

\* A packet that was overtaken arrives after all, or one that came is repeated.
UnicastLate(i) ==
    /\ open
    /\ i < uni /\ UnicastReach(i)
    /\ noise < MaxNoise /\ noise' = noise + 1
    /\ MaxLosses > 0 /\ losses' = IF losses = 0 THEN 1 ELSE losses
    /\ UNCHANGED uni
    /\ HandleUnicastMedia(i)

\* fcc_handle_socket_event with the pool exhausted: read and dropped.
UnicastNoBuffer ==
    /\ open /\ uni \in StreamPositions /\ UnicastSent(uni) /\ losses < MaxLosses
    /\ uni' = uni + 1 /\ losses' = losses + 1
    /\ quiet' = 0
    /\ UNCHANGED <<fcc, mcast, reorder, open, live, noise, history>>

\* fcc_send_termination_message, once: the first multicast packet says where
\* the server may stop.
Terminate(i) ==
    \/ termSent /\ UNCHANGED <<termSent, termSeq, terms>>
    \/ /\ ~termSent
       /\ termSent' = TRUE /\ termSeq' = i % SeqMod
       /\ terms' = terms + 1

\* Faulty variant: the newest packet goes first.
ActiveOrderNewestFirst(i) == <<i>> \o pending

\* fcc_handle_mcast_active: what was kept goes first.
ActiveOrder(i) == Append(pending, i)

\* fcc_handle_mcast_transition and fcc_handle_mcast_active for packet i of
\* the group; those before it were lost.
MulticastArrives(i) ==
    /\ open /\ joined /\ ~failed
    /\ i >= live /\ losses + (i - live) <= MaxLosses
    /\ live' = i + 1 /\ losses' = losses + (i - live)
    /\ mcastQuiet' = 0
    /\ \/ /\ state = "MCAST_ACTIVE"
          /\ Deliver(Processed(ActiveOrder(i)))
          /\ pending' = << >>
          /\ UNCHANGED <<termSent, termSeq, failed, terms, sendFailed>>
       \/ /\ state = "MCAST_REQUESTED"
          /\ Terminate(i)
          /\ pending' = Append(pending, i)
          /\ UNCHANGED <<reorder, played, apart, failed, sendFailed>>
       \/ /\ state = "MCAST_REQUESTED" /\ ~termSent
          /\ termSeq' = i % SeqMod
          /\ failed' = TRUE /\ sendFailed' = TRUE
          /\ UNCHANGED <<reorder, played, apart, termSent, pending, terms>>
    /\ UNCHANGED <<state, server, redirects, quiet, age, joined, open, uni,
                   noise, fellBack>>

\* The group's stream goes on unheard (external).
MulticastPasses ==
    /\ open /\ ~joined /\ live <= StreamEnd
    /\ live' = live + 1
    /\ UNCHANGED <<fcc, quiet, mcast, reorder, open, uni, losses, noise, history>>

-----------------------------------------------------------------------------
(* Time.                                                                     *)

Elapse ==
    /\ open
    /\ quiet' = Older(quiet, UnicastTimeout)
    /\ age' = Older(age, SyncWait)
    /\ mcastQuiet' = Older(mcastQuiet, McastTimeout)
    /\ UNCHANGED <<state, server, redirects, termSent, termSeq, pending,
                   joined, failed, reorder, open, network, history>>

\* mcast_session_tick
McastEnds == joined /\ (failed \/ mcastQuiet >= McastTimeout)

\* Faulty variant: the transition waits for the server without limit.
TimeoutExceptTransition ==
    \/ state \in {"REQUESTED", "UNICAST_PENDING"} /\ quiet >= SignalingTimeout
    \/ state = "UNICAST_ACTIVE" /\ quiet >= UnicastTimeout

\* fcc_session_tick, the silence each state tolerates.
TimedOut ==
    \/ state \in {"REQUESTED", "UNICAST_PENDING"} /\ quiet >= SignalingTimeout
    \/ state \in {"UNICAST_ACTIVE", "MCAST_REQUESTED"} /\ quiet >= UnicastTimeout

\* stream_tick
TickCloses == open /\ McastEnds /\ Cleanup

TickFallsBack ==
    /\ open /\ ~McastEnds /\ TimedOut
    /\ Fallback
    /\ UNCHANGED <<server, redirects, quiet>>

TickSyncs ==
    /\ open /\ ~McastEnds /\ ~TimedOut
    /\ state = "UNICAST_ACTIVE" /\ age >= SyncWait
    /\ Synchronise
    /\ UNCHANGED quiet

-----------------------------------------------------------------------------
Server == \/ ServerRefuses \/ ServerAccepts \/ ServerNoise \/ ServerSyncs
          \/ \E s \in Servers : ServerRedirects(s)

Media == \/ \E i \in StreamPositions :
               UnicastArrives(i) \/ UnicastLate(i) \/ MulticastArrives(i)
         \/ UnicastNoBuffer \/ MulticastPasses

Tick == TickCloses \/ TickFallsBack \/ TickSyncs

FccNext == Server \/ Media \/ Elapse \/ Tick \/ Disconnect

FccSpec == FccInit /\ [][FccNext]_fccVars

\* Time passes and the worker ticks every 100 ms; server and network owe
\* nothing.
FairSpec == FccSpec /\ WF_fccVars(Elapse) /\ WF_fccVars(Tick)

-----------------------------------------------------------------------------
FccTypeOK ==
    /\ state \in States
    /\ server \in Servers
    /\ redirects \in 0..(MaxRedirects + 1)
    /\ termSent \in BOOLEAN
    /\ termSeq \in 0..(SeqMod - 1)
    /\ pending \in Seq(StreamPositions)
    /\ quiet \in 0..UnicastTimeout /\ age \in 0..SyncWait
    /\ joined \in BOOLEAN /\ failed \in BOOLEAN
    /\ mcastQuiet \in 0..McastTimeout
    /\ reorder \in RingType(StreamPositions)
    /\ open \in BOOLEAN
    /\ uni \in UniFirst..(StreamEnd + 1) /\ live \in LiveFirst..(StreamEnd + 1)
    /\ losses \in 0..MaxLosses /\ noise \in 0..MaxNoise
    /\ played \in Seq(StreamPositions)
    /\ terms \in Nat /\ {sendFailed, fellBack, apart} \subseteq BOOLEAN

\* The packets of both streams leave in one increasing order, none twice.
Increasing == \A k \in 1..(Len(played) - 1) : played[k] < played[k + 1]

\* So the client gets them, wherever unicast breaks off, as long as the packets
\* that the ring collected to start with lie within one window.
ClientInOrder == ~apart => Increasing

\* fcc-setup.md: "rtp2httpd seamlessly switches to the multicast stream".
\* When the network delivers all in order and the switch is not forced, the client
\* never misses a packet between its first and its newest.
Seamless ==
    losses = 0 /\ ~fellBack =>
        \A k \in 1..(Len(played) - 1) : played[k + 1] = played[k] + 1

\* A multicast packet is in the pending list or has come out of it: it is in
\* the reorder ring or the client got it, as itself or as its unicast copy,
\* unless the client's stream began after it.
Accounted ==
    \A p \in Range(pending) \ (Range(pending') \cup Buffered(reorder') \cup Range(played')) :
        played' # << >> /\ p < played'[1]

\* fcc.c keeps the multicast packets of the transition "for deferred
\* sending": once the reorder ring is past its collecting phase none of them
\* is lost, whether the unicast stream reached them or broke off.  (While it
\* collects, a kept packet whose slot is taken is dropped.)
KeptIsDelivered == [][open' /\ reorder.phase = 2 /\ ~apart => Accounted]_fccVars

\* fcc.h on fcc_session_cleanup: the server is told to stop once, in the
\* normal flow or at the end, whatever happens in between.
TerminatedOnce ==
    /\ terms <= 1
    /\ ~open /\ ~sendFailed => terms = 1

\* Through redirections, timeouts and the switch: one increasing stream for
\* the client, one stop request for the server.
FccInv == FccTypeOK /\ ClientInOrder /\ TerminatedOnce

\* Every viewer leaves the unicast phases behind: whatever the server does
\* not send, redirects or repeats, multicast takes over or the connection
\* ends.
TransitionEnds == [](open => <>(state = "MCAST_ACTIVE" \/ ~open))
=============================================================================
