# TLA+ models of rtp2httpd

The repository is a collection of some seventy OpenWrt packages. Most of them
are web forms, themes and scripts around external programs. `rtp2httpd/` is a
system of its own: a C server that turns IPTV multicast (RTP over UDP), fast
channel change servers (FCC), RTSP and HTTP upstreams into HTTP streams for
many clients, and a web player in TypeScript that plays them. Both are
concurrent, timed and fed by an unreliable network, and they are what these
modules model. C paths are relative to `rtp2httpd/src/`, TypeScript paths to
`rtp2httpd/web-ui/src/`.

## 1. The system

### The server

A supervisor process forks workers that share a listening port. A worker is
one thread around a poller (epoll or kqueue): it accepts connections, parses a
request, opens the upstream the service asks for, and moves media from
upstream sockets through pool buffers into the client's send queue. Every
100 ms it ticks all streams.

```
 supervisor --fork/SIGTERM--> worker (poller loop, tick)
                                | connection: send queue, queue limit, write scheduling
                                |   stream: one of
                                |     FCC ------ unicast --\
                                |       \--join            reorder ring (+FEC) -> client
                                |     multicast source ----/       (shared by viewers)
                                |     RTSP ----------------/
                                |     HTTP proxy --- pause/resume <- watermarks of the queue
                                | buffer pool: every packet, batch and queue entry
 status shared memory: slots with generations, read and written by all processes
```

| Component | State it keeps | Operations | What makes it correct |
|---|---|---|---|
| Buffer pool (`buffer_pool.c`) | segments, free list, counters, reference counts, views, memfds | alloc, get, put, view, snapshot, expand, shrink | nothing freed in use, nothing lost, size within limits, no grow/shrink oscillation |
| Send queue and flow control (`send_queue.c`, `connection.c`, `http_proxy.c`) | queue bytes, EWMA, slow flag, paused flag, write queue membership | enqueue, drain, pause, resume, limit update | no byte lost, no lost wake-up, paused upstreams resume |
| RTP reordering (`rtp_reorder.c`) | ring of slots, base_seq, count, phase | insert, flush, forced flush, cleanup | in order, once, nothing stored is lost, numbers wrap |
| FCC (`fcc.c`, `fcc_telecom.c`, `fcc_huawei.c`) | protocol state, server, stop position, pending list, time stamps | responses, sync, unicast and multicast media, tick, cleanup | no gap and no repetition at the switch, always ends in multicast, server told to stop |
| Supervisor (`supervisor.c`) | worker table, restart times, rate-limit and retiring flags, signal flags | spawn, reap, restart, reload, shutdown | table matches processes, restart rate held, workers come back, shutdown completes |
| Multicast sources (`multicast.c`) | sources, subscribers, shared ring, batch, receive list | join, detach, receive, batch, promote | references exact, promotion without gap, due sources are read |
| FEC (`rtp_fec.c`, `rs_fec.c`) | groups of parity packets | store, recover, expire | recovered packets are right, groups are released |
| Worker and connections (`worker.c`, `connection.c`) | connection list, fd map, write queue, status slots | accept, read, write, close, tick | no use of a closed connection, every event to its owner |
| RTSP (`rtsp.c`, `stun.c`) | protocol state, sockets, keep-alive timer | request, response, redirect, teardown | requests in order, teardown ends |
| HTTP proxy (`http_proxy.c`, `http_chunked_decoder.c`) | protocol state, header buffer, decoder state | connect, send, receive, rewrite | body passed unchanged, decoder independent of segmentation |
| Status (`status.c`) | shared slots, log ring, event pipes | register, update, disconnect, report | slots never mixed up between clients |
| Others | `m3u.c`, `epg.c`, `http_fetch.c`, `service.c`, `configuration.c`, `url_template.c`, `timezone.c`, `http.c`, `snapshot.c`, `pid_file.c`, `unix_socket.c`, `access_log.c` | parsing, caching, files | mostly conversions of text |

### The web player

```
 page (React)   channel, source, live or start time --effect--> segment list
   video-player.tsx   slot a | slot b   (one on screen, one being brought up)
     playback controller  --commands-->  transmux worker (pipeline)
       media source queue <---events---    segment source (HLS or list)
         SourceBuffers (video, audio)      fetch loader -> demux -> remux
       back-pressure ------pause/resume--> audio decoder
```

| Component | State it keeps | Operations | What makes it correct |
|---|---|---|---|
| Player slots and page (`components/player/video-player.tsx`, `pages/player.tsx`) | selection, list, two slots, pending transition, retry counters | select, seek, pause, switch, retry, fall back, foreground | selected list is loaded, nothing invisible plays, a selection settles |
| Playback controller and transmux worker (`playback-engine/mse/playback-controller.ts`, `playback-engine/worker/`) | load number, pause reasons, load loop, init cache, decoder queue | load, suspend, pause, resume, events | nothing of an old load reaches the new one, no load ends silently |
| Media source queue (`playback-engine/mse/media-source.ts`) | segments and removals waiting for each track, full flag, pending end | append, remove, init, duration, end, destroy | every segment once and in order, no blocked queue |
| Stream loader (`playback-engine/io/fetch-loader.ts`) | status, request, stash | open, chunk, pause, resume, abort | bytes in order and once, complete means complete |
| HLS source (`playback-engine/hls/`) | history of segments, index, sequence, time | refresh, ingest, next | no segment lost or repeated, breaks marked, ends |
| Others | `demux/`, `remux/`, `audio/`, `decoder/`, `render/`, `live-sync.ts`, `lib/`, status page | parsing, arithmetic, drawing | conversions |

The hard behaviours: one buffer referred to from reorder slots, send queues,
batches and pending lists at once; a limit that moves between the check and
the enqueue; two copies of a stream racing each other with loss, duplication
and wrap of sequence numbers; timeouts against late answers; processes dying
in any state of a reload; calls that fail half-way and are not looked at; in the
player, callbacks of loads that were replaced, handlers that act on state
rendered earlier, and a browser that takes its media objects away.
`PROJECT.json` lists them at their lines under `hazards`.

## 2. Modules

| Module | Models | Composes | Proofs |
|---|---|---|---|
| `BufferPool` | `buffer_pool.c` | | `BufferPoolProofs` |
| `FlowControl` | queue limit, watermarks, write scheduling of `connection.c`, queue accounting of `send_queue.c`, relay loops of `http_proxy.c` | | `FlowControlProofs` |
| `RtpReorderRing` | operators of `rtp_reorder.c` without FEC on one `rtp_reorder_t` | | |
| `RtpReorder` | one ring under a faulty network | `RtpReorderRing` | `RtpReorderProofs` |
| `FccSession` | an FCC session with its ring and its multicast subscription | `RtpReorderRing` | `RtpReorderProofs` |
| `MulticastSource` | a source of `multicast.c` with its viewers | `RtpReorderRing` for the source and for each viewer | `MulticastSourceProofs` |
| `Supervisor` | `supervisor.c` | | `SupervisorProofs` |
| `MediaSourceQueue` | `media-source.ts` with the callbacks of the controller | | `MediaPathProofs` |
| `TransmuxSession` | controller, worker and the channels between them | | `TransmuxSessionProofs` |
| `ByteFeed` | what a loader promises its consumer | | |
| `FetchLoader` | `fetch-loader.ts` | implements `ByteFeed` | `MediaPathProofs` |
| `HlsSource` | `hls-source.ts`, the media playlist parser of `m3u8.ts` | | |
| `PlayerSlots` | the two slots of `video-player.tsx` and the page | | `PlayerSlotsProofs` |

`MC*` modules hold the constants of the runs.

**BufferPool.** `segments`, `size`, `segFree`, `freeList`, `numBuffers`,
`numFree`, `refcount` and `owner` are the fields of the C structures; the free
list is a set, because no caller depends on which buffer it gets, except that
`AllocExpand` pops one of the new segment. `holders` and `viewHolders` record
who owes a `buffer_ref_put`; the program keeps no such record, the callers do.
Each function is an action; the shrink is one step per segment of its walk,
with all other calls disabled meanwhile, as a worker has one thread.

**FlowControl.** One relayed response. `pc` says which receive loop of the
upstream handler is running; `bytes` is what the queue holds and `slots` the
buffers that hold it, `avg`, `since` and `slow` the slow-client detector,
`paused`, `pending` and `armed` what keeps the relay going. A `recv()` brings
any size of `Sizes`; the model does not keep which buffer holds how much, so a
partial write pops any number of buffers that its bytes can have filled
(`Consume`). A transfer ends in either loop, with the last byte of
Content-Length or as an event of the socket, also while it is paused. The rest of the worker is `load`: streams, pool size and buffers in use
elsewhere, all of which enter the limit. Floating-point factors are integers
in tenths and hundredths.

**RtpReorderRing, RtpReorder.** A packet is its position in the sender's
stream; the code sees it modulo `SeqMod`. `InsertPacket` is
`rtp_reorder_insert`, with one operator for each way through it.
`count` has its 16 bits (`CountMod`): a surplus count wraps as in the code.
`RtpReorder` feeds a ring with any packet from `MaxLate` behind to `MaxJump`
ahead of the newest one.

**FccSession.** `fcc_session_t` field by field, `mcast_session_t` as `joined`,
`failed` and the age of the source's data, and the viewer's ring. Time stamps
are kept as ages that `Elapse` advances and saturates at the timeout they are
compared with. The two vendors' responses refuse, accept or redirect; layouts
are not modelled. `Fallback` is every move to MCAST_ACTIVE other than reaching
the termination sequence. An answer that refuses or accepts may name another
address of the server. A join and a stop message may fail; a join finds a
source that is new or one that other viewers keep, whose data is of any age
(`mcastQuiet`). Unicast packets may be lost, repeated or overtaken
(`UnicastLate`), those of the group only lost: what comes out of order there
is the subject of `RtpReorder` and `MulticastSource`. A packet goes
through `Handled` (`stream_process_rtp_payload`), a batch that was kept through
`Processed`, packet by packet; both work on the ring together with what the
client got. `played`, `terms`, `sendFailed`, `fellBack` and `apart` are history;
`apart` says that packets which do not lie within one window were collected
before the ring delivered anything. A `stream_tick` that fails before headers were sent answers 503 and closes a little later;
the model closes at once.

**MulticastSource.** `subscribers`, `packetSubs`, `refs`, `clients`, `shared`,
`sring` and `batch` are the fields of `mcast_source_t`, `owner` is the source's
entry in the fd map, and `viewer` holds for each session whether it is batched
or failed, what its FCC session keeps, whether it is a snapshot, and its ring.
`Process` is the whole of `mcast_source_process_packet`: private delivery, the
shared ring, the batch, promotion. The network is the newest packet and at most
one that was overtaken; packets get lost or come again. A view, a batch or a
window that cannot be allocated is a choice of the step (`fail`, `noBatch`).
How an FCC session gets to its join and to MCAST_ACTIVE is `FccSession`'s
business, `FccActive` is the outcome. `since`, `last`, `replayed`, `skipped` and
`hurt` are history. A connection that is closing is detached at once.

**Supervisor.** `pc` is the position in `supervisor_run`'s loop; the worker
table is `pid`, `times`, `rateLimited` and `retiring` by index; `proc` is what
the kernel knows of each process. Workers crash or exit between any two steps
and signals set their flags at any time. What a reload reads and restores is
one outcome: it fails as a whole, or gives a new worker count and tells whether
the bind addresses changed.

**MediaSourceQueue.** The page has one thread, so an event handler is one step
on the record `m`, which holds the variables of `media-source.ts`, the two pause
flags of the controller, whether its watermark is on (`throttled`, set by the
`hls-info` of a playlist with an end) and the browser's media objects: what each
SourceBuffer is doing and holds, whether the source is open, streaming or broken. Appends and
removals end in a step of the browser (`UpdateEnd`). Handlers that call each
other are operators on `m`, in the code's order. The worker is a script of
messages that it stops posting a little after it was told to pause.

**TransmuxSession.** `page` is the controller's variables, `wk` the worker with
its pipeline, `commands` and `events` are the two ordered channels. A task runs
to its end together with the promise reactions it causes; fetches, the decoder
and the media source answer in tasks of their own. `pipe.at` is where the load
loop stands: at a gate, asking the source for a segment, waiting for an init
segment's response (`init`) or its body (`body`), or loading. What a loader's
last flush, the end of a source or the restart of a live stream makes the
demuxer emit is one of `Flushes`; an error among it does not end the load,
because the loader has reported completion before (`pipeline.ts`, `onComplete`). `LoadSource` gets lists of one segment
or more, as the page never loads an empty one (`video-player.tsx:1060`). Data is the load it was made for (`src`), next to the
number the worker stamps it with (`gen`); `NoStaleData` is the claim that the
page never takes the one for the other.

**FetchLoader, ByteFeed.** A byte is its request and its position. Requests
that were aborted stay until their pending read settles. `taken` records the
bytes the consumer took with the position it was told, and is all `ByteFeed`
sees, with the number of the request and the outcome: `FeedsInOrder` is the
refinement, with the identity on these three variables as its mapping.
A failing load flushes its stash once more, and a consumer that throws there
keeps the error from being reported (`Unreported`): the status is then `error`,
the one exception in `LoadEnds`. In `TransmuxSession`, where `LoaderFails` is a
failure that was reported, such a load stays at `load`.

**HlsSource.** The server's playlist is a sequence of tagged lines and is parsed
line by line (`AfterLine`, a fold, as in `parseMedia`). `s` is the state of the
source; `at` says whether `next()` waits for a refresh or a fetch. A preloaded
playlist that does not parse counts as a failure (`PreloadedInvalid`). The server
publishes and forgets segments between any two steps.

**PlayerSlots.** React state comes in pairs, as last set and as last rendered
(`want`/`page`, `next`/`list`, `queued`/`seen`); refs and the two slots are
`player`. Handlers read what was rendered and queue what is to be rendered;
`Render` makes it visible and runs the effects, the one of the seamless setting
(also a pair, `seamless`) before the one on a new list. `dead` stands for a media
element with `error` set. `hidden` is a page in the background, where the browser
may pause the media or close its source, or there with a picture in picture,
which goes on and for which the return does nothing; a picture in picture of a
visible page only vetoes seamless switches, rendering by rendering. A refused
`play()` asks for a click only when it was refused for want of one. `playing` events are queued and
marked old when the slot is loaded again before they are handled, which is what
the comparison of `eventTimeStamp` with `startedAt` finds out. Segment lists
are a stream and a start; the page makes a new list for every start, so starts
are numbered and only told apart. `forgotten` is
history: a list was passed over by one of the two known ways (section 4).

## 3. Runs

| Run | Shows |
|---|---|
| `pool` | nothing is used after its segment is given back (`NoUseAfterFree`); reference counts, free list and cached counters exact, no descriptor left open (`PoolInv`); size between initial and maximum (`SizeInBounds`); a shrink is not undone by the next allocation (`NoThrash`) |
| `flow_relay` | while a connection drains, a write is pending or armed, and so it is while an upstream is paused on at least a batch (`FlowInv`); bytes are lost only when the limit moves between check and enqueue; a relay never stands still with both sides waiting but on less than a batch (`RelayProgress`); a finished transfer drains and closes |
| `reorder_window` | the window is aligned and its count covers it (`RingInv`); order, and nothing stored is lost, across the wrap (`Reordered`) |
| `supervisor` | table and processes agree, restart rate holds, nobody wanted is forgotten (`TableInv`); shutdown ends and leaves nobody; as long as `fork()` works every wanted worker comes back |
| `fcc_handover` | one increasing stream at the client, as long as the packets collected first lie within one window, and one stop request (`FccInv`); no gap when nothing forced the switch (`Seamless`); kept packets are not lost (`KeptIsDelivered`); every session ends in multicast or is closed (`TransitionEnds`) |
| `multicast` | a viewer's way from single packets into the batches and back neither repeats nor skips a packet, whatever becomes of the other viewers (`HandoffIntact`); counts, lists and the owner of the socket's events agree with the sessions (`RegistryInv`) |
| `append_queue` | what a track was given is what was appended followed by what waits (`Lossless`); no removal blocks the queue for good (`QueueInv`); both tracks get a SourceBuffer (`BothAttached`); back-pressure always lets the worker go on (`FeedGoesOn`) |
| `transmux_session` | nothing of a replaced load reaches the new one (`NoStaleData`); page and worker agree on the pause and a resume wakes everything (`SessionInv`); no load ends in silence; a paused worker starts no request |
| `fetch_loader` | the loader implements `ByteFeed`; complete means complete; one request is read at a time; a load ends |
| `hls_source` | every segment of a playlist that was read is returned once and in order (`SeenIsKept`), on a timeline without holes (`SourceInv`), with a reset exactly at the breaks; the source ends |
| `player_slots` | no invisible stream goes on and the retry budget is kept (`PlayerInv`); the slot to be shown holds the selected list (`LoadedIsSelected`); the picture moves only to a stream that plays; every selection settles |
| `player_foreground` | expected to fail: a live media source closed in the background is not reloaded when the page returns (quotes under `findings`) |

Invariants are bundled by component: the conjuncts are named definitions of
their own in the modules (`TypeOK`, `RefcountExact`, `ChildrenTracked` and so
on), so that a violation is easily narrowed down. Every property of a passing
run has a mutant in `PROJECT.json`: a faulty variant of a definition, kept in
front of it in its module, under which TLC finds the property violated.

### Bounds, and why they are enough

The theorems of section 5 hold for every value of the constants; for the
modules they are about, the bounds matter for liveness only.

- Pool: three segments, two views, two holders, sizes 1, 2 and 1, so that a
  capped expansion, a walk that frees one segment and keeps another, and a view
  of a view all occur.
- Flow control: the code's constants divided by eight, in units of 768 bytes;
  the ratios between minimum share, watermarks and batch are those of the code.
  The floor of four buffers is the code's, and the budget of one write is half
  of its size, so that a queue can exceed it. A `recv()` fills a buffer or half
  of it: full buffers at the lowest watermark are a batch, half-filled ones are
  not, and every mixture of them occurs. Other clients hold nothing, so much of
  the pool that this client tips the burst factor, or so much that it runs out,
  and this may change between any two steps.
- Reordering: a window of 8 instead of 32, 3 instead of 8 packets to start
  with and sequence numbers of 6 bits that wrap during the run. `MaxLate` and
  `MaxJump` exceed the window, so forced flushes and late packets a lap away
  occur. `InitSpread` keeps the packets collected first within one window;
  outside of it the code does not order (section 4).
- FCC: a window of 4, three packets to start with, sequence numbers of 5 bits
  that wrap at the switch, one lost packet, one repeated or late one, one
  redirection, and a stream that
  reaches far enough beyond the switch for a forced flush. Unicast runs at most
  `MaxLead` ahead of multicast and sends fewer than a window of packets after
  it was told where to stop: 32 packets are some 25 ms of a stream, more than
  the round trip to an access network's server. Timeouts keep their order,
  signaling before unicast and multicast. `StreamEnd` keeps a session within
  half the range of the numbers from its first packet: 32767 packets, some 25 s,
  in which the switch lies; a stream of any length is the subject of
  `RtpReorder`.
- Multicast: two viewers that join twice between them, batches of two packets,
  a stream of five packets whose numbers wrap, one mishap (a packet lost or
  repeated, an allocation that fails) and any number of packets overtaken one
  at a time. A window of 3 makes a lost packet lead to a forced flush within
  that stream. As in `RtpReorder`, packets are not delayed beyond the window and
  those collected first lie within one; that holds for a repeated packet too,
  which is the first copy of it for whoever lost the other. The stream that is
  sent is shorter than half the range of the numbers (`SourceAssumption`), as for FCC.
- Supervisor: two indexes and three process identities, so that a process
  which has not been reaped and its successor exist together; two restarts in
  the window; three signals or crashes and one failed fork. Restart limits,
  reload and shutdown then meet in every order.
- Append queue: scripts with both tracks, an unsupported codec and a change of
  codec, on a timeline of seven units with SourceBuffers that hold three, so
  that quota errors, removals and a second full phase occur; two upsets (a seek,
  a source closed, an element that breaks, a managed source that stops), which
  may meet.
- Transmux session: three loads or suspensions of three kinds of source, so
  that one load replaces another while a third is on its way; one event and one
  command under way next to an audio frame in the decoder and any number of
  abandoned init requests. The bound on a channel only keeps further tasks from
  starting while a message waits; one task may post several. With two instead
  of one (1 319 829 states) the properties hold as well.
- Loader: responses of up to four bytes in chunks of up to three with packets of
  two, so that a leftover, a leftover of a leftover and an empty stash occur;
  three requests, so that an abandoned read outlives two restarts.
- HLS: ten segments, a server window of five against history limits of two and
  one, so that refreshes overlap, leave gaps and trim; two periods; two failures.
- Player: two channels with two sources, one stream with catch-up, one broken,
  one retry instead of three, three user actions and one fault of a stream or of
  the browser (errors of the broken stream are not counted as faults). Two
  transitions can so overlap with an error, a seek or a return to the
  foreground.

### Fairness

- `FlowControl`: a receive loop that was entered goes on (it is a C loop), the
  worker drains its write queue on each turn, and the client reads. Upstream
  events can come between any two writes, hence strong fairness there.
- `Supervisor`: the supervisor's own loop runs, time passes during its sleeps,
  and a worker that got SIGTERM from a reload or restart exits; the code waits
  for that without a timeout. Once the supervisor stops, nothing is assumed of
  the workers: the shutdown has a timeout.
- `FccSession`: time passes and the worker ticks. Servers and networks owe
  nothing; packets of the server that are ignored, each of which postpones the
  timeout, are finite (`MaxNoise`): a server that sends one every 80 ms keeps a
  session in its first state for ever.
- `MediaSourceQueue`: the browser ends the operations it began, plays what is
  buffered, and asks a managed source for more when it has run out; the worker
  handles its commands and goes on unless paused. `HlsSource`: the load loop
  asks, timers fire, requests end one way or the other, the server goes on and
  closes its playlist in the end. In both some conditions are weak fairness
  written out (`[]<>~guard \/ []<><<A>>_vars`), because TLC's `ENABLED` cannot
  evaluate handlers of that depth; the guard is exactly what enables the action.
- `FetchLoader`: requests are answered, and a pause ends.
- `PlayerSlots`: React renders what is queued, queued events are dispatched, a
  stream that can play begins to, and a broken one fails in the end. Nothing is
  assumed of the user.
- `TransmuxSession` has safety properties only.

Deadlock is checked for the pool. The other systems may stop: a closed
connection, a stream at its end, a supervisor that is done, a bound reached.

## 4. Where code and intent part

Met while modelling. Only the last has a run (`player_foreground`); the
properties of the passing runs leave these cases out by a condition in the
property or, where said, by a constant of the run. In the server:

- `connection.c:391`: the limit checked before reading is not the one applied
  when queueing. A client declared slow in between loses relayed bytes, although
  the comment at `http_proxy.c:928` rules it out; hence
  `LossOnlyWhenLimitMoves` and not "no loss". The slow clamp
  (`connection.c:345`) takes the limit to 0.8 of the value that the comment at
  `connection.c:434` calls its lower bound.
- `connection.c:1321`: watermarks count capacity, the flush threshold counts
  payload. With small payloads and a limit of 64 buffers the upstream is paused
  before any write is scheduled, and nothing of this connection resumes it. The
  model reaches that state (`Stalled`). `StalledBelowBatch` says that it is the
  only one in which a paused upstream has no writer: buffers of at least the
  lowest high watermark with less than a batch in them. `RelayProgress` excepts
  exactly a relay that stays there.
- `connection.c:288`: a pool configured for 65 to 111 buffers has a queue limit
  of fewer buffers than the 48 below which `connection.c:450` never pauses, so
  a relay loses bytes without the limit moving. `HeadRoomAssumption` leaves
  these configurations out; a pool starts with 128 buffers and by default has
  16384.
- `rtp_reorder.c:257`: after a hole is given up, what has become consecutive
  stays in the ring; the stream remains a window behind.
  `rtp_reorder.c:244`: a duplicate of the packet at `base_seq` is then counted
  twice, so that `CountCovers` is an inequality; nothing takes the surplus
  away, and only the width of `count` would end it. Order and losslessness do
  not depend on it (section 5).
- `rtp_reorder.c:201`: while the ring collects its
  first packets, it looks at whether a slot is free and not at how far a number
  is from `base_seq`. FCC makes this happen without any loss: unicast falls
  silent after fewer than 8 packets, the session falls back to multicast, and
  the group is more than a window ahead. The packets then leave in the order of
  their slots, a newer one before an older one, or are dropped on an occupied
  slot (`rtp_reorder.c:206`). Hence `apart`, the condition in `ClientInOrder`
  and `KeptIsDelivered`; a ring that delivers is past this. (Without `apart`, TLC
  finds such an end of unicast: packets 28, 33 and 31 leave in this order.) The
  comment at `rtp_reorder.h:19` expects the packets collected first to be
  reordered properly.
- `supervisor.c:365`: a failed `fork()` in a restart clears the mark and loses
  the worker for good; `DownIsMarked` and `WorkersComeBack` are about runs in
  which `fork()` works.
- `fcc.c:354`: the result of a join in a fallback is ignored; a failed one
  leaves a viewer in MCAST_ACTIVE without a source and without any timeout.
  `fcc.c:706`: a first multicast packet numbered 65534 makes the stop position
  0, which `fcc_telecom.c:60` and `fcc_huawei.c:96` take for "stop at once".

In the player:

- `mse/media-source.ts:219`: a segment that did not fit is tried again by the
  next segment, seek or removal only; at the end of the stream there is none.
  `:541`: an end of stream that finds no updating buffer does not wait for
  segments still queued.
- `mse/playback-controller.ts:412`: a closed source pauses the worker, but a
  pause for back-pressure is still on record and its end resumes the worker;
  `PauseAgrees` is about an open source.
- `hls/hls-source.ts:117`: an empty first playlist moves playback from the live
  edge to the oldest segment of the next one.
- `io/fetch-loader.ts:565`: the flush of a load that fails can throw from the
  consumer; `onError` is then never called and the load neither ends nor fails.
  `LoadEnds` leaves exactly that out.
- `worker/pipeline.ts:565`: a live server that ends each response at once is
  asked again without delay. `io/fetch-loader.ts:521`: a consumer that takes
  nothing makes the stash grow without limit; the model's consumer leaves less
  than a packet.
- `video-player.tsx:768`: the retry of a catch-up list skips the next list,
  whichever it is; a channel chosen before the next rendering is shown but not
  loaded. `:1160`: switching seamless switching off during a transition stops
  the new stream and leaves the old one. `player.tsx:203`: a live stream that
  failed and is selected again is the same list and is not loaded. These set
  `forgotten`.
- `video-player.tsx:436`: a return to live while paused clears
  `shouldAutoPlayRef`, which the comment at `:355` says is true for "go live".
  `:759`: after a live retry, whose list does not change, `isRetrySeekRef` stays
  set and keeps the counters of the next list of the same stream.
- A broken catch-up stream whose channel falls back to a source without
  catch-up is sent back to the first by the page's effect, with fresh counters.
  The run's broken stream is in another channel than the one with catch-up.
- `video-player.tsx:1290` (`player_foreground`): a live session that died in
  the background asks for the list it already has, and nothing is loaded.

## 5. Proofs

`BufferPoolProofs` proves, for every set of segments, views and holders and
every pool configuration that satisfies `PoolSizes`, `Hysteresis` and
`Distinct`:

- `PoolInvariant`: `Spec => []PoolInv`;
- `PoolTypes`, `PoolMemorySafety`, `PoolCapacity`: the parts of it named
  `TypeOK`, `NoUseAfterFree`, `FreeIffUnreferenced`, `SizeInBounds` and
  `FreeCountsExact`;
- `PoolHysteresis`: the action property `NoThrash`.

None of the safety properties is inductive alone. That a freed segment is not
in use needs that its free counter is exact; that the counter stays exact needs
that a buffer returns to the free list only with its last reference; that
needs exact reference counts, which in turn need that views keep their owner
alive. `PoolInv` is the conjunction of all of them with two facts about the
shrink and about segment sizes (`ShrinkLoop`, `SegmentSizes`). There is one
lemma per action; `CountsAfterPop` and `CountsAfterPush` carry the counting
arguments, `ReferenceCounts` and `FreeSegment` the links between the parts.
`NoThrash` follows from `ShrinkLoop`, the size of a segment and `Hysteresis`,
which holds for the three pools the code configures.

`FlowControlProofs`, for every pool, every size of what `recv()` returns, socket
behaviour and load that satisfies `FlowAssumption` and `HeadRoomAssumption`:

- `FlowInvariant`: `Spec => []FlowInv`. No assumption on payloads is made. A
  queue that no write was scheduled for is less than a batch and as full as
  `recv()` made it (`LessThanBatch`), and a pause needs buffers of the lowest
  high watermark (`BuffersAtWatermark`), so a paused upstream without a writer
  is the stall of `connection.c:1321` and nothing else (`StalledBelowBatch`).
  That the last write resumes needs that a paused upstream waits for queued
  bytes (`PausedOnBytes`), which needs that a queued buffer holds a byte
  (`QueueShape`).
- `FullBuffersNeverStall`: when every `recv()` brings so much that the lowest
  high watermark in such buffers is a batch, 1366 of 1536 bytes with the
  constants of the code, `Spec => []~Stalled`. The condition is the theorem's
  own hypothesis; `recv()` does not promise it.
- `LossNeedsMovedLimit`: the action property `LossOnlyWhenLimitMoves`. The limit
  is monotone in the pool's size and in the burst factor (`FairShare`,
  `LimitGrows`), and below the high watermark of a limit there is room for a
  buffer under any limit that is no smaller (`RoomBelowWatermark`).

`SupervisorProofs`, for any number of workers, restarts, signals and crashes
(`SupervisorAssumption`; there are at least as many process identities as
workers):

- `TableInvariant`: `Spec => []TableInv`, the conjunction of `TypeOK`,
  `ChildrenTracked`, `RestartRateHeld` and `DownIsMarked`. Each process is in
  exactly one entry of the table, which makes a reaped process clear the right
  one; the restart window is exact because the ring of times holds the last
  restarts in order.
- `NoWorkerLeftBehind`: `Spec => []NoneLeftBehind`, from `ChildrenTracked`: who
  is not in the table is not running, and the shutdown empties the table.

`TransmuxSessionProofs`, for any number of loads and channels of any length
(`SessionAssumption`):

- `SessionInvariant`: `Spec => []SessionInv`. Commands on their way are loads in
  the order of their numbers, each for a pipeline that will exist
  (`QueueOrdered`), what comes back was made for the load its stamp names
  (`Addressed`), of a load whose source is not open nobody has heard
  (`NothingYet`), page and worker agree on the pause once the
  commands between them are counted (`PauseAgrees`), a worker that is not paused
  holds nothing back (`NothingHeldBack`), and a load is under way or was
  reported (`LoadUnderWay`);
- `NothingStaleIsPlayed`, `NoSilentEnd`: `NoStaleData` and `EndIsReported`;
- `PauseHolds`: the action property `PausedIsQuiet`.

`PlayerSlotsProofs`, for any set of channels, sources and streams, any retry
limit and any number of actions and faults (`PlayerAssumption`):

- `PlayerInvariant`: `Spec => []PlayerInv`. Handlers leave alone what is
  rendered, rendering leaves alone what handlers decide, so the argument is
  split: `HandlerStep` for the former, `Render` and its effects for the latter.
  That the slot to be shown has the selected list (`TargetHoldsList`) fails
  exactly while an effect is to come or a list is to be skipped; that the
  skipped list is still to come needs that starts only grow (`StartsOrdered`).
- `SelectedListIsLoaded`: `Spec => []LoadedIsSelected`;
- `PictureFollowsPlayback`: the action property `RevealedHasStarted`.

`RtpReorderProofs`, for every window, every range of sequence numbers that is
a multiple of it, and every network whose packets lag and jump, with a window
between them, less than half that range (`RingAssumption`,
`ReorderAssumption`):

- `WindowInvariant`: `Spec => []WindowInv`. The code knows numbers only; the
  invariant says that there is one position of the stream (`WindowAt`) whose
  number is `base_seq`, which everything delivered precedes and from which
  everything stored lies less than a window away, in its own slot. Then a slot
  determines the position it holds (`SlotContent`, from `ModSame`: positions
  less than a window apart with the same remainder are equal), and the signed
  difference of numbers is that of positions (`DiffIs`).
- `ReorderedDelivery`: the action property `Reordered`. Each flush delivers
  ascending positions between the old and the new begin of the window and with
  what is left they are all that was stored (`Delivered`; `FlushDelivers` for
  the run up to the first hole, `ForceDelivers` and `HeldInOrder` for what a
  packet beyond the window pushes out).

The module goes on with `FccSession`, where unicast, the group and the packets
kept from it feed the same ring, for every window of at least two slots, any
number of redirections, losses, repetitions, late packets and answers without
effect, and every lead and overrun below the window (`RingAssumption`, `FccAssumption`):

- `FccInvariant`: `FccSpec => []FccInv`, from `FccIInv`. Next to the types it says
  how often the server was told to stop, that the packets kept ascend from the
  stop position and precede the next one of the group (`Bookkeeping`), and that
  there is a position at which the ring's window begins and which all the client
  got precedes (`FlowInOrder`). The latter needs one thing more: as long as the
  group has packets to come that unicast has not passed, nothing from the first
  of them (`Mark`) on was given up (`NoHole`), or a kept packet would be too late.
  Unicast cannot push it out, as it stays less than a window ahead of that packet
  (`UnicastNear`).
- `KeptPacketsDelivered`: the action property `KeptIsDelivered`, from the same
  invariant. `HandleFlows` is the step for one packet, `ProcessedFlows` for the
  kept ones in their order.
- `SeamlessSwitch`: `FccSpec => []Seamless`, from `SmoothSwitch`: when nothing was
  lost, out of order or forced there is a position up to which the client got every packet, or
  the ring that still collects holds every packet and counts them right (`Full`),
  so that nothing waits for a hole or is given up; what is kept from the group
  is without a hole as well (`SwitchAt`), and the switch happens no earlier than
  what was delivered reaches it (`ReachedIs`).

`MulticastSourceProofs`, on what `RtpReorderProofs` shows of one ring, for any
number of viewers, any size of a batch and any number of mishaps
(`RingAssumption`, `SourceAssumption`):

- `RegistryInvariant`: `SourceSpec => []RegistryInv`, from `SourceIInv`. The code
  keeps the same facts three times over: in the list of subscribers, in the list
  of those that want single packets, and in the counts. `Registered` ties them to
  the sessions: both lists are without repetition (`Distinct`), which makes a
  list as long as its set is large (`DistinctCount`), and the second list holds
  the subscribers that are not batched. That a list stays so follows for each of
  the ways the code changes it: a viewer in front (`PushIs`), some taken out
  (`WithoutIs`), the batched ones moved over (`ReverseIs`, `JoinedIs`). Delivery
  changes no role except by promotion; what it does to rings, batch and pending
  lists is `Supplied`, in the order of the code from one packet of one viewer
  (`PlayedTyped`) to the whole of a step (`ProcessStep`).
- `SeamlessHandoff`: `SourceSpec => []HandoffIntact`, from `SourceIInv` and `Flow`.
  A viewer on its own has a position in the stream that all its client got
  precedes; while nothing is lost and memory lasts, each packet since it joined
  was delivered, or is in its ring, kept by its FCC session or still on the wire
  (`InFlow`). A viewer
  of the batches has got less than that while a batch is under way; what is
  invariant is the session as it will be when the batch is handed out, with the
  source's ring for its own (`Effective`). Promotion would fall out of the
  induction there: the two rings agree on `base_seq`, which says nothing yet of
  what the source's ring delivered and where it holds a packet. So `Flow` also
  follows that ring as if, for every viewer, somebody had been watching it since
  that viewer joined (`Watcher`); at an equal `base_seq` the two have the same
  position, as both lie within half the range of the numbers, and what the
  watcher knows is what the viewer takes over. The bound on the packets collected
  first is needed: without it the ring repeats or leaves out a packet, as in
  section 4.

`MediaPathProofs`, about `MediaSourceQueue`, for every script of messages, every
quota and thresholds, and any number of upsets (`QueueAssumption`):

- `AppendsLossless`: `Spec => []Lossless`;
- `RemovalsGoOn`: `Spec => []RemovalsUnderWay`, the part of `QueueInv` that no
  removal waits for an operation nobody began.

Both come from `KeepInv`. The handlers call each other in loops over the tracks
and over deferred init segments, so the argument has one lemma per operator:
each takes a player `s` to one in which nothing of a track was lost and no
removal was left behind (`Kept`), and an action is a composition of them. The
invariant is wider than the properties in one place, a source that the browser
closed, where removals may wait for good; and it says that before the source
opens there are no buffers and no removals, without which opening could find a
removal nobody starts.

The same module has the proofs about `FetchLoader`, the other end of that way, for
every packet size, chunking, response length and number of requests
(`LoaderAssumption`):

- `LoaderInvariant`: `LoaderSpec => []LoaderInv`: one request at most is not aborted
  (`OneRequest`), and what was taken, what is stashed and what is still to
  come are adjacent pieces of one response (`InPlace`);
- `LoaderFeedsInOrder`: `FetchLoader` implements `ByteFeed`, initial states and
  steps, by `InPlace`;
- `CompleteMeansWhole`: `LoaderSpec => []CompleteIsWhole`.

Where a proof needs an induction over numbers, a least counterexample stands in
(`LeastNat`, from `WFMin`); the recursive functions of `MediaSourceQueue`,
`FccSession` and `MulticastSource` are shown to exist the same way (`OthersExist`, `BuffersExist`,
`InitsExist`, `UptoExists`, `RunsExist`).

Only model-checked:

- `CountCovers` of `RtpReorder`, which is not inductive, as no bound on the
  number of duplicates is part of the state;
- of `MediaSourceQueue`, the `TypeOK` part of `QueueInv` (the proofs carry only
  the types they need, not the quota of a buffer or the shape of its ranges),
  and `BothAttached`, which depends on the script giving both init segments
  before media;
- the safety properties of `HlsSource`, whose operators fold over the lines and
  segments of a playlist: nested inductions over data that the prover has no
  rule for (those over one list are unrolled with `LeastNat`);
- all liveness, which is out of the prover's reach.

## 6. Not modelled

`components` in `PROJECT.json` gives the reason for each part. Text processing
(URLs, templates, playlists, dates, HTTP headers) has no interleavings and is
covered by the repository's own tables of cases. The arithmetic of Reed-Solomon
codes, of codec headers and of audio resampling is too large for TLC and is
straight-line code. Demuxer and remuxer appear through how much of a chunk they
take and what they emit.

Most of the repository's JavaScript is in LuCI pages of unrelated packages
(bandix, netwiz, OpenClash and others): forms, charts and tables that poll a
back end and redraw. They share no state with each other or with rtp2httpd,
and modelling them would describe screens. The models therefore cover a small
share of the repository's lines, and a large one of those that decide anything
concurrently: the player's loading, queueing and switching, and the server's
core.

## 7. Plan

1. The rest of `multicast.c`: receive coalescing, several sources in one table,
   bare MPEG-TS.
2. FEC mode of the ring with `rtp_fec.c`.
3. `Worker`: the event batch, fd reuse, deferred close, status slots with
   generations.
4. `HttpProxy` with the chunked decoder, `Rtsp`, `PidFile`.
