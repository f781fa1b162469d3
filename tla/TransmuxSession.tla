-------------------------- MODULE TransmuxSession ---------------------------
(* A playback session of the web player across its two threads: the          *)
(* controller on the page (mse/playback-controller.ts) and the transmux      *)
(* worker (worker/transmux-worker.ts, worker/pipeline.ts), which exchange    *)
(* commands and events over two ordered channels.  A load is numbered by the *)
(* page (mseGeneration); the worker stamps an event with the number of the   *)
(* last load it was told of, not with that of the code that posts it, so     *)
(* nothing of a superseded load may ever get as far as post().               *)
(*                                                                           *)
(* Each thread runs one task to its end with the promise reactions it causes *)
(* (a task is one step); the network, the decoder and the browser's media    *)
(* objects answer in tasks of their own.  Data is abstracted to the load it  *)
(* belongs to (src).  _runId and _audioGen are compared with their current   *)
(* value only: what a bump makes stale is kept apart instead of numbered.    *)
(* Media info for display is left out.                                       *)
EXTENDS Naturals, Sequences

CONSTANTS
    Kinds,          \* the sources loaded: "hls", "continuous-live-ts", "static-ts-list"
    ListLength,     \* segments of a static list
    MaxGen,         \* bound: loads and suspensions
    MaxEvents,      \* bound: events on the way to the page
    MaxFrames,      \* bound: audio frames that wait for the decoder
    MaxCommands     \* bound: commands on the way to the worker

ASSUME SessionAssumption ==
    /\ Kinds \subseteq {"hls", "continuous-live-ts", "static-ts-list"}
    /\ ListLength \in Nat \ {0}     \* the page loads no empty list (video-player.tsx:1060)
    /\ {MaxGen, MaxEvents, MaxFrames, MaxCommands} \subseteq Nat

VARIABLES
    page,           \* the controller
    commands,       \* posted to the worker
    wk,             \* the worker
    events          \* posted to the page

vars == <<page, commands, wk, events>>

Gen == 0..MaxGen

\* A pipeline before its first load.  at is where its load loop stands ("init"
\* until the init segment is answered, "body" while it is read), ioctl the
\* state of the FetchLoader of a loop that stands at "load".
NewPipeline ==
    [src |-> 0, mode |-> "static-ts-list", at |-> "none", gate |-> "none", ioctl |-> "none",
     paused |-> FALSE, left |-> 0, known |-> FALSE]
NoPipeline == [NewPipeline EXCEPT !.at = "gone"]

Init ==
    /\ page = [gen |-> 0, mse |-> "none", pending |-> "none", alive |-> TRUE, initialized |-> FALSE,
               throttle |-> FALSE, watermark |-> FALSE, full |-> FALSE,
               pendingInits |-> {}, pcm |-> << >>, appended |-> {}, answered |-> FALSE]
    /\ commands = << >>
    /\ wk = [gen |-> 0, pipe |-> NoPipeline,
             stale |-> {},      \* loads whose init segment is still being fetched
             frames |-> << >>,  \* audio frames on their way through the decoder
             out |-> << >>]     \* what the running task posts
    /\ events = << >>

-----------------------------------------------------------------------------
(* The worker: pipeline.ts.  Operators map a worker record to the next one.  *)

Post(w, types) ==
    [w EXCEPT !.out = @ \o [i \in DOMAIN types |->
                              [type |-> types[i], gen |-> w.gen, src |-> w.pipe.src]]]

At(w, where) == [w EXCEPT !.pipe.at = where, !.pipe.gate = "none"]

\* Faulty variant: only the top of the loop waits.
GatedAtTop(w, step) ==
    IF w.pipe.paused /\ step = "next"
    THEN [At(w, "gate") EXCEPT !.pipe.gate = step] ELSE At(w, step)

\* _waitIfPaused in front of a step of the loop
Gated(w, step) ==
    IF w.pipe.paused THEN [At(w, "gate") EXCEPT !.pipe.gate = step] ELSE At(w, step)

\* _resetAudioTiming: what is on its way through the decoder becomes stale.
ResetAudio(w) == [w EXCEPT !.frames = [i \in DOMAIN @ |-> [@[i] EXCEPT !.fresh = FALSE]]]

\* _loadSegment, up to the request
Load(w) ==
    LET l == Gated(w, "load")
    IN  IF l.pipe.at = "load" THEN [l EXCEPT !.pipe.ioctl = "connecting"] ELSE l

\* The loop asks for the next segment.  A list and a live stream know it
\* (segment-source.ts); an HLS source may have to wait for its playlist.
NextSegment(w) ==
    LET n == Gated(w, "next")
        p == n.pipe
    IN  IF p.at = "gate" \/ p.mode = "hls" THEN n
        ELSE IF p.mode = "continuous-live-ts" THEN Load(n)
        ELSE IF p.left = 0 THEN At(Post(n, <<"complete">>), "none")
        ELSE Load([n EXCEPT !.pipe.left = @ - 1])

\* _teardown, with _runId++ before it: an init segment that is being fetched is
\* not aborted, every other request is.
Teardown(w) ==
    [w EXCEPT !.stale = IF w.pipe.at \in {"init", "body"} THEN @ \cup {w.pipe.src} ELSE @,
              !.pipe.at = "none", !.pipe.gate = "none", !.pipe.ioctl = "none", !.pipe.paused = FALSE,
              !.pipe.mode = "static-ts-list", !.pipe.known = FALSE]

\* _load
LoadSource(w, kind) ==
    NextSegment(ResetAudio([Teardown(w) EXCEPT !.pipe.src = w.gen, !.pipe.mode = kind,
                              !.pipe.left = IF kind = "static-ts-list" THEN ListLength ELSE 0]))

PausePipeline(w) ==
    [w EXCEPT !.pipe.paused = TRUE,
              !.pipe.ioctl = IF w.pipe.mode = "continuous-live-ts" /\ @ \in {"connecting", "buffering"}
                             THEN "paused" ELSE @]

\* Faulty variant: the load loop is not woken up.
ResumePipelineLoader(w, flushed) ==
    IF w.pipe.ioctl = "paused"
    THEN ResetAudio([Post(w, flushed) EXCEPT !.pipe.paused = FALSE, !.pipe.ioctl = "connecting"])
    ELSE [w EXCEPT !.pipe.paused = FALSE]

\* resume: a live stream posts what is left of the request that was cut off and
\* starts over with a new one (_prepareContinuousLiveTsRestart), a loop at the
\* gate goes on.
ResumePipeline(w, flushed) ==
    LET r == [w EXCEPT !.pipe.paused = FALSE]
    IN  IF w.pipe.ioctl = "paused" THEN ResetAudio([Post(r, flushed) EXCEPT !.pipe.ioctl = "connecting"])
        ELSE CASE w.pipe.at # "gate"     -> r
               [] w.pipe.gate = "next"   -> NextSegment(r)
               [] w.pipe.gate = "init"   -> At(r, "init")
               [] w.pipe.gate = "load"   -> Load(r)

\* destroy: the decoder goes too, and with it every frame.
DestroyPipeline(w) ==
    [Teardown(w) EXCEPT !.pipe = NoPipeline, !.frames = << >>]

\* The message handler of transmux-worker.ts.  The command "init" keeps the
\* segments of the pipeline for "start", which follows at once.
Handle(w, c, flushed) ==
    CASE c.type = "init"  -> [w EXCEPT !.gen = c.gen, !.pipe = NewPipeline]
      [] c.type = "reset" -> IF w.pipe = NoPipeline THEN w ELSE DestroyPipeline(w)
      [] c.type = "start" -> IF w.pipe = NoPipeline THEN w ELSE LoadSource(w, c.kind)
      [] c.type = "load-segments" ->
            LET g == [w EXCEPT !.gen = c.gen]
            IN  IF w.pipe = NoPipeline THEN g ELSE LoadSource(g, c.kind)
      [] c.type = "pause"  -> IF w.pipe = NoPipeline THEN w ELSE PausePipeline(w)
      [] c.type = "resume" -> IF w.pipe = NoPipeline THEN w ELSE ResumePipeline(w, flushed)

-----------------------------------------------------------------------------
(* Tasks of the worker.                                                      *)

\* A task posts what it collected.
Work(next) ==
    /\ events' = events \o next.out
    /\ wk' = [next EXCEPT !.out = << >>]

InWorker(next) == Work(next) /\ UNCHANGED <<page, commands>>

\* Bound: what the network brings waits while the channel is full.
Room == Len(events) < MaxEvents

\* What the end of a segment may leave to post: samples that were stashed, an
\* fMP4 segment with its init part, or an error of the demuxer.
Flushes == {<< >>, <<"media">>, <<"init", "media">>, <<"error">>}

HandleCommand ==
    /\ commands # << >>
    /\ \E flushed \in Flushes :
         /\ flushed # << >> => Room
         /\ Work(Handle(wk, Head(commands), flushed))
    /\ commands' = Tail(commands)
    /\ UNCHANGED page

\* An HLS source has its next segment (segment: its init segment is new, its
\* output starts a new timeline), its end, or has given up (HlsSource).
SourceNext(newInit, reset) ==
    /\ wk.pipe.at = "next" /\ Room
    /\ \E info \in IF wk.pipe.known THEN {<< >>} ELSE {<<"hls-live">>, <<"hls-vod">>} :
         LET i == Post([wk EXCEPT !.pipe.known = TRUE], info)
             r == IF reset THEN ResetAudio(i) ELSE i
         IN  InWorker(IF newInit THEN Gated(r, "init") ELSE Load(r))

SourceEnds ==
    /\ wk.pipe.at = "next" /\ Room /\ wk.pipe.known
    /\ \E flushed \in Flushes :
         InWorker(At(Post(wk, flushed \o <<"complete">>), "none"))

SourceFails ==
    /\ wk.pipe.at = "next" /\ Room
    /\ InWorker(At(Post(wk, <<"error">>), "none"))

\* _loadFmp4Init: the init segment is answered, then read, and either may fail.
InitAnswered ==
    /\ wk.pipe.at = "init"
    /\ InWorker([wk EXCEPT !.pipe.at = "body"])

InitArrives ==
    /\ wk.pipe.at = "body" /\ Room
    /\ InWorker(Load(Post(wk, <<"init">>)))

InitFails ==
    /\ wk.pipe.at \in {"init", "body"} /\ Room
    /\ InWorker(At(Post(wk, <<"error">>), "none"))

\* Faulty variant: the run is not looked at again after the request.
StaleInitSent(src) ==
    /\ Room
    /\ events' = Append(events, [type |-> "init", gen |-> wk.gen, src |-> src])
    /\ wk' = [wk EXCEPT !.stale = @ \ {src}]
    /\ UNCHANGED <<page, commands>>

\* The init segment of a superseded run arrives: the run is over.
StaleInit(src) ==
    /\ InWorker([wk EXCEPT !.stale = @ \ {src}])

\* The response is a playlist: its text is read, and the loader counts as idle
\* (fetch-loader.ts), then the pipeline goes on with an HLS source.
LoaderPlaylist ==
    /\ wk.pipe.at = "load" /\ wk.pipe.ioctl = "connecting"
    /\ InWorker([wk EXCEPT !.pipe.ioctl = "text"])

LoaderText ==
    /\ wk.pipe.at = "load" /\ wk.pipe.ioctl = "text"
    /\ InWorker(NextSegment([wk EXCEPT !.pipe.ioctl = "none", !.pipe.mode = "hls",
                                       !.pipe.known = FALSE]))

Reading == wk.pipe.at = "load" /\ wk.pipe.ioctl \in {"connecting", "buffering"}

\* A chunk arrives (_onInputChunk, or the demuxer): it posts nothing, the init
\* segments, media, or an error of the demuxer, which does not end the load; a
\* raw audio frame goes to the decoder (_handleRawAudioFrame).
LoaderChunk(posts) ==
    /\ Reading /\ Room
    /\ InWorker(Post([wk EXCEPT !.pipe.ioctl = "buffering"], posts))

AudioFrame ==
    /\ Reading /\ Len(wk.frames) < MaxFrames
    /\ InWorker([wk EXCEPT !.pipe.ioctl = "buffering",
                           !.frames = Append(@, [src |-> wk.pipe.src, fresh |-> TRUE])])

\* The decoder has started, or the time base is known: the frames decoded
\* since the last reset are posted (_emitPcm), the others dropped.
AudioDecoded ==
    /\ wk.frames # << >> /\ Room
    /\ LET f == Head(wk.frames)
           d == [wk EXCEPT !.frames = Tail(@)]
       IN  InWorker(IF f.fresh
                    THEN [d EXCEPT !.out = <<[type |-> "pcm", gen |-> wk.gen, src |-> f.src]>>]
                    ELSE d)

\* Faulty variant: the load is given up before anybody is told.
LoaderUnsupportedSilent ==
    /\ Reading /\ Room
    /\ InWorker(At([wk EXCEPT !.pipe.ioctl = "none"], "none"))

\* The stream is neither MPEG-TS nor fMP4.
LoaderUnsupported ==
    /\ Reading /\ Room
    /\ InWorker(At([Post(wk, <<"error">>) EXCEPT !.pipe.ioctl = "none"], "none"))

LoaderFails ==
    /\ wk.pipe.at = "load" /\ wk.pipe.ioctl \in {"connecting", "buffering", "text"} /\ Room
    /\ InWorker(At([Post(wk, <<"error">>) EXCEPT !.pipe.ioctl = "none"], "none"))

\* The segment is complete; what is left of it is posted (_flushFmp4Segment,
\* _finishTsInputBoundary) and the loop goes on.
LoaderDone ==
    /\ Reading /\ Room
    /\ \E flushed \in Flushes :
         LET d == Post([wk EXCEPT !.pipe.ioctl = "none"], flushed)
         IN  InWorker(NextSegment(IF wk.pipe.mode = "hls" THEN d ELSE ResetAudio(d)))

-----------------------------------------------------------------------------
(* The page: playback-controller.ts.                                         *)

Send(s, cs) == commands' = IF s.alive THEN commands \o cs ELSE commands

Quiet == Len(commands) < MaxCommands

\* What a load and a suspension have in common: a new load number makes every
\* event on the way stale, and the media source is thrown away.
Fresh(s) ==
    [s EXCEPT !.gen = @ + 1, !.pendingInits = {}, !.throttle = FALSE, !.watermark = FALSE,
              !.full = FALSE, !.appended = {}, !.answered = FALSE]

\* loadSegments.  The worker hears of it when the new media source is open.
LoadSegments(kind) ==
    /\ page.alive /\ page.gen < MaxGen
    /\ page' = [Fresh(page) EXCEPT !.pending = kind, !.mse = "opening"]
    /\ UNCHANGED <<commands, wk, events>>

\* loadInWorker, from the callback of mse.open
SourceOpen ==
    /\ page.mse = "opening"
    /\ page' = [page EXCEPT !.mse = "open", !.pending = "none", !.initialized = TRUE]
    /\ Send(page, IF page.initialized
                  THEN <<[type |-> "load-segments", gen |-> page.gen, kind |-> page.pending]>>
                  ELSE <<[type |-> "init", gen |-> page.gen],
                         [type |-> "start", kind |-> page.pending]>>)
    /\ UNCHANGED <<wk, events>>

Suspended(s) == [Fresh(s) EXCEPT !.pending = "none", !.mse = "none", !.initialized = FALSE]

Suspend ==
    /\ page.alive /\ page.gen < MaxGen
    /\ page' = Suspended(page)
    /\ Send(page, <<[type |-> "reset"]>>)
    /\ UNCHANGED <<wk, events>>

\* destroy: the worker is terminated, and what it was told is lost.
Destroy ==
    /\ page.alive /\ page.gen < MaxGen
    /\ page' = [Suspended(page) EXCEPT !.alive = FALSE]
    /\ commands' = << >>
    /\ wk' = [wk EXCEPT !.pipe = NoPipeline, !.frames = << >>, !.stale = {}]
    /\ UNCHANGED events

\* updateFetchBackpressure, for a buffer that is low (resume below it), high
\* (pause above it) or between.
Backpressure(s, ahead) ==
    IF s.watermark \/ s.full
    THEN IF ahead = "low"
         THEN [s |-> [s EXCEPT !.watermark = FALSE, !.full = FALSE], cs |-> <<[type |-> "resume"]>>]
         ELSE [s |-> s, cs |-> << >>]
    ELSE IF s.throttle /\ ahead = "high"
         THEN [s |-> [s EXCEPT !.watermark = TRUE], cs |-> <<[type |-> "pause"]>>]
         ELSE [s |-> s, cs |-> << >>]

ApplyBackpressure(s, ahead) ==
    LET b == Backpressure(s, ahead)
    IN  page' = b.s /\ Send(b.s, b.cs)

\* handleWorkerMessage
HandleMessage(ahead) ==
    /\ events # << >> /\ Quiet /\ Len(page.pcm) < MaxFrames
    /\ LET msg     == Head(events)
           flushed == [page EXCEPT !.appended = @ \cup page.pendingInits, !.pendingInits = {}]
       IN  IF msg.gen # page.gen THEN UNCHANGED <<page, commands>>
           ELSE IF msg.type \in {"hls-live", "hls-vod"}
           THEN IF msg.type = "hls-vod"
                THEN ApplyBackpressure([flushed EXCEPT !.throttle = TRUE], ahead)
                ELSE page' = flushed /\ UNCHANGED commands
           ELSE /\ page' =
                     CASE msg.type = "init"  -> [page EXCEPT !.pendingInits = @ \cup {msg.src}]
                       [] msg.type = "media" -> [flushed EXCEPT !.appended = @ \cup {msg.src}]
                       [] msg.type = "pcm"   -> [flushed EXCEPT !.pcm = Append(@, [gen |-> msg.gen,
                                                                                  src |-> msg.src])]
                       [] msg.type \in {"complete", "error"} -> [flushed EXCEPT !.answered = TRUE]
                /\ UNCHANGED commands
    /\ events' = Tail(events)
    /\ UNCHANGED wk

\* The PCM player has started: what waited for it is fed, if its load is still
\* the current one.
FeedPcm ==
    /\ page.pcm # << >>
    /\ LET f == Head(page.pcm)
       IN  page' = [page EXCEPT !.pcm = Tail(@),
                                !.appended = IF f.gen = page.gen THEN @ \cup {f.src} ELSE @]
    /\ UNCHANGED <<commands, wk, events>>

\* timeupdate of the video, which the controller listens to as long as it
\* lives, and updateend of a SourceBuffer
BufferReported(ahead) ==
    /\ page.alive /\ Quiet
    /\ ApplyBackpressure(page, ahead)
    /\ UNCHANGED <<wk, events>>

\* onBufferFull
BufferFull ==
    /\ page.mse = "open" /\ ~page.full /\ Quiet
    /\ page' = [page EXCEPT !.full = TRUE]
    /\ Send(page, <<[type |-> "pause"]>>)
    /\ UNCHANGED <<wk, events>>

\* onStartStreaming
StartStreaming(ahead) ==
    /\ page.mse = "open" /\ Quiet
    /\ IF page.watermark \/ page.full THEN ApplyBackpressure(page, ahead)
       ELSE page' = page /\ Send(page, <<[type |-> "resume"]>>)
    /\ UNCHANGED <<wk, events>>

\* onSourceClose; reported as an error when the page is visible
SourceClose(visible) ==
    /\ page.mse = "open" /\ Quiet
    /\ page' = [page EXCEPT !.mse = "closed", !.answered = @ \/ visible]
    /\ Send(page, <<[type |-> "pause"]>>)
    /\ UNCHANGED <<wk, events>>

-----------------------------------------------------------------------------
Levels == {"low", "mid", "high"}
Posts == {<< >>, <<"init">>, <<"media">>, <<"error">>}

Page ==
    \/ \E kind \in Kinds : LoadSegments(kind)
    \/ SourceOpen \/ Suspend \/ Destroy \/ FeedPcm \/ BufferFull
    \/ \E ahead \in Levels : HandleMessage(ahead) \/ BufferReported(ahead) \/ StartStreaming(ahead)
    \/ \E visible \in BOOLEAN : SourceClose(visible)

Network ==
    \/ \E newInit, reset \in BOOLEAN : SourceNext(newInit, reset)
    \/ SourceEnds \/ SourceFails \/ InitAnswered \/ InitArrives \/ InitFails
    \/ \E src \in wk.stale : StaleInit(src)
    \/ LoaderPlaylist \/ LoaderText \/ LoaderUnsupported \/ LoaderFails \/ LoaderDone
    \/ \E posts \in Posts : LoaderChunk(posts)
    \/ AudioFrame \/ AudioDecoded

Next == Page \/ HandleCommand \/ Network

Spec == Init /\ [][Next]_vars

-----------------------------------------------------------------------------
(* Properties.                                                               *)

MessageTypes == {"init", "media", "pcm", "complete", "error", "hls-live", "hls-vod"}
Message == [type : MessageTypes, gen : Gen, src : Gen]

Command ==
    [type : {"pause", "resume", "reset"}] \cup [type : {"init"}, gen : Gen]
        \cup [type : {"start"}, kind : Kinds] \cup [type : {"load-segments"}, gen : Gen, kind : Kinds]

Pipeline ==
    [src : Gen, mode : {"hls", "continuous-live-ts", "static-ts-list"},
     at : {"gone", "none", "gate", "next", "init", "body", "load"}, gate : {"none", "next", "init", "load"},
     ioctl : {"none", "connecting", "buffering", "paused", "text"},
     paused : BOOLEAN, left : 0..ListLength, known : BOOLEAN]

Controller ==
    [gen : Gen, mse : {"none", "opening", "open", "closed"}, pending : Kinds \cup {"none"},
     alive : BOOLEAN, initialized : BOOLEAN, throttle : BOOLEAN, watermark : BOOLEAN, full : BOOLEAN,
     pendingInits : SUBSET Gen, pcm : Seq([gen : Gen, src : Gen]), appended : SUBSET Gen,
     answered : BOOLEAN]

TypeOK ==
    /\ page \in Controller
    /\ commands \in Seq(Command)
    /\ wk \in [gen : Gen, pipe : Pipeline, stale : SUBSET Gen,
               frames : Seq([src : Gen, fresh : BOOLEAN]), out : {<< >>}]
    /\ events \in Seq(Message)
    /\ wk.pipe.at = "gone" => wk.pipe = NoPipeline /\ wk.frames = << >>
    /\ wk.pipe.at = "load" <=> wk.pipe.ioctl # "none"
    /\ wk.pipe.at = "gate" <=> wk.pipe.gate # "none"

\* What is on its way was made for the load it is stamped with, although the
\* stamp is put on late: a load loop that runs is the last load's, so is audio
\* that was decoded since the last reset.
Addressed ==
    /\ \A i \in 1..Len(events) : events[i].src = events[i].gen /\ events[i].gen <= page.gen
    /\ \A i \in 1..Len(page.pcm) : page.pcm[i].src = page.pcm[i].gen
    /\ wk.pipe.at \notin {"none", "gone"} => wk.pipe.src = wk.gen
    /\ \A i \in 1..Len(wk.frames) : wk.frames[i].fresh => wk.frames[i].src = wk.gen

\* What reaches the media source or the audio player of a load was made for
\* that load, whatever was in flight when it replaced another one: events and
\* commands on the way, init segments being fetched, audio being decoded, init
\* segments batched on the page.
NoStaleData == page.appended \cup page.pendingInits \subseteq {page.gen}

\* Until the media source of a load is open nobody has heard of the load, and no
\* reason to pause is left over from the one before.
NothingYet ==
    /\ page.gen = 0 => page.mse = "none" /\ commands = << >> /\ events = << >> /\ wk.pipe = NoPipeline
    /\ page.mse \in {"none", "opening"} =>
         /\ ~page.throttle /\ ~page.watermark /\ ~page.full
         /\ wk.gen < page.gen \/ page.gen = 0
         /\ \A i \in 1..Len(events) : events[i].gen < page.gen
    /\ page.mse \in {"open", "closed"} => page.alive /\ page.initialized
    /\ page.mse = "opening" => page.alive /\ page.gen > 0 /\ page.pending \in Kinds

Loads(c) == c.type \in {"init", "load-segments"}

\* Whether a pipeline exists when the first i commands have been taken.
ExistsAfter(i) == IF i = 0 THEN wk.pipe # NoPipeline ELSE commands[i].type # "reset"

\* The commands on the way: loads in the order of their numbers, each for a
\* pipeline that will exist, or make one that does not; a reset belongs to a
\* load number of its own.
QueueOrdered ==
    /\ wk.gen <= page.gen
    /\ \A i \in 1..Len(commands) :
         /\ Loads(commands[i]) =>
              /\ wk.gen < commands[i].gen /\ commands[i].gen <= page.gen
              /\ page.mse \in {"none", "opening"} => commands[i].gen < page.gen
         /\ commands[i].type = "reset" => wk.gen < page.gen
         /\ commands[i].type = "init" =>
              /\ ~ExistsAfter(i - 1)
              /\ i < Len(commands) /\ commands[i + 1].type = "start"
         /\ commands[i].type \notin {"init", "reset"} => ExistsAfter(i - 1)
         /\ \A j \in 1..Len(commands) : i < j /\ Loads(commands[i]) =>
              /\ Loads(commands[j]) => commands[i].gen < commands[j].gen
              /\ commands[j].type = "reset" => commands[i].gen < page.gen
    /\ page.alive => (page.initialized <=> ExistsAfter(Len(commands)))

\* Once the worker has taken its commands, it is paused exactly while one of
\* the page's two reasons holds; a load in between changes nothing about it.
\* Before, the last command says which it will be.
PauseAgrees ==
    page.mse = "open" =>
        ((page.watermark \/ page.full) <=>
            IF commands = << >> THEN wk.pipe.paused ELSE commands[Len(commands)].type = "pause")

\* No load loop waits at the gate of a pipeline that is not paused, and no
\* live request is held back: a resume wakes up whatever the pause stopped.
NothingHeldBack ==
    wk.pipe # NoPipeline /\ ~wk.pipe.paused
        => wk.pipe.at # "gate" /\ wk.pipe.ioctl # "paused"

Reported ==
    page.answered \/ \E i \in 1..Len(events) :
                        events[i].gen = page.gen /\ events[i].type \in {"complete", "error"}

\* The load of an open media source is on its way to the worker, or being worked
\* on, or its end has been reported.
LoadUnderWay ==
    page.mse = "open" =>
        \/ \E i \in 1..Len(commands) : Loads(commands[i]) /\ commands[i].gen = page.gen
        \/ wk.gen = page.gen /\ commands # << >> /\ commands[1].type = "start"
        \/ wk.gen = page.gen /\ (wk.pipe.at \notin {"none", "gone"} \/ Reported)

\* Between any two messages page and worker agree on the pause and on the load,
\* what is on its way is stamped with its own load, and a resume reaches
\* everything the pause stopped.
SessionInv ==
    /\ TypeOK /\ Addressed /\ NothingYet /\ QueueOrdered
    /\ PauseAgrees /\ NothingHeldBack /\ LoadUnderWay

\* A load never ends in silence: when the worker has no load loop left, the
\* page has been told of the end or of an error.
EndIsReported ==
    commands = << >> /\ page.mse = "open" /\ wk.pipe.at \in {"none", "gone"} => Reported

\* A paused pipeline starts no request: the loop stops at the next gate, and a
\* live stream is cut off.
PausedIsQuiet ==
    [][wk.pipe.at # "gone" /\ wk'.pipe.at # "gone" /\ wk.pipe.paused /\ wk'.pipe.paused
        => \/ wk'.pipe.at \in {"none", "gate"}
           \/ wk.pipe.at = "init" /\ wk'.pipe.at = "body"
           \/ wk'.pipe.at = wk.pipe.at /\ (wk'.pipe.ioctl = "connecting" => wk.pipe.ioctl = "connecting")]_vars
=============================================================================
