-------------------------- MODULE MediaSourceQueue --------------------------
(* The append queue of the web player (mse/media-source.ts) together with    *)
(* the part of mse/playback-controller.ts that its callbacks run in: segments*)
(* posted by the transmux worker wait per track until their SourceBuffer is  *)
(* free, old media is removed, a full buffer pauses the worker, and the end  *)
(* of the stream is passed on.                                               *)
(*                                                                           *)
(* The main thread runs one event handler at a time, so a handler is one     *)
(* step on the record m; the browser's media objects (MediaSource,           *)
(* SourceBuffer, video) are part of m and external.  The worker is its       *)
(* sequence of messages.  Time is counted in units: one media segment covers *)
(* one unit of the timeline.  lastInitSegments is written and never read and *)
(* is left out, and so are empty segments, timestamp offsets and the value of*)
(* a duration.                                                               *)
EXTENDS Integers, Sequences, FiniteSets

SeqExt == INSTANCE SequencesExt

CONSTANTS
    Scripts,        \* the message sequences the worker may post
    Unsupported,    \* codecs the browser refuses
    Quota,          \* units a SourceBuffer holds
    MaxBackward,    \* config.bufferCleanupMaxBackward
    MinBackward,    \* config.bufferCleanupMinBackward
    Padding,        \* 3 seconds in doCleanupSourceBuffer
    PauseAhead,     \* VOD_FORWARD_BUFFER_PAUSE
    ResumeAhead,    \* BACKPRESSURE_RESUME_BUFFER_AHEAD
    MaxTime,        \* bound: the timeline
    MaxBacklog,     \* bound: messages posted by a worker before it stops
    MaxUpsets       \* bound: seeks, closed sources, broken media elements,
                    \* endings of streaming

Tracks == <<"video", "audio">>
Track == {"video", "audio"}
NoCodec == "none"

\* A message is an init segment, a media segment for a unit of the timeline,
\* the hls-info of a playlist, which has an end (vod) or is live, or the end.
MessageOK(msg) ==
    /\ msg.type \in {"init", "media", "info", "complete"}
    /\ msg.type \in {"init", "media"} => msg.track \in Track
    /\ msg.type = "media" => msg.unit \in 0..MaxTime
    /\ msg.type = "info" => msg.vod \in BOOLEAN

ASSUME QueueAssumption ==
    /\ \A s \in Scripts : /\ s \in Seq({s[i] : i \in DOMAIN s})
                          /\ \A i \in DOMAIN s : MessageOK(s[i])
    /\ {Quota, MaxBackward, MinBackward, Padding, PauseAhead, ResumeAhead,
        MaxTime, MaxBacklog, MaxUpsets} \subseteq Nat
    /\ MinBackward <= MaxBackward

VARIABLES
    managed,        \* useManagedMediaSource
    m,              \* the main thread: queue, controller, media objects
    script,         \* the worker's messages
    pos,            \* the next one to arrive
    workerPaused,   \* the worker has stopped loading
    backlog,        \* messages it may still post before it has stopped
    upsets          \* upsets so far

vars == <<managed, m, script, pos, workerPaused, backlog, upsets>>

Idle == [op |-> "idle"]
NoBuffer == [op |-> "none"]

Init ==
    /\ managed \in BOOLEAN
    /\ m = [\* the MediaSource: closed until sourceopen, which opens it once
            readyState |-> "closed", opened |-> FALSE, streaming |-> ~managed, broken |-> FALSE,
            \* what each SourceBuffer is doing, and what it holds
            sb |-> [t \in Track |-> NoBuffer], buffered |-> [t \in Track |-> {}],
            parsed |-> [t \in Track |-> FALSE], currentTime |-> 0,
            \* media-source.ts
            mimeTypes |-> [t \in Track |-> NoCodec],
            pendingSegments |-> [t \in Track |-> << >>],
            pendingRemoveRanges |-> [t \in Track |-> << >>],
            pendingSourceBufferInit |-> << >>, disabledTracks |-> {},
            isBufferFull |-> FALSE, hasPendingEos |-> FALSE, pendingDuration |-> FALSE,
            \* playback-controller.ts; throttled is hlsVodThrottleEnabled, posted
            \* the last pause or resume that the worker has not taken yet
            pendingInits |-> << >>, watermarkPaused |-> FALSE, bufferFullPaused |-> FALSE,
            throttled |-> FALSE, posted |-> "none", failed |-> FALSE,
            \* history: the segments handed over and the ones appended
            given |-> [t \in Track |-> << >>], appended |-> [t \in Track |-> << >>]]
    /\ script \in Scripts
    /\ pos = 1
    /\ workerPaused = FALSE
    /\ backlog = 0
    /\ upsets = 0

Updating(s, t) == s.sb[t].op \in {"append", "remove"}

-----------------------------------------------------------------------------
(* Back-pressure (playback-controller.ts).                                   *)

\* video.buffered: what every SourceBuffer holds.
Buffered(s) ==
    LET present == {t \in Track : s.sb[t] # NoBuffer}
    IN  IF present = {} THEN {}
        ELSE {u \in 0..MaxTime : \A t \in present : u \in s.buffered[t]}

\* getForwardBufferAhead
Ahead(s) ==
    Cardinality({u \in s.currentTime..MaxTime : s.currentTime..u \subseteq Buffered(s)})

\* pauseWorkerForBackpressure
PauseWorker(s, kind) ==
    [s EXCEPT !.watermarkPaused = @ \/ kind = "watermark",
              !.bufferFullPaused = @ \/ kind = "buffer-full",
              !.posted = "pause"]

\* resumeWorkerFromBackpressure
ResumeWorker(s) ==
    [s EXCEPT !.watermarkPaused = FALSE, !.bufferFullPaused = FALSE, !.posted = "resume"]

\* Faulty variant: only a pause at the watermark is taken back.
UpdateFetchBackpressureWatermark(s) ==
    IF s.watermarkPaused
    THEN IF Ahead(s) < ResumeAhead THEN ResumeWorker(s) ELSE s
    ELSE IF s.throttled /\ Ahead(s) > PauseAhead THEN PauseWorker(s, "watermark") ELSE s

\* updateFetchBackpressure
UpdateFetchBackpressure(s) ==
    IF s.watermarkPaused \/ s.bufferFullPaused
    THEN IF Ahead(s) < ResumeAhead THEN ResumeWorker(s) ELSE s
    ELSE IF s.throttled /\ Ahead(s) > PauseAhead THEN PauseWorker(s, "watermark") ELSE s

-----------------------------------------------------------------------------
(* The queue (media-source.ts).                                              *)

HasPendingSegments(s) == \E t \in Track : s.pendingSegments[t] # << >>
HasPendingRemoveRanges(s) == \E t \in Track : s.pendingRemoveRanges[t] # << >>

\* The loops over the tracks go through the video track first.
ForTracks(s, Op(_, _)) == LET v == Op(s, "video") IN Op(v, "audio")

\* The inits of the other track.
OfOthers(inits, t) ==
    LET kept[i \in 0..Len(inits)] ==
            IF i = 0 THEN << >>
            ELSE IF inits[i].track = t THEN kept[i - 1] ELSE Append(kept[i - 1], inits[i])
    IN  kept[Len(inits)]

\* disableTrack
DisableTrack(s, t) ==
    [s EXCEPT !.disabledTracks = @ \cup {t},
              !.pendingSegments[t] = << >>,
              !.pendingRemoveRanges[t] = << >>,
              !.pendingSourceBufferInit = OfOthers(@, t)]

\* doRemoveRanges.  remove() makes the buffer busy, so the inner loop runs once.
RemoveNext(s, t) ==
    IF s.sb[t] # Idle \/ s.pendingRemoveRanges[t] = << >> THEN s
    ELSE [s EXCEPT !.sb[t] = [op |-> "remove", range |-> Head(s.pendingRemoveRanges[t])],
                   !.pendingRemoveRanges[t] = Tail(@)]

DoRemoveRanges(s) == ForTracks(s, RemoveNext)

\* canAppendToManagedSource
CanAppend(s) == ~managed \/ s.streaming

\* appendBuffer: the browser makes room by dropping the oldest unit that has
\* been played; if there is none, it throws QuotaExceededError.
Oldest(held) == {u \in held : \A w \in held : u <= w}
Full(s, t) == Cardinality(s.buffered[t]) >= Quota
NoRoom(s, t, entry) ==
    /\ entry.type = "media"
    /\ Full(s, t)
    /\ \A u \in s.buffered[t] : u >= s.currentTime

\* Faulty variant: the segment that did not fit is not put back.
AppendHeadOnce(s, t) ==
    LET entry == Head(s.pendingSegments[t])
        taken == [s EXCEPT !.pendingSegments[t] = Tail(@)]
    IN  IF s.broken THEN [taken EXCEPT !.failed = TRUE]
        ELSE IF NoRoom(s, t, entry)
        THEN [(IF s.isBufferFull THEN taken ELSE PauseWorker(taken, "buffer-full"))
                EXCEPT !.isBufferFull = TRUE]
        ELSE [taken EXCEPT !.sb[t] = [op |-> "append", entry |-> entry],
                           !.appended[t] = Append(@, entry)]

\* The body of doAppendSegments for one track.  Any error but the quota's (a
\* broken media element) is reported and leaves the segment at the head.
AppendHead(s, t) ==
    LET entry == Head(s.pendingSegments[t])
        done  == [s EXCEPT !.pendingSegments[t] = Tail(@),
                           !.sb[t] = [op |-> "append", entry |-> entry],
                           !.buffered[t] = @ \ (IF entry.type = "media" /\ Full(s, t)
                                                THEN Oldest(@) ELSE {}),
                           !.appended[t] = Append(@, entry)]
    IN  IF s.broken THEN [s EXCEPT !.failed = TRUE]
        ELSE IF NoRoom(s, t, entry)
        THEN [(IF s.isBufferFull THEN s ELSE PauseWorker(s, "buffer-full"))
                EXCEPT !.isBufferFull = TRUE]
        ELSE IF s.isBufferFull
        THEN UpdateFetchBackpressure([done EXCEPT !.isBufferFull = FALSE])
        ELSE done

AppendNext(s, t) ==
    IF s.sb[t] = Idle /\ CanAppend(s) /\ s.pendingSegments[t] # << >>
    THEN AppendHead(s, t) ELSE s

DoAppendSegments(s) == ForTracks(s, AppendNext)

TryAppendPending(s) ==
    IF s.readyState # "open" \/ ~CanAppend(s) THEN s
    ELSE IF HasPendingRemoveRanges(s) THEN DoRemoveRanges(s)
    ELSE IF HasPendingSegments(s) THEN DoAppendSegments(s) ELSE s

\* createSourceBuffer.  changeType throws on a buffer that is updating,
\* addSourceBuffer once another buffer has parsed its init segment: the set of
\* buffers is final then.
CreateSourceBuffer(s, t, codec) ==
    LET locked == s.sb[t] = NoBuffer /\ \E u \in Track : s.parsed[u]
    IN  IF t \in s.disabledTracks \/ s.readyState # "open" \/ codec = s.mimeTypes[t] THEN s
        ELSE IF Updating(s, t) THEN [s EXCEPT !.failed = TRUE]
        ELSE IF codec \in Unsupported THEN [DisableTrack(s, t) EXCEPT !.failed = TRUE]
        ELSE IF locked THEN [s EXCEPT !.failed = TRUE]
        ELSE [s EXCEPT !.mimeTypes[t] = codec,
                       !.sb[t] = IF @ = NoBuffer THEN Idle ELSE @]

\* flushPendingSourceBufferInit
FlushPendingSourceBufferInit(s) ==
    IF s.readyState # "open" THEN s
    ELSE LET pendings == s.pendingSourceBufferInit
             after[i \in 0..Len(pendings)] ==
                 IF i = 0 THEN [s EXCEPT !.pendingSourceBufferInit = << >>]
                 ELSE CreateSourceBuffer(after[i - 1], pendings[i].track, pendings[i].codec)
         IN  after[Len(pendings)]

Give(s, t, entry) ==
    [s EXCEPT !.pendingSegments[t] = Append(@, entry), !.given[t] = Append(@, entry)]

AppendInit(s, init) ==
    LET t == init.track
        c == CreateSourceBuffer(s, t, init.codec)
    IN  IF t \in s.disabledTracks THEN s
        ELSE IF s.readyState # "open" \/ ~s.streaming
        THEN Give([s EXCEPT !.pendingSourceBufferInit = Append(@, init)], t, init)
        ELSE IF t \in c.disabledTracks THEN c
        ELSE TryAppendPending(Give(c, t, init))

\* The ranges of a SourceBuffer, first and last unit, in order.
Ranges(held) ==
    LET bounds == {r \in held \X held : /\ r[1] <= r[2]
                                        /\ (r[1]..r[2]) \subseteq held
                                        /\ {r[1] - 1, r[2] + 1} \cap held = {}}
    IN  SeqExt!SetToSortSeq(bounds, LAMBDA a, b : a[1] < b[1])

NeedCleanup(s) ==
    \E t \in Track : /\ s.sb[t] # NoBuffer
                     /\ \E u \in s.buffered[t] : s.currentTime - u >= MaxBackward

\* What doCleanupSourceBuffer pushes for a range, [start, end) of the removal,
\* and for a track.
Removals(s, range) ==
    LET start == range[1]
        end   == range[2] + 1
    IN  IF start <= s.currentTime /\ s.currentTime < end + Padding
        THEN IF s.currentTime - start >= MaxBackward
             THEN <<[start |-> start, end |-> s.currentTime - MinBackward]>> ELSE << >>
        ELSE IF end < s.currentTime - MaxBackward
        THEN <<[start |-> start, end |-> end]>> ELSE << >>

Stale(s, t) ==
    SeqExt!FlattenSeq([i \in DOMAIN Ranges(s.buffered[t]) |->
                           Removals(s, Ranges(s.buffered[t])[i])])

\* Faulty variant: the removals are left to the next updateend.
DoCleanupLater(s) ==
    LET One(r, t) == [r EXCEPT !.pendingRemoveRanges[t] = @ \o Stale(r, t)]
    IN  ForTracks(s, One)

\* doCleanupSourceBuffer
CleanTrack(s, t) ==
    LET p == [s EXCEPT !.pendingRemoveRanges[t] = @ \o Stale(s, t)]
    IN  IF s.sb[t] = NoBuffer \/ Stale(s, t) = << >> THEN s
        ELSE IF Updating(s, t) THEN p ELSE DoRemoveRanges(p)

DoCleanup(s) == ForTracks(s, CleanTrack)

AppendMedia(s, entry) ==
    LET g == Give(s, entry.track, entry)
    IN  IF entry.track \in s.disabledTracks THEN s
        ELSE IF s.readyState # "open" THEN g
        ELSE TryAppendPending(IF NeedCleanup(g) THEN DoCleanup(g) ELSE g)

\* tryApplyDuration, setDuration
TryApplyDuration(s) ==
    [s EXCEPT !.pendingDuration = @ /\ (s.readyState # "open" \/ \E t \in Track : Updating(s, t))]

SetDuration(s) == TryApplyDuration([s EXCEPT !.pendingDuration = TRUE])

EndOfStream(s) ==
    IF s.readyState # "open"
    THEN [s EXCEPT !.hasPendingEos = @ \/ (s.readyState = "closed" /\ HasPendingSegments(s))]
    ELSE IF \E t \in Track : Updating(s, t) THEN [s EXCEPT !.hasPendingEos = TRUE]
    ELSE [s EXCEPT !.hasPendingEos = FALSE, !.readyState = "ended"]

\* onSourceBufferUpdateEnd, with the controller's onBufferUpdated
OnUpdateEnd(s0) ==
    LET s == TryApplyDuration(UpdateFetchBackpressure(s0))
    IN  IF HasPendingRemoveRanges(s) THEN DoRemoveRanges(s)
        ELSE IF HasPendingSegments(s) THEN TryAppendPending(s)
        ELSE IF s.hasPendingEos THEN EndOfStream(s)
        ELSE IF s.isBufferFull THEN UpdateFetchBackpressure([s EXCEPT !.isBufferFull = FALSE])
        ELSE s

-----------------------------------------------------------------------------
(* Messages of the worker (handleWorkerMessage).                             *)

\* flushPendingInits
FlushPendingInits(s) ==
    LET after[i \in 0..Len(s.pendingInits)] ==
            IF i = 0 THEN [s EXCEPT !.pendingInits = << >>]
            ELSE AppendInit(after[i - 1], s.pendingInits[i])
    IN  after[Len(s.pendingInits)]

\* hls-info: a playlist with an end turns the watermark on.
HandleInfo(s, vod) ==
    LET d == SetDuration(s)
    IN  IF vod THEN UpdateFetchBackpressure([d EXCEPT !.throttled = TRUE]) ELSE d

\* Faulty variant: an init segment is handed over when it arrives.
HandleWorkerMessageAtOnce(s, msg) ==
    CASE msg.type = "init"     -> AppendInit(s, msg)
      [] msg.type = "media"    -> AppendMedia(s, msg)
      [] msg.type = "info"     -> HandleInfo(s, msg.vod)
      [] msg.type = "complete" -> EndOfStream(s)

HandleWorkerMessage(s, msg) ==
    LET f == FlushPendingInits(s)
    IN  CASE msg.type = "init"     -> [s EXCEPT !.pendingInits = Append(@, msg)]
          [] msg.type = "media"    -> AppendMedia(f, msg)
          [] msg.type = "info"     -> HandleInfo(f, msg.vod)
          [] msg.type = "complete" -> EndOfStream(f)

\* The end of the stream is reported by the load loop, which stands still while
\* the worker is paused (_waitIfPaused).
CanDeliver ==
    /\ pos <= Len(script)
    /\ ~workerPaused \/ (backlog > 0 /\ script[pos].type # "complete")
    /\ m.opened /\ m.readyState # "none"

Deliver ==
    /\ CanDeliver
    /\ m' = HandleWorkerMessage(m, script[pos])
    /\ pos' = pos + 1
    /\ backlog' = IF workerPaused THEN backlog - 1 ELSE backlog
    /\ UNCHANGED <<managed, script, workerPaused, upsets>>

\* The worker takes the last command.  One that pauses may be in the middle of
\* a segment, which it still delivers.
WorkerPauses ==
    /\ m.posted = "pause"
    /\ m' = [m EXCEPT !.posted = "none"]
    /\ workerPaused' = TRUE
    /\ backlog' \in 0..MaxBacklog
    /\ UNCHANGED <<managed, script, pos, upsets>>

WorkerResumes ==
    /\ m.posted = "resume"
    /\ m' = [m EXCEPT !.posted = "none"]
    /\ workerPaused' = FALSE
    /\ backlog' = 0
    /\ UNCHANGED <<managed, script, pos, upsets>>

-----------------------------------------------------------------------------
(* The browser.                                                              *)

Main(next) == m' = next /\ UNCHANGED <<managed, script, pos, workerPaused, backlog>>

\* sourceopen; its last call is loadInWorker, which starts the messages.
SourceOpen ==
    /\ ~m.opened
    /\ Main(TryAppendPending(FlushPendingSourceBufferInit(
                [m EXCEPT !.readyState = "open", !.opened = TRUE])))
    /\ UNCHANGED upsets

\* An append or a removal ends: updateend.
UpdateEnd(t) ==
    /\ Updating(m, t)
    /\ LET op   == m.sb[t]
           free == [m EXCEPT !.sb[t] = Idle,
                    !.parsed[t] = @ \/ (op.op = "append" /\ op.entry.type = "init"),
                    !.buffered[t] =
                        IF op.op = "remove" THEN @ \ (op.range.start..(op.range.end - 1))
                        ELSE IF op.entry.type = "media" THEN @ \cup {op.entry.unit} ELSE @]
       IN  Main(OnUpdateEnd(free))
    /\ UNCHANGED upsets

\* The video plays on and reports it: onVideoTimeUpdate.
CanPlay ==
    /\ m.readyState \in {"open", "ended"}
    /\ m.currentTime \in Buffered(m) /\ m.currentTime < MaxTime

Play ==
    /\ CanPlay
    /\ Main(UpdateFetchBackpressure([m EXCEPT !.currentTime = @ + 1]))
    /\ UNCHANGED upsets

\* bufferSeek
BufferSeek(to) ==
    /\ upsets < MaxUpsets /\ m.readyState \in {"open", "ended"}
    /\ to \in Buffered(m) /\ to # m.currentTime
    /\ Main(UpdateFetchBackpressure([m EXCEPT !.currentTime = to]))
    /\ upsets' = upsets + 1

\* A managed source wants media, or has enough of it; startstreaming,
\* endstreaming.
CanStartStreaming == managed /\ ~m.streaming /\ m.readyState = "open"

StartStreaming ==
    /\ CanStartStreaming
    /\ LET s == TryAppendPending(FlushPendingSourceBufferInit([m EXCEPT !.streaming = TRUE]))
       IN  Main(IF s.watermarkPaused \/ s.bufferFullPaused THEN UpdateFetchBackpressure(s)
                ELSE [s EXCEPT !.posted = "resume"])
    /\ UNCHANGED upsets

EndStreaming ==
    /\ managed /\ m.streaming /\ m.readyState = "open" /\ upsets < MaxUpsets
    /\ Main([m EXCEPT !.streaming = FALSE])
    /\ upsets' = upsets + 1

\* The media element fails: appendBuffer throws from now on.
MediaBreaks ==
    /\ upsets < MaxUpsets /\ m.readyState = "open" /\ ~m.broken
    /\ Main([m EXCEPT !.broken = TRUE])
    /\ upsets' = upsets + 1

\* The browser takes the source away: onSourceCloseHandler and the
\* controller's onSourceClose (reported when the page is visible).
SourceClose(visible) ==
    /\ upsets < MaxUpsets /\ m.readyState \in {"open", "ended"}
    /\ Main([m EXCEPT !.readyState = "closed", !.sb = [t \in Track |-> NoBuffer],
                      !.mimeTypes = [t \in Track |-> NoCodec], !.posted = "pause",
                      !.failed = @ \/ visible])
    /\ upsets' = upsets + 1

\* destroy: the next load gets a new object
Destroy ==
    /\ m.readyState # "none" /\ m.failed
    /\ Main([m EXCEPT !.readyState = "none", !.sb = [t \in Track |-> NoBuffer],
                      !.mimeTypes = [t \in Track |-> NoCodec],
                      !.pendingSegments = [t \in Track |-> << >>],
                      !.pendingRemoveRanges = [t \in Track |-> << >>],
                      !.pendingSourceBufferInit = << >>, !.disabledTracks = {},
                      !.isBufferFull = FALSE, !.hasPendingEos = FALSE, !.pendingDuration = FALSE])
    /\ UNCHANGED upsets

Next ==
    \/ SourceOpen \/ Deliver \/ WorkerPauses \/ WorkerResumes
    \/ \E t \in Track : UpdateEnd(t)
    \/ Play \/ \E to \in 0..MaxTime : BufferSeek(to)
    \/ StartStreaming \/ EndStreaming \/ MediaBreaks
    \/ \E visible \in BOOLEAN : SourceClose(visible)
    \/ Destroy

Spec == Init /\ [][Next]_vars

\* The browser finishes what it was asked for, plays what it has and asks for
\* more; the worker takes its commands and, unless paused, goes on.  For the
\* last five this is weak fairness written out: each is enabled exactly when
\* its guard holds (the handlers are too deep for TLC's ENABLED).
FairSpec ==
    /\ Spec
    /\ WF_vars(WorkerPauses) /\ WF_vars(WorkerResumes)
    /\ []<>m.opened \/ []<><<SourceOpen>>_vars
    /\ []<>~CanDeliver \/ []<><<Deliver>>_vars
    /\ \A t \in Track : []<>~Updating(m, t) \/ []<><<UpdateEnd(t)>>_vars
    /\ []<>~CanPlay \/ []<><<Play>>_vars
    /\ []<>~CanStartStreaming \/ []<><<StartStreaming>>_vars

-----------------------------------------------------------------------------
(* Properties.                                                               *)

Entries == {e \in UNION {SeqExt!ToSet(s) : s \in Scripts} : e.type \in {"init", "media"}}

TypeOK ==
    /\ m.readyState \in {"none", "closed", "open", "ended"}
    /\ {m.opened, m.streaming, m.broken, m.isBufferFull, m.hasPendingEos, m.pendingDuration, m.throttled,
        m.watermarkPaused, m.bufferFullPaused, m.failed, workerPaused, managed} \subseteq BOOLEAN
    /\ \A t \in Track :
        /\ m.sb[t].op \in {"none", "idle", "append", "remove"}
        /\ m.sb[t].op = "append" => m.sb[t].entry \in Entries /\ m.sb[t].entry.track = t
        /\ m.buffered[t] \subseteq 0..MaxTime
        /\ Cardinality(m.buffered[t]) <= Quota
        /\ \A q \in {m.pendingSegments[t], m.given[t], m.appended[t]} :
             SeqExt!ToSet(q) \subseteq {e \in Entries : e.track = t}
        /\ \A r \in SeqExt!ToSet(m.pendingRemoveRanges[t]) : 0 <= r.start /\ r.start < r.end
    /\ m.disabledTracks \subseteq Track
    /\ m.currentTime \in 0..MaxTime
    /\ m.posted \in {"none", "pause", "resume"}
    /\ pos \in 1..(Len(script) + 1)
    /\ backlog \in 0..MaxBacklog
    /\ upsets \in 0..MaxUpsets

\* Whatever interrupts the appends (a full buffer, a removal, a managed source
\* that has enough, a failing media element), what a track was given is what
\* was appended followed by what waits: nothing is lost, doubled or overtaken.
Lossless ==
    m.readyState # "none" =>
        \A t \in Track \ m.disabledTracks :
            m.given[t] = m.appended[t] \o m.pendingSegments[t]

\* A removal that waits blocks the appends of both tracks (tryAppendPending), so
\* its SourceBuffer is busy: the updateend to come takes it off the queue.
RemovalsUnderWay ==
    m.readyState \in {"open", "ended"} =>
        \A t \in Track : m.pendingRemoveRanges[t] # << >> => Updating(m, t)

\* The queues between any two events of the browser: their types, and no
\* removal that nothing will ever finish.
QueueInv == TypeOK /\ RemovalsUnderWay

\* The init segments of both tracks get their SourceBuffers before the browser
\* has parsed either, so no track is refused one and stays silent
\* (playback-controller.ts:97-103).
BothAttached ==
    m.readyState \in {"open", "ended"} =>
        \A t \in Track \ m.disabledTracks :
            /\ m.given[t] # << >>
            /\ \A i \in DOMAIN m.pendingSourceBufferInit : m.pendingSourceBufferInit[i].track # t
            => m.sb[t] # NoBuffer

\* Back-pressure always lets go: while the video plays, every message of the
\* worker arrives in the end, unless the source is gone or broken.
FeedGoesOn ==
    <>(pos > Len(script) \/ m.failed \/ m.broken \/ (m.opened /\ m.readyState # "open"))
=============================================================================
