----------------------------- MODULE HlsSource ------------------------------
(* The HLS segment source of the web player (hls/hls-source.ts) and its      *)
(* playlist parser (hls/m3u8.ts), against a server that publishes segments,  *)
(* forgets the oldest ones and in the end closes its playlist.  The load loop*)
(* (worker/pipeline.ts) asks for one segment after the other.                *)
(*                                                                           *)
(* A playlist is a sequence of lines, a line a tag with a value; a URL is    *)
(* the number of the segment it names.  Delays are left out (targetDuration, *)
(* lastPlaylistHadNews): a refresh waits and then reads the playlist of that *)
(* moment.  Hints of a variant (bandwidth, resolution) are left out.         *)
EXTENDS Integers, Sequences

SeqExt == INSTANCE SequencesExt

CONSTANTS
    Window,             \* segments the server keeps in a live playlist
    MaxSequence,        \* bound: the last segment it publishes
    Discontinuities,    \* segments that start a new period
    LiveEdgeSegments,   \* LIVE_EDGE_SEGMENTS
    MaxRefreshFailures, \* MAX_REFRESH_FAILURES
    TrimAbove, TrimTo,  \* 64 and 32 in ingest
    StartsEmpty         \* the first playlist may be empty

ASSUME SourceAssumption ==
    /\ {Window, LiveEdgeSegments, MaxRefreshFailures} \subseteq Nat \ {0}
    /\ {MaxSequence, TrimAbove, TrimTo} \subseteq Nat
    /\ TrimTo <= TrimAbove
    /\ Discontinuities \subseteq Nat
    /\ StartsEmpty \in BOOLEAN

VARIABLES
    server,     \* first and last segment on offer, over: the playlist is closed
    at,         \* where next() stands
    s,          \* the source
    returned,   \* history: what next() returned
    seen        \* history: the segments of the playlists that were read

vars == <<server, at, s, returned, seen>>

-----------------------------------------------------------------------------
(* The server.                                                               *)

\* Length and period (fMP4 initialization) of a segment.
Duration(n) == 1 + (n % 2)
Period(n) == {d \in Discontinuities : d <= n}

Line(tag, value) == [tag |-> tag, value |-> value]

\* The playlist of segments first..last.  A period starts with its map, and so
\* does the playlist.
Playlist(srv) ==
    LET Entry(n) ==
            (IF n \in Discontinuities THEN <<Line("DISCONTINUITY", 0)>> ELSE << >>)
            \o (IF n = srv.first \/ n \in Discontinuities
                THEN <<Line("MAP", Period(n))>> ELSE << >>)
            \o <<Line("EXTINF", Duration(n)), Line("URI", n)>>
    IN  <<Line("MEDIA-SEQUENCE", srv.first)>>
        \o SeqExt!FlattenSeq([i \in 1..(srv.last + 1 - srv.first) |-> Entry(srv.first + i - 1)])
        \o (IF srv.over THEN <<Line("ENDLIST", 0)>> ELSE << >>)

Publish ==
    /\ ~server.over /\ server.last < MaxSequence
    /\ server' = [server EXCEPT !.last = @ + 1,
                                !.first = IF server.last + 1 - @ < Window THEN @ ELSE @ + 1]
    /\ UNCHANGED <<at, s, returned, seen>>

ClosePlaylist ==
    /\ ~server.over /\ server.last >= server.first
    /\ server' = [server EXCEPT !.over = TRUE]
    /\ UNCHANGED <<at, s, returned, seen>>

-----------------------------------------------------------------------------
(* The parser (parseMedia).                                                  *)

NoMap == {0}

Segment(p, url) ==
    [url |-> url, duration |-> p.duration, sequence |-> p.base + Len(p.segments),
     discontinuity |-> p.discontinuity, map |-> p.map]

\* Faulty variant: the mark of a discontinuity stays for the segments that follow.
AfterLineSticky(p, l) ==
    CASE l.tag = "EXTINF"         -> [p EXCEPT !.duration = l.value, !.pending = TRUE]
      [] l.tag = "MEDIA-SEQUENCE" -> [p EXCEPT !.base = l.value]
      [] l.tag = "DISCONTINUITY"  -> [p EXCEPT !.discontinuity = TRUE]
      [] l.tag = "MAP"            -> [p EXCEPT !.map = l.value]
      [] l.tag = "ENDLIST"        -> [p EXCEPT !.live = FALSE]
      [] l.tag = "URI"            -> [p EXCEPT !.segments = Append(@, Segment(p, l.value)),
                                               !.pending = FALSE]

\* One line; a URL without an EXTINF before it is skipped.
AfterLine(p, l) ==
    CASE l.tag = "EXTINF"         -> [p EXCEPT !.duration = l.value, !.pending = TRUE]
      [] l.tag = "MEDIA-SEQUENCE" -> [p EXCEPT !.base = l.value]
      [] l.tag = "DISCONTINUITY"  -> [p EXCEPT !.discontinuity = TRUE]
      [] l.tag = "MAP"            -> [p EXCEPT !.map = l.value]
      [] l.tag = "ENDLIST"        -> [p EXCEPT !.live = FALSE]
      [] l.tag = "URI"            ->
            IF ~p.pending THEN p
            ELSE [p EXCEPT !.segments = Append(@, Segment(p, l.value)),
                           !.pending = FALSE, !.discontinuity = FALSE]

ParseMedia(lines) ==
    LET start == [live |-> TRUE, base |-> 0, segments |-> << >>, duration |-> 0,
                  pending |-> FALSE, discontinuity |-> FALSE, map |-> NoMap]
        parsed[i \in 0..Len(lines)] == IF i = 0 THEN start ELSE AfterLine(parsed[i - 1], lines[i])
    IN  parsed[Len(lines)]

-----------------------------------------------------------------------------
(* The source (hls-source.ts).  nextIndex counts from 0, as in the code.     *)

NoSequence == -1    \* nothing ingested yet

Init ==
    /\ server \in {[first |-> 0, last |-> n, over |-> FALSE] : n \in 0..(Window - 1)}
                  \cup (IF StartsEmpty THEN {[first |-> 1, last |-> 0, over |-> FALSE]} ELSE {})
    /\ at = "idle"
    /\ \E variant, preloaded \in BOOLEAN :
         s = [multivariant |-> variant,     \* url names a multivariant playlist
              preloaded |-> IF preloaded THEN Playlist(server) ELSE << >>,
              live |-> TRUE, ended |-> FALSE, segments |-> << >>, nextIndex |-> 0,
              nextMediaSequence |-> NoSequence, timelinePos |-> 0, initialized |-> FALSE,
              resetPending |-> TRUE, refreshFailures |-> 0]
    /\ returned = << >>
    /\ seen = {}

\* Trim consumed history.
Trim(r) ==
    IF ~r.live \/ r.nextIndex <= TrimAbove THEN r
    ELSE LET drop == r.nextIndex - TrimTo
         IN  [r EXCEPT !.segments = SubSeq(@, drop + 1, Len(@)), !.nextIndex = @ - drop]

\* Faulty variant: the last segment ingested is taken again.
IngestOneRepeats(r, seg) ==
    IF r.nextMediaSequence # NoSequence /\ seg.sequence < r.nextMediaSequence - 1 THEN r
    ELSE Trim([r EXCEPT !.segments = Append(@, [url |-> seg.url, start |-> r.timelinePos,
                                                duration |-> seg.duration,
                                                resetRemuxer |-> seg.discontinuity,
                                                initUrl |-> seg.map]),
                        !.timelinePos = @ + seg.duration,
                        !.nextMediaSequence = seg.sequence + 1])

\* One segment of a playlist.  A gap in the numbers is marked like a
\* discontinuity; the timeline goes on without it.
IngestOne(r, seg) ==
    LET known   == r.nextMediaSequence # NoSequence
        skipped == known /\ seg.sequence > r.nextMediaSequence
    IN  IF known /\ seg.sequence < r.nextMediaSequence THEN r
        ELSE Trim([r EXCEPT !.segments = Append(@, [url |-> seg.url, start |-> r.timelinePos,
                                                    duration |-> seg.duration,
                                                    resetRemuxer |-> seg.discontinuity \/ skipped,
                                                    initUrl |-> seg.map]),
                            !.timelinePos = @ + seg.duration,
                            !.nextMediaSequence = seg.sequence + 1])

Ingest(r, playlist) ==
    LET after[i \in 0..Len(playlist.segments)] ==
            IF i = 0 THEN [r EXCEPT !.live = playlist.live, !.ended = ~playlist.live]
            ELSE IngestOne(after[i - 1], playlist.segments[i])
    IN  after[Len(playlist.segments)]

\* Faulty variant: the timeline position is not rebased.
InitializeUnbased(r0, playlist) ==
    LET r     == Ingest(r0, playlist)
        index == IF Len(r.segments) > LiveEdgeSegments THEN Len(r.segments) - LiveEdgeSegments ELSE 0
        base  == IF index < Len(r.segments) THEN r.segments[index + 1].start ELSE 0
    IN  IF ~r.live THEN [r EXCEPT !.initialized = TRUE]
        ELSE [r EXCEPT !.initialized = TRUE, !.nextIndex = index,
                       !.segments = [i \in DOMAIN @ |->
                           [@[i] EXCEPT !.start = @ - base]]]

\* initialize: a live stream starts near its end, at time 0.
Initialize(r0, playlist) ==
    LET r     == Ingest(r0, playlist)
        index == IF Len(r.segments) > LiveEdgeSegments THEN Len(r.segments) - LiveEdgeSegments ELSE 0
        base  == IF index < Len(r.segments) THEN r.segments[index + 1].start ELSE 0
    IN  IF ~r.live THEN [r EXCEPT !.initialized = TRUE]
        ELSE [r EXCEPT !.initialized = TRUE, !.nextIndex = index, !.timelinePos = @ - base,
                       !.segments = [i \in DOMAIN @ |->
                           [@[i] EXCEPT !.start = @ - base]]]

-----------------------------------------------------------------------------
(* next(), from one wait to the next.                                        *)

\* The loop of next(): a segment, the end, or a refresh.
Serve(r) ==
    IF r.nextIndex < Len(r.segments)
    THEN LET meta == r.segments[r.nextIndex + 1]
         IN  /\ s' = [r EXCEPT !.nextIndex = @ + 1, !.resetPending = FALSE]
             /\ returned' = Append(returned,
                                [meta EXCEPT !.resetRemuxer = @ \/ r.resetPending])
             /\ at' = "idle"
    ELSE /\ s' = r
         /\ at' = IF r.ended THEN "end" ELSE "sleep"
         /\ UNCHANGED returned

\* A media playlist has been read.
Read(r, lines) ==
    LET playlist == ParseMedia(lines)
        fresh    == [r EXCEPT !.refreshFailures = 0]
    IN  /\ seen' = seen \cup {playlist.segments[i].url : i \in DOMAIN playlist.segments}
        /\ Serve(IF r.initialized THEN Ingest(fresh, playlist) ELSE Initialize(fresh, playlist))

\* The load loop asks.  The playlist that was downloaded when HLS was detected
\* is read at once.
Ask ==
    /\ at = "idle"
    /\ IF s.initialized THEN Serve(s) /\ UNCHANGED seen
       ELSE IF s.preloaded # << >> /\ ~s.multivariant
       THEN Read([s EXCEPT !.preloaded = << >>], s.preloaded)
       ELSE /\ s' = [s EXCEPT !.preloaded = << >>, !.multivariant = @ /\ s.preloaded = << >>]
            /\ at' = "fetch"
            /\ UNCHANGED <<returned, seen>>
    /\ UNCHANGED server

\* The wait before a refresh, or before another try, is over.
Wake ==
    /\ at = "sleep"
    /\ at' = "fetch"
    /\ UNCHANGED <<server, s, returned, seen>>

\* fetchPlaylist: a multivariant playlist leads to that of its best variant.
FetchSucceeds ==
    /\ at = "fetch"
    /\ IF s.multivariant
       THEN s' = [s EXCEPT !.multivariant = FALSE] /\ UNCHANGED <<at, returned, seen>>
       ELSE Read(s, Playlist(server))
    /\ UNCHANGED server

\* Faulty variant: only failures of the first playlist are counted.
FetchFailsFirst ==
    /\ at = "fetch"
    /\ LET failures == IF s.initialized THEN 0 ELSE s.refreshFailures + 1
       IN  /\ s' = [s EXCEPT !.refreshFailures = failures]
           /\ at' = IF failures >= MaxRefreshFailures THEN "failed" ELSE "sleep"
    /\ UNCHANGED <<server, returned, seen>>

\* Another try after a delay, or none: the source gives up.
Retry == at' = IF s.refreshFailures + 1 >= MaxRefreshFailures THEN "failed" ELSE "sleep"

FetchFails ==
    /\ at = "fetch"
    /\ s' = [s EXCEPT !.refreshFailures = @ + 1]
    /\ Retry
    /\ UNCHANGED <<server, returned, seen>>

\* The playlist handed over is none, or has no variant (parseM3U8 throws): this
\* counts as a failure, and the next try fetches it.
PreloadedInvalid ==
    /\ at = "idle" /\ ~s.initialized /\ s.preloaded # << >>
    /\ s' = [s EXCEPT !.preloaded = << >>, !.refreshFailures = @ + 1]
    /\ Retry
    /\ UNCHANGED <<server, returned, seen>>

\* destroy: waits and requests are cut off, and next() returns null or throws,
\* which nobody hears (the run is superseded).
Destroy ==
    /\ at \in {"idle", "fetch", "sleep"}
    /\ at' = "destroyed"
    /\ UNCHANGED <<server, s, returned, seen>>

Next ==
    \/ Publish \/ ClosePlaylist
    \/ Ask \/ PreloadedInvalid \/ Wake \/ FetchSucceeds \/ FetchFails \/ Destroy

\* The loop keeps asking, timers fire, requests are answered, the server
\* publishes and in the end closes its playlist.  For Ask and for the answers this
\* is weak fairness written out: they are enabled exactly at "idle" and at "fetch"
\* (next() is too deep for TLC's ENABLED).
Spec ==
    /\ Init /\ [][Next]_vars
    /\ WF_vars(Wake) /\ WF_vars(Publish) /\ WF_vars(ClosePlaylist)
    /\ []<>(at # "idle") \/ []<><<Ask>>_vars
    /\ []<>(at # "fetch") \/ []<><<FetchSucceeds \/ FetchFails>>_vars

-----------------------------------------------------------------------------
(* Properties.                                                               *)

Queued == SubSeq(s.segments, s.nextIndex + 1, Len(s.segments))

TypeOK ==
    /\ server.first \in 0..(MaxSequence + 1) /\ server.last \in 0..MaxSequence
    /\ at \in {"idle", "fetch", "sleep", "end", "failed", "destroyed"}
    /\ s.nextIndex \in 0..Len(s.segments)
    /\ s.nextMediaSequence \in 0..(MaxSequence + 1) \cup {NoSequence}
    /\ s.timelinePos \in 0..(2 * MaxSequence + 2)
    /\ s.refreshFailures \in 0..MaxRefreshFailures
    /\ \A i \in DOMAIN returned : returned[i].url \in 0..MaxSequence
    /\ seen \subseteq 0..MaxSequence

\* What is returned and what waits is, in order and each once, every segment of
\* the playlists read since the first one returned: no refresh, trim or overlap
\* of two playlists loses or repeats one.
SeenIsKept ==
    LET all == returned \o Queued
    IN  all # << >> =>
            /\ \A i \in 1..(Len(all) - 1) : all[i].url < all[i + 1].url
            /\ {all[i].url : i \in DOMAIN all} = {n \in seen : n >= all[1].url}

\* The timeline has no holes: a segment starts where the ones returned before
\* it end, wherever in the live window playback began and whatever was missed.
TimelineGapless ==
    LET start[i \in 0..Len(returned)] ==
            IF i = 0 THEN 0 ELSE start[i - 1] + Duration(returned[i].url)
    IN  \A i \in DOMAIN returned : returned[i].start = start[i - 1]

\* The source between any two playlists: its types, and a timeline without
\* holes.
SourceInv == TypeOK /\ TimelineGapless

\* The remuxer is reset at every break (the first segment, a new period, missed
\* segments) and nowhere else, and every segment comes with its own
\* initialization.
BreaksAreMarked ==
    \A i \in DOMAIN returned :
        LET n == returned[i].url
        IN  /\ returned[i].initUrl = Period(n)
            /\ returned[i].resetRemuxer <=>
                 (i = 1 \/ n \in Discontinuities \/ returned[i - 1].url # n - 1)

\* Once the playlist is closed the source comes to its end, or gives up on it.
SourceEnds == <>(at \in {"end", "failed", "destroyed"})
=============================================================================
