---------------------------- MODULE FetchLoader -----------------------------
(* The stream loader of the web player (io/fetch-loader.ts) with its only    *)
(* consumer, the load of a segment (_loadSegment in worker/pipeline.ts): a   *)
(* request is read chunk by chunk, bytes the consumer does not take are      *)
(* stashed and put in front of the next chunk, and a live stream is paused by*)
(* aborting its request and resumed by a new one.                            *)
(*                                                                           *)
(* A byte is identified by its request and its position.  The reads of an    *)
(* aborted request may still settle, so every request stays until it has.    *)
(* The range of _internalSeek is left out: the pipeline pauses only live     *)
(* loads (resumeMode "restart"), so nothing resumes in the middle of a file. *)
(* The stash grows as needed (_expandBuffer).                                *)
EXTENDS Naturals, Sequences

CONSTANTS
    Packet,         \* a consumer leaves less than this of what it is shown
    MaxChunk,       \* bound: bytes of a chunk
    MaxSize,        \* bound: bytes of a response
    MaxCycles       \* bound: requests

ASSUME LoaderAssumption ==
    /\ Packet \in Nat \ {0}
    /\ MaxChunk \in Nat \ {0}
    /\ MaxSize \in Nat
    /\ MaxCycles \in Nat \ {0}

Outcomes == {"complete", "error", "playlist", "cancelled"}

VARIABLES
    live,           \* resumeMode is "restart"
    status,         \* _status
    paused,         \* _paused
    requests,       \* the requests that have not settled
    stash,          \* the bytes in _stashBuffer
    stashByteStart, \* the position of the first of them
    cycle,          \* the requests started so far
    taken,          \* history: the bytes the consumer has taken of this one
    outcome,        \* how the load ended
    final           \* history: the request that completed, and what was dropped

loader == <<status, paused, requests, stash, stashByteStart>>
loaderVars == <<live, loader, cycle, taken, outcome, final>>

\* _startFetch.  The server decides how much it has and whether it says so.
Request(c, size, announced) ==
    [cycle |-> c, phase |-> "connecting", received |-> 0, size |-> size,
     announced |-> announced, aborted |-> FALSE]

StartFetch(c) ==
    \E size \in 0..MaxSize, announced \in BOOLEAN :
        /\ requests' = {[r EXCEPT !.aborted = TRUE] : r \in requests}
                            \cup {Request(c, size, announced)}
        /\ status' = "connecting"

NoFinal == [size |-> 0, dropped |-> 0, announced |-> FALSE]

\* open
LoaderInit ==
    /\ live \in BOOLEAN
    /\ status = "connecting"
    /\ paused = FALSE
    /\ \E size \in 0..MaxSize, announced \in BOOLEAN : requests = {Request(1, size, announced)}
    /\ stash = << >>
    /\ stashByteStart = 0
    /\ cycle = 1
    /\ taken = << >>
    /\ outcome = "none"
    /\ final = NoFinal

-----------------------------------------------------------------------------
(* The stash.                                                                *)

\* The consumer (a demuxer, or the collector of fMP4) takes whole packets.
Takes(data) == {n \in 0..Len(data) : Len(data) - n < Packet}

\* _dispatchChunks: the consumer is shown data and told its position, and takes n.
Dispatch(data, byteStart, n) ==
    taken' = taken \o [i \in 1..n |-> [at |-> byteStart + i - 1, byte |-> data[i]]]

\* _stashUnconsumed
Keep(data, n, byteStart) ==
    /\ stash' = SubSeq(data, n + 1, Len(data))
    /\ stashByteStart' = IF n = Len(data) THEN 0 ELSE byteStart + n

\* _flushStashBuffer(false), when a load fails: what is left stays.
FlushStash ==
    IF stash = << >> THEN UNCHANGED <<stash, stashByteStart, taken>>
    ELSE \E n \in Takes(stash) : Dispatch(stash, stashByteStart, n) /\ Keep(stash, n, stashByteStart)

-----------------------------------------------------------------------------
(* The pump.  A step of a request that was aborted has no effect but to      *)
(* settle it.                                                                *)

Settled(r) == requests \ {r}

\* The promise of a load is settled, and its loader is destroyed.
Destroyed(result) ==
    /\ outcome' = result
    /\ status' = "idle"
    /\ UNCHANGED <<live, paused, cycle>>

\* The consumer throws again, at the flush of what is left: the error is not
\* reported, and the load stands until it is cancelled.
Unreported ==
    /\ stash # << >>
    /\ status' = "error"
    /\ UNCHANGED <<live, paused, stash, stashByteStart, cycle, taken, outcome>>

\* _handleLoaderError
Fail(r) ==
    /\ requests' = Settled(r)
    /\ \/ FlushStash /\ Destroyed("error")
       \/ Unreported
    /\ UNCHANGED final

StaleRead(r) ==
    /\ r.aborted
    /\ requests' = Settled(r)
    /\ UNCHANGED <<live, status, paused, stash, stashByteStart, cycle, taken, outcome, final>>

Current(r) == ~r.aborted /\ outcome = "none"

\* The response: media, a playlist (whose text is read next), or an error.
ResponseArrives(r) ==
    /\ Current(r) /\ r.phase = "connecting"
    /\ requests' = Settled(r) \cup {[r EXCEPT !.phase = "reading"]}
    /\ UNCHANGED <<live, status, paused, stash, stashByteStart, cycle, taken, outcome, final>>

PlaylistFound(r) ==
    /\ Current(r) /\ r.phase = "connecting"
    /\ requests' = Settled(r) \cup {[r EXCEPT !.phase = "text"]}
    /\ status' = "idle"
    /\ UNCHANGED <<live, paused, stash, stashByteStart, cycle, taken, outcome, final>>

\* onHLSDetected
PlaylistRead(r) ==
    /\ Current(r) /\ r.phase = "text"
    /\ requests' = Settled(r)
    /\ Destroyed("playlist")
    /\ UNCHANGED <<stash, stashByteStart, taken, final>>

\* Faulty variant: the failure is not passed on.
RequestFailsQuietly(r) ==
    /\ Current(r)
    /\ requests' = Settled(r)
    /\ UNCHANGED <<live, status, paused, stash, stashByteStart, cycle, taken, outcome, final>>

\* The request, or reading its body, fails; so does a bad status.
RequestFails(r) == Current(r) /\ Fail(r)

\* The next n bytes of a response.
Chunk(r, n) == [i \in 1..n |-> <<r.cycle, r.received + i - 1>>]

\* Faulty variant: the stashed bytes keep the position of the chunk.
ArriveMisplaced(data, byteStart) ==
    \E n \in Takes(stash \o data) :
        /\ Dispatch(stash \o data, byteStart, n)
        /\ Keep(stash \o data, n, byteStart)

\* _onFetchChunkArrival: what was stashed goes in front.
Arrive(data, byteStart) ==
    IF stash = << >>
    THEN \E n \in Takes(data) : Dispatch(data, byteStart, n) /\ Keep(data, n, byteStart)
    ELSE \E n \in Takes(stash \o data) :
            /\ Dispatch(stash \o data, stashByteStart, n)
            /\ Keep(stash \o data, n, stashByteStart)

\* A chunk is read.
ChunkArrives(r, n) ==
    /\ Current(r) /\ r.phase = "reading" /\ r.received + n <= r.size
    /\ requests' = Settled(r) \cup {[r EXCEPT !.received = @ + n]}
    /\ status' = "buffering"
    /\ Arrive(Chunk(r, n), r.received)
    /\ UNCHANGED <<live, paused, cycle, outcome, final>>

\* The consumer throws (a demuxer on damaged data): the load fails; how much of
\* the chunk was used nobody knows.
ConsumerThrows(r, n) ==
    /\ Current(r) /\ r.phase = "reading" /\ r.received + n <= r.size
    /\ Fail(r)

\* Faulty variant: an early end counts as complete.
BodyEndsEarly(r) ==
    /\ Current(r) /\ r.phase = "reading"
    /\ requests' = Settled(r)
    /\ \E n \in Takes(stash) :
         /\ Dispatch(stash, stashByteStart, n)
         /\ final' = [size |-> r.size, dropped |-> Len(stash) - n, announced |-> r.announced]
    /\ stash' = << >> /\ stashByteStart' = 0
    /\ Destroyed("complete")

\* The body ends, early or not; _onFetchComplete drops what is left.
BodyEnds(r) ==
    /\ Current(r) /\ r.phase = "reading"
    /\ IF r.announced /\ r.received < r.size THEN Fail(r)
       ELSE /\ requests' = Settled(r)
            /\ \E n \in Takes(stash) :
                 /\ Dispatch(stash, stashByteStart, n)
                 /\ final' = [size |-> r.size, dropped |-> Len(stash) - n, announced |-> r.announced]
            /\ stash' = << >> /\ stashByteStart' = 0
            /\ Destroyed("complete")

-----------------------------------------------------------------------------
(* The pipeline.                                                             *)

Working == status \in {"connecting", "buffering"} /\ ~paused /\ outcome = "none"

\* Faulty variant: the request is left to run out.
PauseLeaving ==
    /\ live /\ Working
    /\ stash' = << >> /\ stashByteStart' = 0
    /\ paused' = TRUE
    /\ UNCHANGED <<live, status, requests, cycle, taken, outcome, final>>

\* pause: the request is aborted and the stash dropped.
Pause ==
    /\ live /\ Working
    /\ requests' = {[r EXCEPT !.aborted = TRUE] : r \in requests}
    /\ stash' = << >> /\ stashByteStart' = 0
    /\ paused' = TRUE
    /\ UNCHANGED <<live, status, cycle, taken, outcome, final>>

\* resume, _internalRestart and onRestarted: a new cycle of the stream
Resume ==
    /\ paused /\ outcome = "none" /\ cycle < MaxCycles
    /\ paused' = FALSE
    /\ cycle' = cycle + 1
    /\ taken' = << >>
    /\ StartFetch(cycle + 1)
    /\ UNCHANGED <<live, stash, stashByteStart, outcome, final>>

\* _abortCurrentLoad: destroy aborts a request that is being worked on.
Cancel ==
    /\ outcome = "none"
    /\ requests' = IF Working THEN {[r EXCEPT !.aborted = TRUE] : r \in requests} ELSE requests
    /\ stash' = << >> /\ stashByteStart' = 0
    /\ Destroyed("cancelled")
    /\ UNCHANGED <<taken, final>>

\* A request that was not aborted settles after its loader is gone: there is
\* nobody left to tell (the text of a playlist).
Forgotten(r) ==
    /\ ~r.aborted /\ outcome # "none"
    /\ requests' = Settled(r)
    /\ UNCHANGED <<live, status, paused, stash, stashByteStart, cycle, taken, outcome, final>>

Answer(r) ==
    \/ ResponseArrives(r) \/ PlaylistFound(r) \/ PlaylistRead(r) \/ RequestFails(r) \/ BodyEnds(r)
    \/ \E n \in 1..MaxChunk : ChunkArrives(r, n)

LoaderNext ==
    \/ \E r \in requests :
         \/ Answer(r) \/ StaleRead(r) \/ Forgotten(r)
         \/ \E n \in 1..MaxChunk : ConsumerThrows(r, n)
    \/ Pause \/ Resume \/ Cancel

\* The network answers, and a pause ends.
LoaderSpec ==
    /\ LoaderInit /\ [][LoaderNext]_loaderVars
    /\ WF_loaderVars(\E r \in requests : Answer(r))
    /\ WF_loaderVars(Resume)

-----------------------------------------------------------------------------
(* Properties.                                                               *)

Byte == (1..MaxCycles) \X (0..(MaxSize - 1))

LoaderTypeOK ==
    /\ {live, paused} \subseteq BOOLEAN
    /\ status \in {"idle", "connecting", "buffering", "error"}
    /\ requests \subseteq [cycle : 1..cycle, phase : {"connecting", "text", "reading"},
                           received : 0..MaxSize, size : 0..MaxSize,
                           announced : BOOLEAN, aborted : BOOLEAN]
    /\ stash \in Seq(Byte)
    /\ stashByteStart \in 0..MaxSize
    /\ cycle \in 1..MaxCycles
    /\ taken \in Seq([at : 0..(MaxSize - 1), byte : Byte])
    /\ outcome \in Outcomes \cup {"none"}
    /\ final \in [size : 0..MaxSize, dropped : 0..MaxSize, announced : BOOLEAN]

Feed == INSTANCE ByteFeed WITH cycle <- cycle, taken <- taken, outcome <- outcome

\* The loader keeps the promise of ByteFeed, whatever the chunks are cut into,
\* however much the consumer leaves, and whichever requests a pause leaves behind.
FeedsInOrder == Feed!Spec

\* "complete" means complete: with an announced length the consumer was shown
\* everything, and less than a packet of it was dropped.
CompleteIsWhole ==
    outcome = "complete" /\ final.announced
        => Len(taken) + final.dropped = final.size /\ final.dropped < Packet

\* At most one request is not aborted, and it is read from only while the loader
\* is neither paused nor at its end.
OneRequest ==
    /\ \A r, q \in requests : ~r.aborted /\ ~q.aborted => r = q
    /\ \A r \in requests : ~r.aborted =>
         /\ r.cycle = cycle /\ ~paused
         /\ r.phase # "text" => outcome = "none" /\ status \in {"connecting", "buffering"}
         /\ r.phase # "reading" => r.received = 0

\* What was taken, what is stashed and what is to come follow each other without
\* a gap, and the stash is filed under its true position.
InPlace ==
    /\ \A i \in 1..Len(taken) : taken[i] = [at |-> i - 1, byte |-> <<cycle, i - 1>>]
    /\ \A i \in 1..Len(stash) : stash[i] = <<cycle, Len(taken) + i - 1>>
    /\ stashByteStart = IF stash = << >> THEN 0 ELSE Len(taken)
    /\ paused => stash = << >>
    /\ Len(taken) + Len(stash) <= MaxSize
    /\ \A r \in requests : ~r.aborted => r.received = Len(taken) + Len(stash) /\ r.received <= r.size

\* The loader between any two callbacks: its types, one request at most, and
\* every byte in its place.
LoaderInv == LoaderTypeOK /\ OneRequest /\ InPlace

\* A load comes to an end, unless its stream is paused for good, or the consumer
\* throws at the flush of a load that fails (fetch-loader.ts:565).
LoadEnds == <>(outcome # "none" \/ status = "error" \/ (paused /\ cycle = MaxCycles))
=============================================================================
