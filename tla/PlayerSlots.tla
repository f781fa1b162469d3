---------------------------- MODULE PlayerSlots -----------------------------
(***************************************************************************)
(* The two player slots behind the web player's picture                    *)
(* (web-ui/src/components/player/video-player.tsx) together with the part  *)
(* of the page that decides what is played (web-ui/src/pages/player.tsx).  *)
(*                                                                         *)
(* The page keeps the channel, the source, "at the live edge" and the      *)
(* start time, and turns them into a list of segments in an effect that    *)
(* runs after they have been rendered; the list reaches the player with    *)
(* the next rendering.  The player loads a new list either into the        *)
(* visible slot (a hard switch) or into the hidden one, which is revealed  *)
(* once it plays.  Handlers run between renderings: they read what was     *)
(* rendered last and queue what is to be rendered next, so every piece of  *)
(* React state is a pair here (page/want, list/next, seen/queued), while   *)
(* what the code keeps in refs is read and written at once (player).       *)
(*                                                                         *)
(* A segment list is the stream it plays and where it starts: the live     *)
(* edge, or a start time.  Start times are told apart, never measured, so  *)
(* they are numbers, and a new one is one more than the one rendered last: *)
(* every seek makes a new Date, and every catch-up list is a new array.    *)
(***************************************************************************)
EXTENDS Integers

CONSTANTS
    Channels,      \* the channels of the playlist
    NumSources,    \* sources of each channel
    Catchup,       \* the streams (channel and source) that offer catch-up
    Broken,        \* the streams that never begin to play
    MaxRetries,    \* MAX_RETRIES
    MaxActs,       \* bound: what the user does
    MaxFaults,     \* bound: faults of streams and of the browser
    None

Slots == {"a", "b"}
Edge == -1
Streams == Channels \X (1 .. NumSources)
Lists == [stream : Streams, start : Nat \cup {Edge}]
OtherSlot(s) == IF s = "a" THEN "b" ELSE "a"

ASSUME PlayerAssumption ==
    /\ NumSources \in Nat \ {0} /\ MaxRetries \in Nat \ {0}
    /\ MaxActs \in Nat /\ MaxFaults \in Nat
    /\ Catchup \subseteq Streams /\ Broken \subseteq Streams
    /\ None \notin Streams /\ None \notin Slots

VARIABLES
    want,      \* the page's channel, source, live edge and start as last set
    page,      \*   and as last rendered
    next,      \* the segment list as last set (None: no segments yet)
    list,      \*   and as last rendered
    queued,    \* retryCount, retryBaseline, error, needsUserInteraction as last set
    seen,      \*   and as last rendered
    player,    \* the slots and the refs of the component
    seamless,  \* the seamlessSwitch setting as last set and as last rendered
    hidden,    \* the page: visible, in the background, or there with its
               \*   picture in a window of its own (picture in picture)
    forgotten, \* history: a list was passed over and nothing was loaded since
    acts, faults

vars == <<want, page, next, list, queued, seen, player, seamless, hidden,
          forgotten, acts, faults>>

Idle == [list |-> None, phase |-> "idle", paused |-> TRUE, playing |-> {}]

Init ==
    /\ want = [stream |-> None, live |-> TRUE, start |-> 0]
    /\ page = want
    /\ next = None /\ list = None
    /\ queued = [count |-> 0, base |-> 0, error |-> FALSE, blocked |-> FALSE]
    /\ seen = queued
    /\ player = [active |-> "a", pending |-> None, slot |-> [s \in Slots |-> Idle],
                 started |-> FALSE, prev |-> None, skip |-> FALSE,
                 retrySeek |-> FALSE, autoplay |-> TRUE, userPaused |-> FALSE,
                 stable |-> None]
    /\ seamless = [set |-> TRUE, seen |-> TRUE]
    /\ hidden = "no" /\ forgotten = FALSE
    /\ acts = 0 /\ faults = 0

-----------------------------------------------------------------------------
(* The slots.  A `playing' event that is still queued when its slot is      *)
(* loaded anew or stopped is older than what the slot holds then.           *)

IsLive(l) == l = None \/ l.start = Edge        \* playMode, which goes with the list

Aged(events) == IF events = {} THEN {} ELSE {"old"}

Put(p, s, l, phase) ==
    [p EXCEPT !.slot[s] = [list |-> l, phase |-> phase, paused |-> TRUE,
                           playing |-> Aged(p.slot[s].playing)]]

StopSlot(p, s) == Put(p, s, None, "idle")

LoadSlot(p, s, l) == Put(p, s, l, "loading")

\* play() on a stream that was only paused makes it report `playing' again.
PlayVideo(p, s) ==
    [p EXCEPT !.slot[s].paused = FALSE,
              !.slot[s].playing = IF p.slot[s].phase = "playing" /\ p.slot[s].paused
                                  THEN @ \cup {"new"} ELSE @]

PlayWanted(p, s) == [PlayVideo(p, s) EXCEPT !.userPaused = FALSE]

\* The slot that is to show the latest list: the one being brought up, if any.
Target == IF player.pending # None THEN player.pending ELSE player.active

Active == player.slot[player.active]

StopPendingTransition(p) ==
    IF p.pending = None THEN p
    ELSE [StopSlot(p, p.pending) EXCEPT !.pending = None]

LoadActiveSlotSegments(p, l) ==
    LET loaded == LoadSlot(p, p.active, l)
    IN  IF p.autoplay THEN PlayWanted(loaded, p.active) ELSE loaded

IsStreamSwitch(p, stream) == stream # None /\ p.prev # None /\ stream # p.prev

UseSeamlessSwitch(p, stream, l) ==
    /\ p.started
    /\ IsStreamSwitch(p, stream) /\ IsLive(l)
    /\ p.autoplay /\ ~p.slot[p.active].paused

\* `hard' when it is forced, the setting is off, or picture in picture is on.
HandleLoadSegments(p, stream, l, hard) ==
    LET q == [p EXCEPT !.stable = None, !.prev = stream]
        other == OtherSlot(p.active)
        hiddenSlot == LoadSlot(StopSlot([q EXCEPT !.pending = None], other), other, l)
    IN  IF ~hard /\ UseSeamlessSwitch(p, stream, l)
        THEN [PlayWanted(hiddenSlot, other) EXCEPT !.pending = other]
        ELSE LoadActiveSlotSegments(StopPendingTransition(q), l)

\* Mutant: the visible slot is not loaded instead.
FallbackQuietly(p, s) == [StopSlot(p, s) EXCEPT !.pending = None]

\* fallbackPendingSwitchToHardSwitch: give the hidden slot up.
Fallback(p, s) ==
    HandleLoadSegments([StopSlot(p, s) EXCEPT !.pending = None],
                       page.stream, list, TRUE)

\* Mutant: the slot that was visible goes on.
CompleteTransitionKeeping(p, s) == [p EXCEPT !.active = s, !.pending = None]

CompleteTransition(p, s) ==
    StopSlot([p EXCEPT !.active = s, !.pending = None], p.active)

\* What a handler leaves alone when it only touches the player.
ReactUnchanged == UNCHANGED <<want, page, next, list, queued, seen>>

-----------------------------------------------------------------------------
(* The page.                                                                *)

Fresh(start) == start + 1

\* handleVideoSeek
Seek(live) == want' = [want EXCEPT !.live = live, !.start = Fresh(page.start)]

\* handleSourceChange
ChangeSource(i) ==
    want' = [stream |-> <<want.stream[1], i>>, start |-> Fresh(page.start),
             live |-> IsLive(list) \/ want.live]

Offers(stream) == {i \in 1 .. NumSources : <<stream[1], i>> \in Catchup}

FirstOffer(stream) == CHOOSE i \in Offers(stream) : \A j \in Offers(stream) : i <= j

\* The effect that turns the rendered page state into a list, or corrects it.
PageEffect(pg) ==
    IF pg.stream = None THEN next' = next /\ want' = pg
    ELSE IF pg.live
    THEN next' = [stream |-> pg.stream, start |-> Edge] /\ want' = pg
    ELSE IF pg.stream \in Catchup
    THEN next' = [stream |-> pg.stream, start |-> pg.start] /\ want' = pg
    ELSE /\ next' = next
         /\ want' = IF Offers(pg.stream) # {}
                    THEN [pg EXCEPT !.stream = <<@[1], FirstOffer(pg.stream)>>]
                    ELSE [pg EXCEPT !.live = TRUE, !.start = Fresh(pg.start)]

\* The counters are reset when a new list is rendered that no retry asked for.
Counted(st) ==
    IF next = list \/ (player.retrySeek /\ ~IsStreamSwitch(player, want.stream))
    THEN st
    ELSE [st EXCEPT !.count = 0, !.base = 0]

\* A live list that equals the one set before is not set again, even when the
\* slot that plays it has failed.
Deduplicated ==
    /\ want # page /\ want.live /\ next # None
    /\ next = [stream |-> want.stream, start |-> Edge]
    /\ player.slot[Target].phase \in {"failed", "dead"}

\* The rendering that turns the setting off gives a hidden slot up.
SwitchedOff == seamless.seen /\ ~seamless.set

AfterSetting == IF SwitchedOff THEN StopPendingTransition(player) ELSE player

(* One rendering: everything queued becomes visible to the handlers, then   *)
(* the effects of the player run, the one of the setting before the one on  *)
(* a new list, and then the one of the page.                                *)
Render(pip) ==
    /\ want # page \/ next # list \/ queued # seen \/ seamless.set # seamless.seen
    /\ page' = want /\ list' = next
    /\ seen' = Counted(queued)
    /\ seamless' = [seamless EXCEPT !.seen = seamless.set]
    /\ LET p == [AfterSetting EXCEPT !.retrySeek = @ /\ next = list]
       IN  \/ /\ next = list
              /\ player' = p /\ queued' = seen'
              /\ forgotten' = (\/ forgotten \/ Deduplicated
                               \/ SwitchedOff /\ player.pending # None)
           \/ /\ next # list /\ player.skip
              /\ player' = [p EXCEPT !.skip = FALSE]
              /\ queued' = seen'
              /\ forgotten' = (player'.slot[Target'].list # next)
           \/ /\ next # list /\ ~player.skip
              /\ player' = HandleLoadSegments(p, want.stream, next, pip \/ ~seamless.set)
              /\ queued' = [seen' EXCEPT !.error = FALSE]
              /\ forgotten' = FALSE
    /\ IF want = page THEN UNCHANGED <<want, next>> ELSE PageEffect(want)
    /\ UNCHANGED <<hidden, acts, faults>>

-----------------------------------------------------------------------------
(* What the user does.                                                      *)

Act == acts < MaxActs /\ acts' = acts + 1 /\ UNCHANGED <<hidden, faults>>

QueueOnly == UNCHANGED <<page, next, list, queued, seen>>

SelectChannel(stream) ==
    /\ Act
    /\ want' = [stream |-> stream, live |-> TRUE, start |-> Fresh(page.start)]
    /\ QueueOnly /\ UNCHANGED <<player, seamless, forgotten>>

ChooseSource(i) ==
    /\ Act /\ page.stream # None /\ want.stream # None
    /\ ChangeSource(i)
    /\ QueueOnly /\ UNCHANGED <<player, seamless, forgotten>>

\* A seek outside the buffer (seek-needed), or inside it.
SeekAway ==
    /\ Act /\ page.stream # None /\ Offers(page.stream) # {}
    /\ player' = [player EXCEPT !.autoplay = ~Active.paused]
    /\ (\E near \in BOOLEAN : Seek(near)) \/ UNCHANGED want
    /\ QueueOnly /\ UNCHANGED <<seamless, forgotten>>

GoLive ==
    /\ Act /\ page.stream # None
    /\ IF IsLive(list)
       THEN player' = PlayWanted(player, player.active) /\ UNCHANGED want
       ELSE /\ player' = [player EXCEPT !.autoplay = ~Active.paused,
                                        !.userPaused = FALSE]
            /\ Seek(TRUE)
    /\ QueueOnly /\ UNCHANGED <<seamless, forgotten>>

TogglePlayPause ==
    /\ Act
    /\ player' = IF Active.paused THEN PlayWanted(player, player.active)
                 ELSE [player EXCEPT !.userPaused = TRUE, !.stable = None,
                                     !.slot[player.active].paused = TRUE]
    /\ ReactUnchanged /\ UNCHANGED <<seamless, forgotten>>

ToggleSeamless ==
    /\ Act
    /\ seamless' = [seamless EXCEPT !.set = ~@]
    /\ ReactUnchanged /\ UNCHANGED <<player, forgotten>>

\* Any click once autoplay was refused.
HandleUserInteraction ==
    /\ seen.blocked
    /\ queued' = [queued EXCEPT !.blocked = FALSE]
    /\ player' = PlayWanted(player, player.active)
    /\ UNCHANGED <<want, page, next, list, seen, seamless, hidden, forgotten,
                   acts, faults>>

-----------------------------------------------------------------------------
(* What the media elements report.                                          *)

Reported == UNCHANGED <<seamless, hidden, acts>>

Fault == faults < MaxFaults /\ faults' = faults + 1

\* A stream that is loaded and not paused begins to play; the event is queued.
BeginsToPlay(s) ==
    /\ player.slot[s].phase = "loading" /\ ~player.slot[s].paused
    /\ player.slot[s].list.stream \notin Broken
    /\ player' = [player EXCEPT !.slot[s].phase = "playing",
                                !.slot[s].playing = @ \cup {"new"}]
    /\ ReactUnchanged /\ Reported /\ UNCHANGED <<forgotten, faults>>

\* Mutant: the time of the event is not looked at.
CompletesAtAnyTime(p, s, age) == p.pending = s

\* Mutant: the times are compared the wrong way round.
CompletesLate(p, s, age) == p.pending = s /\ age = "old"

\* completePendingSwitchIfNeeded: only for an event of the load it waits for.
Completes(p, s, age) == p.pending = s /\ age = "new"

HandleVideoPlaying(s, age) ==
    /\ age \in player.slot[s].playing
    /\ LET p == [player EXCEPT !.slot[s].playing = @ \ {age}]
           q == IF Completes(p, s, age) THEN CompleteTransition(p, s) ELSE p
       IN  player' = IF q.active # s THEN q
                     ELSE [q EXCEPT !.started = TRUE,
                                    !.stable = [count |-> seen.count, base |-> seen.base]]
    /\ ReactUnchanged /\ Reported /\ UNCHANGED <<forgotten, faults>>

\* The stream runs dry; it reports `playing' again once it goes on.
HandleVideoWaiting(s) ==
    /\ s = player.active \/ s = player.pending
    /\ player.slot[s].phase = "playing" /\ player.stable # None
    /\ player' = [player EXCEPT !.stable = None, !.slot[s].playing = @ \cup {"new"}]
    /\ ReactUnchanged /\ Reported /\ UNCHANGED <<forgotten, faults>>

\* Thirty seconds of playback accept the retries made so far.
StableTimeout ==
    /\ player.stable # None
    /\ queued' = IF player.stable.count > player.stable.base
                 THEN [queued EXCEPT !.base = player.stable.count] ELSE queued
    /\ player' = [player EXCEPT !.stable = None]
    /\ Fault
    /\ UNCHANGED <<want, page, next, list, seen, forgotten>> /\ Reported

RetryList ==
    IF ~IsLive(list) /\ page.stream \in Catchup
    THEN [stream |-> page.stream, start |-> Fresh(page.start)] ELSE list

Retry(p, decode, pip) ==
    /\ queued' = [queued EXCEPT !.count = seen.count + 1, !.error = FALSE,
                                !.base = IF decode THEN seen.base + 1 ELSE @]
    /\ Seek(IsLive(list))
    /\ player' = HandleLoadSegments([p EXCEPT !.retrySeek = TRUE,
                                              !.skip = @ \/ ~IsLive(list)],
                                    page.stream, RetryList, pip \/ ~seamless.seen)
    /\ UNCHANGED forgotten

\* runPlayerErrorRecovery; a slot reports one error for each load.
RunPlayerErrorRecovery(s, decode, pip) ==
    LET p == [player EXCEPT !.slot[s].phase = "failed"]
    IN  \/ /\ p.pending = s
           /\ player' = Fallback(p, s)
           /\ queued' = [queued EXCEPT !.error = FALSE]
           /\ UNCHANGED <<want, forgotten>>
        \/ /\ p.pending # s /\ seen.count < seen.base + MaxRetries
           /\ Retry(p, decode, pip)
        \/ /\ p.pending # s /\ seen.count >= seen.base + MaxRetries
           /\ page.stream[2] < NumSources
           /\ player' = p /\ ChangeSource(page.stream[2] + 1)
           /\ UNCHANGED <<queued, forgotten>>
        \/ /\ p.pending # s /\ seen.count >= seen.base + MaxRetries
           /\ page.stream[2] = NumSources
           /\ player' = p /\ queued' = [queued EXCEPT !.error = TRUE]
           /\ UNCHANGED <<want, forgotten>>

Fails(s, decode, pip) ==
    /\ player.slot[s].phase \in {"loading", "playing"}
    /\ IF ~decode /\ player.slot[s].list.stream \in Broken THEN UNCHANGED faults
       ELSE Fault
    /\ RunPlayerErrorRecovery(s, decode, pip)
    /\ UNCHANGED <<page, next, list, seen>> /\ Reported

\* play() is refused: the hidden slot is given up, the visible one stays paused
\* and waits for a click if it was refused for want of one (NotAllowedError).
PlayRejected(s) ==
    /\ player.slot[s].phase = "loading" /\ ~player.slot[s].paused
    /\ Fault
    /\ IF s = player.pending
       THEN player' = Fallback(player, s) /\ queued' = [queued EXCEPT !.error = FALSE]
       ELSE /\ player' = [player EXCEPT !.slot[s].paused = TRUE]
            /\ \E notAllowed \in BOOLEAN :
                queued' = [queued EXCEPT !.blocked = @ \/ notAllowed]
    /\ UNCHANGED <<want, page, next, list, seen, forgotten>> /\ Reported

\* A finite list has been played to its end.
HandlePlaybackEnded ==
    /\ Active.phase = "playing" /\ Active.list.start # Edge
    /\ Fault
    /\ \E near \in BOOLEAN : Seek(near)
    /\ QueueOnly /\ UNCHANGED <<player, forgotten>> /\ Reported

-----------------------------------------------------------------------------
(* The page in the background: the browser may pause the media and may      *)
(* take the media source away, which is then not reported as an error; a    *)
(* picture in picture goes on playing.                                      *)

Hide ==
    /\ hidden = "no" /\ Fault
    /\ hidden' \in {"yes", "pip"}
    /\ ReactUnchanged /\ UNCHANGED <<player, seamless, forgotten, acts>>

LeavePictureInPicture ==
    /\ hidden = "pip" /\ hidden' = "yes"
    /\ ReactUnchanged /\ UNCHANGED <<player, seamless, forgotten, acts, faults>>

OsPauses ==
    /\ hidden = "yes" /\ ~Active.paused
    /\ player' = [player EXCEPT !.slot[player.active].paused = TRUE, !.stable = None]
    /\ ReactUnchanged /\ Reported /\ UNCHANGED <<forgotten, faults>>

SourceCloses(s) ==
    /\ hidden = "yes" /\ player.slot[s].phase \in {"loading", "playing"}
    /\ player' = [player EXCEPT !.slot[s].phase = "dead"]
    /\ ReactUnchanged /\ Reported /\ UNCHANGED <<forgotten, faults>>

NothingToRecover == seen.error \/ seen.blocked \/ hidden = "pip" \/ player.userPaused

\* play() of what the system paused; it may be refused for want of a click.
PlayAgain ==
    IF Active.phase # "idle" /\ Active.paused
    THEN \/ player' = PlayVideo(player, player.active) /\ queued' = queued
         \/ player' = player /\ queued' = [queued EXCEPT !.blocked = TRUE]
    ELSE player' = player /\ queued' = queued

HandleVisibilityChange ==
    /\ hidden # "no" /\ hidden' = "no"
    /\ \/ NothingToRecover /\ UNCHANGED <<player, want, queued>>
       \/ /\ ~NothingToRecover
          /\ Active.phase = "dead" \/ (Active.phase = "playing" /\ IsLive(list))
          /\ player' = [player EXCEPT !.autoplay = TRUE]
          /\ \E near \in (IF IsLive(list) THEN {TRUE} ELSE BOOLEAN) : Seek(near)
          /\ UNCHANGED queued
       \/ ~NothingToRecover /\ Active.phase # "dead" /\ PlayAgain /\ UNCHANGED want
    /\ UNCHANGED <<page, next, list, seen, seamless, forgotten, acts, faults>>

-----------------------------------------------------------------------------
User ==
    \/ \E stream \in Streams : SelectChannel(stream)
    \/ \E i \in 1 .. NumSources : ChooseSource(i)
    \/ SeekAway
    \/ GoLive
    \/ TogglePlayPause
    \/ ToggleSeamless
    \/ HandleUserInteraction

Media ==
    \/ \E s \in Slots : BeginsToPlay(s)
    \/ \E s \in Slots, age \in {"old", "new"} : HandleVideoPlaying(s, age)
    \/ \E s \in Slots : HandleVideoWaiting(s)
    \/ StableTimeout
    \/ \E s \in Slots, decode, pip \in BOOLEAN : Fails(s, decode, pip)
    \/ \E s \in Slots : PlayRejected(s)
    \/ HandlePlaybackEnded

Background ==
    \/ Hide
    \/ LeavePictureInPicture
    \/ OsPauses
    \/ \E s \in Slots : SourceCloses(s)
    \/ HandleVisibilityChange

Rendering == \E pip \in BOOLEAN : Render(pip)

Next == User \/ Media \/ Background \/ Rendering

(***************************************************************************)
(* React renders what is queued, queued events are delivered, a stream     *)
(* that can play begins to and one that cannot fails in the end.           *)
(***************************************************************************)
Fairness ==
    /\ WF_vars(Rendering)
    /\ \A s \in Slots :
        /\ WF_vars(BeginsToPlay(s))
        /\ WF_vars(\E age \in {"old", "new"} : HandleVideoPlaying(s, age))
        /\ WF_vars(s = Target /\ player.slot[s].list # None
                    /\ player.slot[s].list.stream \in Broken
                    /\ \E pip \in BOOLEAN : Fails(s, FALSE, pip))

Spec == Init /\ [][Next]_vars /\ Fairness

-----------------------------------------------------------------------------
PageStates == [stream : Streams \cup {None}, live : BOOLEAN, start : Nat]

Counters == [count : Nat, base : Nat, error : BOOLEAN, blocked : BOOLEAN]

SlotStates ==
    [list : Lists \cup {None},
     phase : {"idle", "loading", "playing", "failed", "dead"},
     paused : BOOLEAN, playing : SUBSET {"old", "new"}]

Players ==
    [active : Slots, pending : Slots \cup {None}, slot : [Slots -> SlotStates],
     started : BOOLEAN, prev : Streams \cup {None}, skip : BOOLEAN,
     retrySeek : BOOLEAN, autoplay : BOOLEAN, userPaused : BOOLEAN,
     stable : [count : Nat, base : Nat] \cup {None}]

TypeOK ==
    /\ {want, page} \subseteq PageStates
    /\ {next, list} \subseteq Lists \cup {None}
    /\ {queued, seen} \subseteq Counters
    /\ player \in Players
    /\ seamless \in [set : BOOLEAN, seen : BOOLEAN]
    /\ hidden \in {"no", "yes", "pip"} /\ forgotten \in BOOLEAN
    /\ acts \in 0 .. MaxActs /\ faults \in 0 .. MaxFaults

(***************************************************************************)
(* Only the slot on screen and the one being brought up hold a stream:     *)
(* however a transition ends (completed, given up, superseded, the setting *)
(* turned off), the slot that loses is stopped, so no invisible stream     *)
(* goes on fetching and sounding.                                          *)
(***************************************************************************)
OneSession ==
    \A s \in Slots \ {player.active} :
        player.slot[s].phase # "idle" => player.pending = s

\* The slot being brought up is not the one on screen, and when it has reported
\* that it plays, it does (or did, until the browser closed its source).
PendingIsHidden ==
    player.pending # None =>
        /\ player.pending # player.active
        /\ "new" \in player.slot[player.pending].playing
            => player.slot[player.pending].phase \in {"playing", "dead"}

\* A stable timer that is going to accept retries.
Due == player.stable # None /\ player.stable.count > player.stable.base

(***************************************************************************)
(* The retries are counted within their limit, rendered or not.  An error  *)
(* handled before the last one was rendered counts from the same number,   *)
(* and a timer accepts what was rendered when it was started.              *)
(***************************************************************************)
BudgetKept ==
    /\ seen.count <= seen.base + MaxRetries
    /\ queued.count <= queued.base + MaxRetries
    /\ queued.count \in {seen.count, seen.count + 1}
    /\ seen.base <= queued.base
    /\ seen.count > seen.base => queued.base <= seen.count
    /\ Due => /\ queued.base <= player.stable.count
              /\ queued.count <= player.stable.count + MaxRetries
              /\ \A st \in {queued, seen} :
                    st.count > st.base => player.stable.count <= st.count

(***************************************************************************)
(* What the page's effect has made of the page state rendered last: the    *)
(* list that belongs to it, or a correction that waits to be rendered.     *)
(***************************************************************************)
EffectDone ==
    /\ page.stream = None =>
        list = None /\ next = None /\ \A s \in Slots : player.slot[s].phase = "idle"
    /\ page.stream # None => want.stream # None
    /\ page.stream # None /\ page.live => next = [stream |-> page.stream, start |-> Edge]
    /\ page.stream # None /\ ~page.live /\ page.stream \in Catchup
        => next = [stream |-> page.stream, start |-> page.start]
    /\ page.stream # None /\ ~page.live /\ page.stream \notin Catchup => want # page

\* Start times are handed out in order.
StartsOrdered ==
    /\ want.start \in {page.start, page.start + 1}
    /\ want.start = page.start /\ want # page =>
        want.stream \in Catchup /\ ~want.live
    /\ next # None => next.start <= page.start
    /\ list # None => list.start <= page.start

(***************************************************************************)
(* The slot that is to be shown holds the list rendered last, unless that  *)
(* one was passed over or a retry of a catch-up list goes ahead of it; the *)
(* list that such a retry asked for is then still to come.                 *)
(***************************************************************************)
TargetHoldsList ==
    /\ list # None /\ ~forgotten /\ ~player.skip => player.slot[Target].list = list
    /\ player.skip => list # None
    /\ player.skip /\ next = list => ~IsLive(list) /\ list.start < want.start

\* The two slots between any two renders: their types, no stream that nobody
\* watches, the retries counted within their limit, and how far the list that
\* is loaded may lag behind the page.
PlayerInv ==
    /\ TypeOK /\ OneSession /\ PendingIsHidden /\ BudgetKept
    /\ EffectDone /\ StartsOrdered /\ TargetHoldsList

(***************************************************************************)
(* Once nothing is left to render, the slot that is to be shown holds the  *)
(* list the page asks for, whatever retries, fallbacks and user actions    *)
(* were mixed, unless the list was passed over: by the effect a retry of a *)
(* catch-up list had told to skip one, or by switching seamless switching  *)
(* off while the hidden slot was loading.                                  *)
(***************************************************************************)
LoadedIsSelected ==
    want = page /\ next = list /\ list # None /\ ~forgotten
        => player.slot[Target].list = list

(***************************************************************************)
(* The picture moves to the other slot only when the stream last loaded    *)
(* there plays: an event left over from a superseded load of that slot     *)
(* reveals nothing (video-player.tsx:636).                                 *)
(***************************************************************************)
RevealedHasStarted ==
    [][player'.active # player.active
        => player'.slot[player'.active].phase \in {"playing", "dead"}]_vars

(***************************************************************************)
(* A selection is settled again and again: the selected stream plays on    *)
(* screen, or the error is shown, or it is paused; a hidden transition     *)
(* never hangs, a broken source never retries for ever.  Left out: a media *)
(* source the browser closed in the background, and a list that was        *)
(* forgotten (see LoadedIsSelected), be it because it equals the list that *)
(* failed (player.tsx:203).                                                *)
(***************************************************************************)
Settled ==
    \/ page.stream = None
    \/ seen.error
    \/ forgotten
    \/ player.slot[Target].phase = "dead"
    \/ player.slot[Target].paused
    \/ /\ want = page /\ player.pending = None
       /\ Active.phase = "playing" /\ Active.list.stream = page.stream

SelectionSettles == []<>Settled

(***************************************************************************)
(* playback-controller.ts:424, of a media source closed in the background: *)
(* "The app reloads the stream on foreground."  Once the page is visible   *)
(* again and has nothing left to render, no dead session is on screen,     *)
(* unless the user had paused it or an error or a click is waited for.     *)
(***************************************************************************)
ForegroundReloads ==
    /\ hidden = "no" /\ want = page /\ next = list /\ queued = seen
    /\ ~(seen.error \/ seen.blocked \/ player.userPaused)
    => player.slot[player.active].phase # "dead"
=============================================================================
