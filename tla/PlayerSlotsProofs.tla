------------------------- MODULE PlayerSlotsProofs --------------------------
(***************************************************************************)
(* Proofs about PlayerSlots, for every set of channels, number of sources, *)
(* set of catch-up and broken streams and retry limit, and for any number  *)
(* of user actions and faults:                                             *)
(*                                                                         *)
(*   - PlayerInv is an invariant: only the slot on screen and the one      *)
(*     being brought up hold a stream, and the retries keep their budget;  *)
(*   - LoadedIsSelected: the slot that is to be shown holds the list the   *)
(*     page asks for;                                                      *)
(*   - RevealedHasStarted: the picture moves only to a stream that plays.  *)
(*                                                                         *)
(* All handlers but a rendering leave page, list and next alone.  They are *)
(* dealt with together: HandlerStep says what a handler may do to the      *)
(* player, the page state it asks for and the counters, and there is one   *)
(* lemma per handler that says that it does no more.                       *)
(***************************************************************************)
EXTENDS PlayerSlots, TLAPS, WellFoundedInduction

Phases == {"idle", "loading", "playing", "failed", "dead"}

\* A set of numbers has a least element.
LEMMA LeastNat ==
    ASSUME NEW S, S \subseteq Nat, S # {}
    PROVE  \E k \in S : \A j \in S : k <= j
<1> DEFINE Less == {ss \in Nat \X Nat : ss[1] < ss[2]}
<1>1. IsWellFoundedOn(Less, Nat)
  BY NatLessThanWellFounded, Zenon DEF OpToRel
<1>2. \A j, k \in Nat : <<j, k>> \in Less <=> j < k
  OBVIOUS
<1> HIDE DEF Less
<1>3. PICK k \in S : \A j \in S : ~(<<j, k>> \in Less)
  BY <1>1, WFMin
<1>4. ASSUME NEW j \in S PROVE k <= j
  <2>1. j \in Nat /\ k \in Nat /\ ~(<<j, k>> \in Less)
    BY <1>3
  <2>2. ~(j < k)
    BY <1>2, <2>1
  <2>3. QED
    BY <2>1, <2>2
<1>5. QED
  BY <1>3, <1>4

-----------------------------------------------------------------------------
(* Operators on the two slots.                                              *)

TargetOf(p) == IF p.pending # None THEN p.pending ELSE p.active

Shown(p) == p.slot[TargetOf(p)].list

\* OneSession and the first part of PendingIsHidden, of any player p.
Sound(p) ==
    /\ \A s \in Slots \ {p.active} : p.slot[s].phase # "idle" => p.pending = s
    /\ p.pending # p.active

\* The second part of PendingIsHidden.
Ready(p) ==
    p.pending # None => ("new" \in p.slot[p.pending].playing
                            => p.slot[p.pending].phase \in {"playing", "dead"})

\* What no operator on the slots changes.
SameRefs(p, q) ==
    /\ q.skip = p.skip /\ q.retrySeek = p.retrySeek /\ q.autoplay = p.autoplay
    /\ q.started = p.started

LEMMA SlotsInvariant ==
    ASSUME player \in Players
    PROVE  OneSession /\ PendingIsHidden <=> Sound(player) /\ Ready(player)
  BY PlayerAssumption DEF Players, OneSession, PendingIsHidden, Sound, Ready, Slots

\* Put replaces what one slot holds, and leaves no current event in it.
LEMMA PutSlot ==
    ASSUME NEW p \in Players, NEW s \in Slots, NEW l \in Lists \cup {None}, NEW ph \in Phases,
           NEW q, q = Put(p, s, l, ph)
    PROVE  /\ q \in Players
           /\ SameRefs(p, q) /\ q.active = p.active /\ q.pending = p.pending
           /\ q.stable = p.stable /\ q.prev = p.prev /\ q.userPaused = p.userPaused
           /\ q.slot[s].list = l /\ q.slot[s].phase = ph /\ q.slot[s].paused
           /\ "new" \notin q.slot[s].playing
           /\ \A t \in Slots \ {s} : q.slot[t] = p.slot[t]
<1> DEFINE new == [list |-> l, phase |-> ph, paused |-> TRUE, playing |-> Aged(p.slot[s].playing)]
<1>1. new \in SlotStates /\ "new" \notin new.playing
  BY DEF SlotStates, Phases, Aged
<1>2. q = [p EXCEPT !.slot = [p.slot EXCEPT ![s] = new]]
  BY DEF Put, Players
<1> HIDE DEF new
<1>3. /\ [p.slot EXCEPT ![s] = new] \in [Slots -> SlotStates]
      /\ [p.slot EXCEPT ![s] = new][s] = new
      /\ \A t \in Slots \ {s} : [p.slot EXCEPT ![s] = new][t] = p.slot[t]
  BY <1>1 DEF Players
<1>4. new.list = l /\ new.phase = ph /\ new.paused
  BY DEF new
<1>5. QED
  BY <1>1, <1>2, <1>3, <1>4 DEF Players, SameRefs

LEMMA StoppedSlot ==
    ASSUME NEW p \in Players, NEW s \in Slots,
           NEW q, q = StopSlot(p, s)
    PROVE  /\ q \in Players
           /\ SameRefs(p, q) /\ q.active = p.active /\ q.pending = p.pending
           /\ q.stable = p.stable /\ q.prev = p.prev /\ q.userPaused = p.userPaused
           /\ q.slot[s].phase = "idle"
           /\ \A t \in Slots \ {s} : q.slot[t] = p.slot[t]
  BY PutSlot DEF StopSlot, Phases

\* play() makes a slot play that was paused, and nothing else.
LEMMA PlaySlot ==
    ASSUME NEW p \in Players, NEW s \in Slots,
           NEW q, q = PlayVideo(p, s)
    PROVE  /\ q \in Players
           /\ SameRefs(p, q) /\ q.active = p.active /\ q.pending = p.pending
           /\ q.stable = p.stable /\ q.prev = p.prev /\ q.userPaused = p.userPaused
           /\ \A t \in Slots : /\ q.slot[t].list = p.slot[t].list
                               /\ q.slot[t].phase = p.slot[t].phase
                               /\ "new" \in q.slot[t].playing => \/ "new" \in p.slot[t].playing
                                                                 \/ q.slot[t].phase = "playing"
<1> DEFINE old == p.slot[s]
           ev == IF old.phase = "playing" /\ old.paused THEN old.playing \cup {"new"} ELSE old.playing
           new == [old EXCEPT !.paused = FALSE, !.playing = ev]
<1>0. p.slot \in [Slots -> SlotStates] /\ old \in SlotStates
  BY DEF Players
<1>1. new \in SlotStates
  BY <1>0 DEF SlotStates
<1>2. q = [p EXCEPT !.slot = [p.slot EXCEPT ![s] = new]]
  BY <1>0 DEF PlayVideo, Players, SlotStates
<1>3. /\ new.list = old.list /\ new.phase = old.phase
      /\ "new" \in new.playing => "new" \in old.playing \/ new.phase = "playing"
  BY <1>0 DEF SlotStates
<1> HIDE DEF new
<1>4. /\ [p.slot EXCEPT ![s] = new] \in [Slots -> SlotStates]
      /\ [p.slot EXCEPT ![s] = new][s] = new
      /\ \A t \in Slots \ {s} : [p.slot EXCEPT ![s] = new][t] = p.slot[t]
  BY <1>0, <1>1
<1>5. QED
  BY <1>0, <1>1, <1>2, <1>3, <1>4 DEF Players, SameRefs
LEMMA PlayWantedSlot ==
    ASSUME NEW p \in Players, NEW s \in Slots,
           NEW q, q = PlayWanted(p, s)
    PROVE  /\ q \in Players
           /\ SameRefs(p, q) /\ q.active = p.active /\ q.pending = p.pending
           /\ q.stable = p.stable /\ q.prev = p.prev
           /\ \A t \in Slots : /\ q.slot[t].list = p.slot[t].list
                               /\ q.slot[t].phase = p.slot[t].phase
                               /\ "new" \in q.slot[t].playing => \/ "new" \in p.slot[t].playing
                                                                 \/ q.slot[t].phase = "playing"
<1> DEFINE r == PlayVideo(p, s)
<1>1. /\ r \in Players
      /\ SameRefs(p, r) /\ r.active = p.active /\ r.pending = p.pending
      /\ r.stable = p.stable /\ r.prev = p.prev
      /\ \A t \in Slots : /\ r.slot[t].list = p.slot[t].list
                          /\ r.slot[t].phase = p.slot[t].phase
                          /\ "new" \in r.slot[t].playing => \/ "new" \in p.slot[t].playing
                                                            \/ r.slot[t].phase = "playing"
  BY PlaySlot
<1>2. q = [r EXCEPT !.userPaused = FALSE]
  BY DEF PlayWanted
<1> HIDE DEF r
<1>3. q \in Players /\ SameRefs(r, q) /\ q.active = r.active /\ q.pending = r.pending
      /\ q.stable = r.stable /\ q.prev = r.prev /\ q.slot = r.slot
  BY <1>1, <1>2 DEF Players, SameRefs
<1>4. QED
  BY <1>1, <1>3 DEF SameRefs

\* Giving up a transition stops its slot.
LEMMA StopPending ==
    ASSUME NEW p \in Players, Sound(p),
           NEW q, q = StopPendingTransition(p)
    PROVE  /\ q \in Players
           /\ SameRefs(p, q) /\ q.active = p.active /\ q.pending = None
           /\ q.stable = p.stable /\ q.prev = p.prev
           /\ q.slot[p.active] = p.slot[p.active]
           /\ Sound(q)
<1>0. None \notin Slots /\ p.active \in Slots
  BY PlayerAssumption DEF Players
<1>1. CASE p.pending = None
  BY <1>0, <1>1 DEF StopPendingTransition, SameRefs, Sound
<1>2. CASE p.pending # None
  <2> DEFINE r == StopSlot(p, p.pending)
  <2>1. p.pending \in Slots /\ p.pending # p.active
    BY <1>2 DEF Players, Sound
  <2>2. /\ r \in Players
        /\ SameRefs(p, r) /\ r.active = p.active
        /\ r.stable = p.stable /\ r.prev = p.prev
        /\ r.slot[p.pending].phase = "idle"
        /\ \A t \in Slots \ {p.pending} : r.slot[t] = p.slot[t]
    BY <2>1, StoppedSlot
  <2>3. q = [r EXCEPT !.pending = None]
    BY <1>2 DEF StopPendingTransition
  <2> HIDE DEF r
  <2>4. q \in Players /\ SameRefs(r, q) /\ q.active = r.active /\ q.pending = None
        /\ q.stable = r.stable /\ q.prev = r.prev /\ q.slot = r.slot
    BY <2>2, <2>3 DEF Players, SameRefs
  <2>5. \A s \in Slots \ {q.active} : q.slot[s].phase = "idle"
    BY <1>0, <2>1, <2>2, <2>4 DEF Slots, Sound
  <2>6. QED
    BY <1>0, <2>1, <2>2, <2>4, <2>5 DEF SameRefs, Sound
<1>3. QED
  BY <1>1, <1>2

\* Loading into the slot on screen.
LEMMA LoadActive ==
    ASSUME NEW p \in Players, Sound(p), p.pending = None,
           NEW l \in Lists \cup {None},
           NEW q, q = LoadActiveSlotSegments(p, l)
    PROVE  /\ q \in Players
           /\ SameRefs(p, q) /\ q.active = p.active /\ q.pending = None
           /\ q.stable = p.stable /\ q.prev = p.prev
           /\ Sound(q) /\ Shown(q) = l
<1> DEFINE r == LoadSlot(p, p.active, l)
<1>0. None \notin Slots /\ p.active \in Slots
  BY PlayerAssumption DEF Players
<1>1. /\ r \in Players
      /\ SameRefs(p, r) /\ r.active = p.active /\ r.pending = p.pending
      /\ r.stable = p.stable /\ r.prev = p.prev
      /\ r.slot[p.active].list = l
      /\ \A t \in Slots \ {p.active} : r.slot[t] = p.slot[t]
  <2>1. r = Put(p, p.active, l, "loading") /\ "loading" \in Phases
    BY DEF LoadSlot, Phases
  <2>2. QED
    BY ONLY <1>0, <2>1, PutSlot, p \in Players, l \in Lists \cup {None}
<1>2. q = r \/ q = PlayWanted(r, p.active)
  BY DEF LoadActiveSlotSegments
<1> HIDE DEF r
<1>3. /\ q \in Players
      /\ SameRefs(r, q) /\ q.active = r.active /\ q.pending = r.pending
      /\ q.stable = r.stable /\ q.prev = r.prev
      /\ \A t \in Slots : q.slot[t].list = r.slot[t].list /\ q.slot[t].phase = r.slot[t].phase
  <2>1. CASE q = r
    BY <1>1, <2>1 DEF SameRefs
  <2>2. CASE q = PlayWanted(r, p.active)
    BY <1>0, <1>1, <2>2, PlayWantedSlot
  <2>3. QED
    BY <1>2, <2>1, <2>2
<1>4. QED
  BY <1>0, <1>1, <1>3 DEF Sound, Shown, TargetOf, SameRefs

\* What handleLoadSegments makes of p: the list is in the slot that is to be
\* shown, the other one holds nothing or is the one on screen, and no event of
\* an earlier load passes for one of this load.
Loaded(p, l, q) ==
    /\ q \in Players
    /\ SameRefs(p, q) /\ q.active = p.active /\ q.stable = None
    /\ Sound(q) /\ Ready(q) /\ Shown(q) = l

LEMMA LoadSegments ==
    ASSUME NEW p \in Players, Sound(p), NEW stream \in Streams \cup {None},
           NEW l \in Lists \cup {None}, NEW hard,
           NEW q, q = HandleLoadSegments(p, stream, l, hard)
    PROVE  Loaded(p, l, q)
<1> DEFINE m == [p EXCEPT !.stable = None, !.prev = stream]
           other == OtherSlot(p.active)
           n == [m EXCEPT !.pending = None]
           o == StopSlot(n, other)
           h == LoadSlot(o, other, l)
           w == PlayWanted(h, other)
<1>0. None \notin Slots /\ p.active \in Slots /\ other \in Slots /\ other # p.active
  BY PlayerAssumption DEF Players, OtherSlot, Slots
<1>1. /\ m \in Players /\ Sound(m) /\ SameRefs(p, m) /\ m.active = p.active
      /\ m.stable = None /\ m.slot = p.slot
  BY DEF Players, Sound, SameRefs
<1>2. q = [w EXCEPT !.pending = other] \/ q = LoadActiveSlotSegments(StopPendingTransition(m), l)
  BY DEF HandleLoadSegments
<1>3. CASE q = LoadActiveSlotSegments(StopPendingTransition(m), l)
  <2> DEFINE k == StopPendingTransition(m)
  <2> HIDE DEF m
  <2>1. /\ k \in Players /\ SameRefs(m, k) /\ k.active = m.active /\ k.pending = None
        /\ k.stable = m.stable /\ Sound(k)
    BY <1>1, StopPending
  <2> HIDE DEF k
  <2>2. /\ q \in Players /\ SameRefs(k, q) /\ q.active = k.active /\ q.pending = None
        /\ q.stable = k.stable /\ Sound(q) /\ Shown(q) = l
    BY <1>3, <2>1, LoadActive DEF k
  <2>3. QED
    BY <1>1, <2>1, <2>2 DEF SameRefs, Ready, Loaded
<1>4. CASE q = [w EXCEPT !.pending = other]
  <2>1. /\ n \in Players /\ SameRefs(p, n) /\ n.active = p.active /\ n.stable = None
    BY <1>1 DEF Players, SameRefs
  <2> HIDE DEF n
  <2> HIDE DEF other
  <2>2. o \in Players /\ SameRefs(n, o) /\ o.active = n.active /\ o.stable = n.stable
    BY ONLY <1>0, <2>1, StoppedSlot
  <2> HIDE DEF o
  <2>3. /\ h \in Players /\ SameRefs(o, h) /\ h.active = o.active /\ h.stable = o.stable
        /\ h.slot[other].list = l /\ h.slot[other].phase = "loading"
        /\ "new" \notin h.slot[other].playing
    <3>1. h = Put(o, other, l, "loading") /\ "loading" \in Phases
      BY DEF LoadSlot, Phases
    <3>2. QED
      BY ONLY <1>0, <2>2, <3>1, PutSlot, l \in Lists \cup {None}
  <2> HIDE DEF h
  <2>4. /\ w \in Players /\ SameRefs(h, w) /\ w.active = h.active /\ w.stable = h.stable
        /\ w.slot[other].list = l /\ "new" \notin w.slot[other].playing
    <3>1. /\ w \in Players /\ SameRefs(h, w) /\ w.active = h.active /\ w.stable = h.stable
          /\ \A t \in Slots : /\ w.slot[t].list = h.slot[t].list
                              /\ w.slot[t].phase = h.slot[t].phase
                              /\ "new" \in w.slot[t].playing => \/ "new" \in h.slot[t].playing
                                                                \/ w.slot[t].phase = "playing"
      BY ONLY <1>0, <2>3, PlayWantedSlot
    <3> HIDE DEF w
    <3>2. QED
      BY ONLY <1>0, <2>3, <3>1
  <2> HIDE DEF w
  <2>5. /\ q \in Players /\ SameRefs(w, q) /\ q.active = w.active /\ q.stable = w.stable
        /\ q.pending = other /\ q.slot = w.slot
    BY <1>0, <1>4, <2>4 DEF Players, SameRefs
  <2>6. Sound(q)
    BY <1>0, <2>1, <2>2, <2>3, <2>4, <2>5 DEF Sound, Slots
  <2>7. Ready(q) /\ Shown(q) = l
    BY <1>0, <2>4, <2>5 DEF Ready, Shown, TargetOf
  <2>8. QED
    BY <2>1, <2>2, <2>3, <2>4, <2>5, <2>6, <2>7 DEF SameRefs, Loaded
<1>5. QED
  BY <1>2, <1>3, <1>4
\* fallbackPendingSwitchToHardSwitch: the list is in the slot on screen.
LEMMA FallbackLoads ==
    ASSUME NEW p \in Players, Sound(p), NEW s \in Slots, p.pending = s, TypeOK,
           NEW q, q = Fallback(p, s)
    PROVE  Loaded(p, list, q)
<1> DEFINE k == StopSlot(p, s)
           n == [k EXCEPT !.pending = None]
<1>0. None \notin Slots /\ p.active \in Slots /\ s # p.active
  BY PlayerAssumption DEF Players, Sound
<1>1. /\ k \in Players
      /\ SameRefs(p, k) /\ k.active = p.active
      /\ k.slot[s].phase = "idle"
      /\ \A t \in Slots \ {s} : k.slot[t] = p.slot[t]
  BY ONLY StoppedSlot, p \in Players, s \in Slots
<1> HIDE DEF k
<1>2. /\ n \in Players /\ SameRefs(k, n) /\ n.active = k.active /\ n.pending = None
      /\ n.slot = k.slot
  BY <1>1 DEF Players, SameRefs
<1>3. q = HandleLoadSegments(n, page.stream, list, TRUE)
  BY DEF Fallback, k
<1> HIDE DEF n
<1>4. Sound(n)
  BY <1>0, <1>1, <1>2 DEF Sound, Slots
<1>5. page.stream \in Streams \cup {None} /\ list \in Lists \cup {None}
  BY DEF TypeOK, PageStates
<1> DEFINE r == HandleLoadSegments(n, page.stream, list, TRUE)
<1>6. Loaded(n, list, r)
  <2>1. n \in Players
    BY <1>2
  <2>2. QED
    BY ONLY <2>1, <1>4, <1>5, LoadSegments
<1> HIDE DEF r
<1>7. q = r
  BY <1>3 DEF r
<1>8. QED
  BY <1>1, <1>2, <1>6, <1>7 DEF SameRefs, Loaded

\* completeTransition: the slot that was visible is stopped.
LEMMA TransitionCompletes ==
    ASSUME NEW p \in Players, Sound(p), NEW s \in Slots, p.pending = s,
           NEW q, q = CompleteTransition(p, s)
    PROVE  /\ q \in Players
           /\ SameRefs(p, q) /\ q.active = s /\ q.pending = None /\ q.stable = p.stable
           /\ q.slot[s] = p.slot[s]
           /\ \A t \in Slots : q.slot[t].phase # "idle" => p.slot[t].phase # "idle"
           /\ Sound(q) /\ Shown(q) = Shown(p)
<1> DEFINE n == [p EXCEPT !.active = s, !.pending = None]
<1>0. None \notin Slots /\ p.active \in Slots /\ s # p.active
  BY PlayerAssumption DEF Players, Sound
<1>1. /\ n \in Players /\ SameRefs(p, n) /\ n.active = s /\ n.pending = None
      /\ n.stable = p.stable /\ n.slot = p.slot
  BY DEF Players, SameRefs
<1>2. q = StopSlot(n, p.active)
  BY DEF CompleteTransition
<1> HIDE DEF n
<1> DEFINE r == StopSlot(n, p.active)
<1>3. /\ r \in Players
      /\ SameRefs(n, r) /\ r.active = n.active /\ r.pending = n.pending /\ r.stable = n.stable
      /\ r.slot[p.active].phase = "idle"
      /\ \A t \in Slots \ {p.active} : r.slot[t] = n.slot[t]
  <2>1. p.active \in Slots /\ n \in Players
    BY <1>0, <1>1
  <2>2. QED
    BY ONLY <2>1, StoppedSlot
<1> HIDE DEF r
<1>r. q = r
  BY <1>2 DEF r
<1>4. r.slot[s] = p.slot[s]
  BY <1>0, <1>1, <1>3
<1>5. \A t \in Slots : r.slot[t].phase # "idle" => p.slot[t].phase # "idle"
  BY <1>0, <1>1, <1>3
<1>6. Sound(r)
  BY <1>0, <1>1, <1>3 DEF Sound, Slots
<1>7. Shown(r) = Shown(p)
  BY <1>0, <1>1, <1>3, <1>4 DEF Shown, TargetOf
<1>8. QED
  BY <1>1, <1>3, <1>r, <1>4, <1>5, <1>6, <1>7 DEF SameRefs

-----------------------------------------------------------------------------
(* What a handler may do between two renderings.                            *)

\* The page is asked for nothing new, or for a new start time.
WantStep ==
    \/ want' = want
    \/ want' \in PageStates /\ want'.stream # None /\ want'.start = page.start + 1

\* The list that is to be shown stays or is the one rendered last, and only the
\* retry of a catch-up list makes the next one be skipped.
ListStep ==
    /\ ~forgotten' /\ ~player'.skip =>
        \/ Shown(player') = list
        \/ ~forgotten /\ ~player.skip /\ Shown(player') = Shown(player)
    /\ player'.skip => player.skip \/ (~IsLive(list) /\ want'.start = page.start + 1)

\* The picture moves only to a stream that plays (RevealedHasStarted).
Revealed ==
    player'.active # player.active => player'.slot[player'.active].phase \in {"playing", "dead"}

PlayerStep ==
    /\ player' \in Players /\ Sound(player') /\ Ready(player') /\ Revealed
    /\ page.stream # None \/ \A s \in Slots : player'.slot[s].phase = "idle"

BoundsStep ==
    /\ seamless' \in [set : BOOLEAN, seen : BOOLEAN]
    /\ hidden' \in {"no", "yes", "pip"} /\ forgotten' \in BOOLEAN
    /\ acts' \in 0 .. MaxActs /\ faults' \in 0 .. MaxFaults

Handled ==
    /\ UNCHANGED <<page, next, list, seen>>
    /\ WantStep /\ ListStep /\ PlayerStep /\ BoundsStep
    /\ queued' \in Counters /\ BudgetKept'

LEMMA HandlerStep ==
    ASSUME PlayerInv, Handled
    PROVE  PlayerInv'
<1> USE DEF PlayerInv, Handled
<1>1. TypeOK'
  BY DEF TypeOK, WantStep, PlayerStep, BoundsStep
<1>2. OneSession' /\ PendingIsHidden'
  BY PlayerAssumption DEF PlayerStep, Players, OneSession, PendingIsHidden, Sound, Ready, Slots
<1>3. EffectDone'
  BY DEF EffectDone, WantStep, PlayerStep, TypeOK, PageStates
<1>4. StartsOrdered'
  BY DEF StartsOrdered, WantStep, TypeOK, PageStates
<1>5. TargetHoldsList'
  <2>1. list' # None /\ ~forgotten' /\ ~player'.skip => Shown(player') = list'
    BY DEF ListStep, TargetHoldsList, Shown, TargetOf, Target
  <2>2. player'.skip => list' # None
    BY DEF ListStep, TargetHoldsList, IsLive
  <2>3. player'.skip /\ next' = list' => ~IsLive(list') /\ list'.start < want'.start
    <3> SUFFICES ASSUME player'.skip, next = list
                 PROVE  ~IsLive(list) /\ list.start < want'.start
      OBVIOUS
    <3>1. ~IsLive(list) /\ list # None
      BY DEF ListStep, TargetHoldsList, IsLive
    <3>2. list \in Lists /\ page.start \in Nat
      BY <3>1 DEF TypeOK, PageStates
    <3>3. list.start <= page.start /\ list.start \in Int
      BY <3>1, <3>2 DEF StartsOrdered, Lists, Edge
    <3>4. CASE want'.start = page.start + 1
      BY <3>1, <3>2, <3>3, <3>4
    <3>5. CASE want'.start # page.start + 1
      BY <3>1, <3>5 DEF ListStep, WantStep, TargetHoldsList
    <3>6. QED
      BY <3>4, <3>5
  <2>4. QED
    BY <2>1, <2>2, <2>3 DEF TargetHoldsList, Shown, TargetOf, Target
<1>6. QED
  BY <1>1, <1>2, <1>3, <1>4, <1>5

\* Handlers that leave the counters alone and at most drop the timer.
LEMMA BudgetUntouched ==
    ASSUME PlayerInv, queued' = queued, seen' = seen, player'.stable \in {player.stable, None}
    PROVE  queued' \in Counters /\ BudgetKept'
  BY DEF PlayerInv, TypeOK, BudgetKept, Due
\* A change of the player that moves no list and starts no stream.
Light(p, q) ==
    /\ q \in Players
    /\ q.active = p.active /\ q.pending = p.pending /\ q.skip = p.skip
    /\ \A s \in Slots : /\ q.slot[s].list = p.slot[s].list
                        /\ q.slot[s].phase # "idle" => p.slot[s].phase # "idle"

LEMMA LightStep ==
    ASSUME PlayerInv, Light(player, player'), Ready(player'), forgotten' = forgotten
    PROVE  PlayerStep /\ ListStep
<1>1. player \in Players /\ Sound(player)
  BY SlotsInvariant DEF PlayerInv, TypeOK
<1>2. None \notin Slots /\ TargetOf(player) \in Slots
  BY <1>1, PlayerAssumption DEF Players, TargetOf
<1>3. Shown(player') = Shown(player)
  BY <1>2 DEF Light, Shown, TargetOf
<1>4. Sound(player')
  BY <1>1 DEF Light, Sound
<1>5. PlayerStep
  BY <1>4 DEF PlayerStep, Revealed, Light, PlayerInv, EffectDone
<1>6. ListStep
  BY <1>3 DEF ListStep, Light
<1>7. QED
  BY <1>5, <1>6

\* One slot changes: new is what it holds then.
SlotStep(p, s, new, q) ==
    /\ q \in Players /\ q.slot = [p.slot EXCEPT ![s] = new]
    /\ q.active = p.active /\ q.pending = p.pending /\ q.skip = p.skip
    /\ q.stable \in {p.stable, None}

LEMMA SlotStepIsLight ==
    ASSUME NEW p \in Players, Ready(p), NEW s \in Slots, NEW new \in SlotStates,
           NEW q, SlotStep(p, s, new, q),
           new.list = p.slot[s].list, new.phase # "idle" => p.slot[s].phase # "idle",
           "new" \in new.playing =>
                \/ new.phase \in {"playing", "dead"}
                \/ new.phase = p.slot[s].phase /\ "new" \in p.slot[s].playing
    PROVE  Light(p, q) /\ Ready(q) /\ q.stable \in {p.stable, None}
<1>1. /\ p.slot \in [Slots -> SlotStates] /\ p.pending \in Slots \cup {None}
  BY DEF Players
<1>2. /\ q.slot[s] = new
      /\ \A t \in Slots \ {s} : q.slot[t] = p.slot[t]
  BY <1>1 DEF SlotStep
<1>3. Light(p, q)
  BY <1>1, <1>2 DEF Light, SlotStep
<1>4. Ready(q)
  BY <1>1, <1>2 DEF Ready, SlotStep
<1>5. QED
  BY <1>3, <1>4 DEF SlotStep

LEMMA SameSlots ==
    ASSUME PlayerInv
    PROVE  Light(player, player) /\ Ready(player)
  BY SlotsInvariant DEF PlayerInv, TypeOK, Light

-----------------------------------------------------------------------------
(* The user.                                                                *)

LEMMA SelectChannelStep ==
    ASSUME PlayerInv, NEW stream \in Streams, SelectChannel(stream)
    PROVE  Handled
<1>1. WantStep
  BY PlayerAssumption DEF WantStep, SelectChannel, PlayerInv, TypeOK, PageStates, Fresh
<1>2. PlayerStep /\ ListStep
  BY SameSlots, LightStep DEF SelectChannel
<1>3. BoundsStep
  BY PlayerAssumption DEF BoundsStep, SelectChannel, Act, PlayerInv, TypeOK
<1>4. queued' \in Counters /\ BudgetKept'
  BY BudgetUntouched DEF SelectChannel, QueueOnly
<1>5. QED
  BY <1>1, <1>2, <1>3, <1>4 DEF Handled, SelectChannel, QueueOnly

LEMMA ChooseSourceStep ==
    ASSUME PlayerInv, NEW i \in 1 .. NumSources, ChooseSource(i)
    PROVE  Handled
<1>1. WantStep
  BY PlayerAssumption DEF WantStep, ChooseSource, ChangeSource, PlayerInv, TypeOK, PageStates, Fresh, Streams
<1>2. PlayerStep /\ ListStep
  BY SameSlots, LightStep DEF ChooseSource
<1>3. BoundsStep
  BY PlayerAssumption DEF BoundsStep, ChooseSource, Act, PlayerInv, TypeOK
<1>4. queued' \in Counters /\ BudgetKept'
  BY BudgetUntouched DEF ChooseSource, QueueOnly
<1>5. QED
  BY <1>1, <1>2, <1>3, <1>4 DEF Handled, ChooseSource, QueueOnly

\* A seek asks for a new start time of the stream that is selected.
LEMMA SeekWants ==
    ASSUME PlayerInv, NEW live \in BOOLEAN, Seek(live), page.stream # None
    PROVE  WantStep /\ want'.start = page.start + 1
<1>1. want \in PageStates /\ want.stream # None
  BY DEF PlayerInv, TypeOK, EffectDone
<1>2. page.start + 1 \in Nat
  BY DEF PlayerInv, TypeOK, PageStates
<1>3. want' = [want EXCEPT !.live = live, !.start = page.start + 1]
  BY DEF Seek, Fresh
<1>4. want' \in PageStates /\ want'.stream = want.stream /\ want'.start = page.start + 1
  BY <1>1, <1>2, <1>3 DEF PageStates
<1>5. QED
  BY <1>1, <1>4 DEF WantStep
LEMMA SeekAwayStep ==
    ASSUME PlayerInv, SeekAway
    PROVE  Handled
<1>1. WantStep
  <2>1. CASE want' = want
    BY <2>1 DEF WantStep
  <2>2. CASE \E near \in BOOLEAN : Seek(near)
    BY <2>2, SeekWants DEF SeekAway
  <2>3. QED
    BY <2>1, <2>2 DEF SeekAway
<1>2. player \in Players /\ Active.paused \in BOOLEAN
  BY DEF PlayerInv, TypeOK, Players, SlotStates, Active
<1>3. Light(player, player') /\ player'.stable = player.stable /\ player'.slot = player.slot
  BY <1>2 DEF SeekAway, Light, Players
<1>4. Ready(player')
  BY <1>3, SameSlots DEF Ready, Light
<1>5. PlayerStep /\ ListStep
  BY <1>3, <1>4, LightStep DEF SeekAway
<1>6. BoundsStep
  BY PlayerAssumption DEF BoundsStep, SeekAway, Act, PlayerInv, TypeOK
<1>7. queued' \in Counters /\ BudgetKept'
  BY <1>3, BudgetUntouched DEF SeekAway, QueueOnly
<1>8. QED
  BY <1>1, <1>5, <1>6, <1>7 DEF Handled, SeekAway, QueueOnly

\* play() moves no list.
LEMMA PlayIsLight ==
    ASSUME PlayerInv, player' \in {PlayVideo(player, player.active), PlayWanted(player, player.active)}
    PROVE  Light(player, player') /\ Ready(player') /\ player'.stable = player.stable
<1>1. player \in Players /\ player.active \in Slots /\ Ready(player)
  BY SlotsInvariant DEF PlayerInv, TypeOK, Players
<1>2. /\ player' \in Players
      /\ SameRefs(player, player') /\ player'.active = player.active
      /\ player'.pending = player.pending /\ player'.stable = player.stable
      /\ \A t \in Slots : /\ player'.slot[t].list = player.slot[t].list
                          /\ player'.slot[t].phase = player.slot[t].phase
                          /\ "new" \in player'.slot[t].playing =>
                                \/ "new" \in player.slot[t].playing
                                \/ player'.slot[t].phase = "playing"
  <2>1. CASE player' = PlayVideo(player, player.active)
    <3> DEFINE q == PlayVideo(player, player.active)
    <3>1. /\ q \in Players
          /\ SameRefs(player, q) /\ q.active = player.active
          /\ q.pending = player.pending /\ q.stable = player.stable
          /\ \A t \in Slots : /\ q.slot[t].list = player.slot[t].list
                              /\ q.slot[t].phase = player.slot[t].phase
                              /\ "new" \in q.slot[t].playing => \/ "new" \in player.slot[t].playing
                                                                \/ q.slot[t].phase = "playing"
      BY ONLY <1>1, PlaySlot
    <3>2. QED
      BY ONLY <2>1, <3>1
  <2>2. CASE player' = PlayWanted(player, player.active)
    <3> DEFINE q == PlayWanted(player, player.active)
    <3>1. /\ q \in Players
          /\ SameRefs(player, q) /\ q.active = player.active
          /\ q.pending = player.pending /\ q.stable = player.stable
          /\ \A t \in Slots : /\ q.slot[t].list = player.slot[t].list
                              /\ q.slot[t].phase = player.slot[t].phase
                              /\ "new" \in q.slot[t].playing => \/ "new" \in player.slot[t].playing
                                                                \/ q.slot[t].phase = "playing"
      BY ONLY <1>1, PlayWantedSlot
    <3>2. QED
      BY ONLY <2>2, <3>1
  <2>3. QED
    BY <2>1, <2>2
<1>3. player.pending \in Slots \cup {None}
  BY <1>1 DEF Players
<1>4. QED
  BY <1>1, <1>2, <1>3 DEF Light, Ready, SameRefs

LEMMA GoLiveStep ==
    ASSUME PlayerInv, GoLive
    PROVE  Handled
<1>1. WantStep
  <2>1. CASE want' = want
    BY <2>1 DEF WantStep
  <2>2. CASE Seek(TRUE)
    BY <2>2, SeekWants DEF GoLive
  <2>3. QED
    BY <2>1, <2>2 DEF GoLive
<1>2. player \in Players /\ Active.paused \in BOOLEAN
  BY DEF PlayerInv, TypeOK, Players, SlotStates, Active
<1>3. Light(player, player') /\ player'.stable = player.stable /\ Ready(player')
  <2>1. CASE player' = PlayWanted(player, player.active)
    BY <2>1, PlayIsLight
  <2>2. CASE player' = [player EXCEPT !.autoplay = ~Active.paused, !.userPaused = FALSE]
    <3>1. Light(player, player') /\ player'.stable = player.stable /\ player'.slot = player.slot
      BY <1>2, <2>2 DEF Light, Players
    <3>2. QED
      BY <3>1, SameSlots DEF Ready, Light
  <2>3. QED
    BY <2>1, <2>2 DEF GoLive
<1>4. PlayerStep /\ ListStep
  BY <1>3, LightStep DEF GoLive
<1>5. BoundsStep
  BY PlayerAssumption DEF BoundsStep, GoLive, Act, PlayerInv, TypeOK
<1>6. queued' \in Counters /\ BudgetKept'
  BY <1>3, BudgetUntouched DEF GoLive, QueueOnly
<1>7. QED
  BY <1>1, <1>4, <1>5, <1>6 DEF Handled, GoLive, QueueOnly
\* A slot of the player is what its type says, and is Ready.
LEMMA SlotTypes ==
    ASSUME PlayerInv
    PROVE  /\ player \in Players /\ player.slot \in [Slots -> SlotStates]
           /\ \A s \in Slots : player.slot[s] \in SlotStates
           /\ player.active \in Slots /\ player.pending \in Slots \cup {None}
           /\ Sound(player) /\ Ready(player)
  BY SlotsInvariant DEF PlayerInv, TypeOK, Players

Paused(s) == [player.slot[s] EXCEPT !.paused = TRUE]

LEMMA PausedSlot ==
    ASSUME PlayerInv, NEW s \in Slots
    PROVE  /\ Paused(s) \in SlotStates /\ Paused(s).list = player.slot[s].list
           /\ Paused(s).phase = player.slot[s].phase /\ Paused(s).playing = player.slot[s].playing
  BY SlotTypes DEF Paused, SlotStates

\* Pausing a slot.
LEMMA PauseIsLight ==
    ASSUME PlayerInv, NEW s \in Slots, SlotStep(player, s, Paused(s), player')
    PROVE  Light(player, player') /\ Ready(player') /\ player'.stable \in {player.stable, None}
  BY PausedSlot, SlotTypes, SlotStepIsLight

LEMMA TogglePlayPauseStep ==
    ASSUME PlayerInv, TogglePlayPause
    PROVE  Handled
<1>1. Light(player, player') /\ Ready(player') /\ player'.stable \in {player.stable, None}
  <2>1. CASE player' = PlayWanted(player, player.active)
    BY <2>1, PlayIsLight
  <2>2. CASE player' = [player EXCEPT !.userPaused = TRUE, !.stable = None,
                                      !.slot[player.active].paused = TRUE]
    <3>1. SlotStep(player, player.active, Paused(player.active), player')
      <4> DEFINE slots == [player.slot EXCEPT ![player.active] = Paused(player.active)]
      <4>1. Paused(player.active) \in SlotStates
        BY SlotTypes, PausedSlot
      <4>2. slots \in [Slots -> SlotStates]
        BY <4>1, SlotTypes
      <4>3. player' = [player EXCEPT !.userPaused = TRUE, !.stable = None, !.slot = slots]
        BY <2>2, SlotTypes DEF Players, Paused
      <4> HIDE DEF slots
      <4>4. player' \in Players /\ player'.slot = slots /\ player'.active = player.active
            /\ player'.pending = player.pending /\ player'.skip = player.skip /\ player'.stable = None
        BY <4>2, <4>3, SlotTypes DEF Players
      <4>5. QED
        BY <4>4 DEF SlotStep, slots
    <3>2. QED
      BY <3>1, SlotTypes, PauseIsLight
  <2>3. QED
    BY <2>1, <2>2 DEF TogglePlayPause
<1>2. PlayerStep /\ ListStep
  BY <1>1, LightStep DEF TogglePlayPause
<1>3. BoundsStep
  BY PlayerAssumption DEF BoundsStep, TogglePlayPause, Act, PlayerInv, TypeOK
<1>4. queued' \in Counters /\ BudgetKept'
  BY <1>1, BudgetUntouched DEF TogglePlayPause, ReactUnchanged
<1>5. QED
  BY <1>2, <1>3, <1>4 DEF Handled, WantStep, TogglePlayPause, ReactUnchanged

LEMMA ToggleSeamlessStep ==
    ASSUME PlayerInv, ToggleSeamless
    PROVE  Handled
<1>1. PlayerStep /\ ListStep
  BY SameSlots, LightStep DEF ToggleSeamless
<1>2. BoundsStep
  <2>1. seamless' \in [set : BOOLEAN, seen : BOOLEAN]
    <3>1. /\ seamless \in [set : BOOLEAN, seen : BOOLEAN]
          /\ seamless' = [seamless EXCEPT !.set = ~seamless.set]
          /\ (~seamless.set) \in BOOLEAN
      BY DEF ToggleSeamless, PlayerInv, TypeOK
    <3>2. QED
      BY ONLY <3>1
  <2>2. QED
    BY <2>1, PlayerAssumption DEF BoundsStep, ToggleSeamless, Act, PlayerInv, TypeOK
<1>3. queued' \in Counters /\ BudgetKept'
  BY BudgetUntouched DEF ToggleSeamless, ReactUnchanged
<1>4. QED
  BY <1>1, <1>2, <1>3 DEF Handled, WantStep, ToggleSeamless, ReactUnchanged

LEMMA HandleUserInteractionStep ==
    ASSUME PlayerInv, HandleUserInteraction
    PROVE  Handled
<1>1. Light(player, player') /\ Ready(player') /\ player'.stable = player.stable
  BY PlayIsLight DEF HandleUserInteraction
<1>2. PlayerStep /\ ListStep
  BY <1>1, LightStep DEF HandleUserInteraction
<1>3. BoundsStep
  BY PlayerAssumption DEF BoundsStep, HandleUserInteraction, PlayerInv, TypeOK
<1>4. queued' \in Counters /\ queued'.count = queued.count /\ queued'.base = queued.base
  BY DEF HandleUserInteraction, PlayerInv, TypeOK, Counters
<1>5. BudgetKept'
  BY <1>1, <1>4, seen' = seen DEF PlayerInv, BudgetKept, Due, HandleUserInteraction
<1>6. QED
  BY <1>2, <1>3, <1>4, <1>5 DEF Handled, WantStep, HandleUserInteraction
-----------------------------------------------------------------------------
(* The media elements.                                                      *)

LEMMA SlotReplaced ==
    ASSUME NEW p \in Players, NEW s \in Slots, NEW new \in SlotStates, NEW q,
           \/ q = [p EXCEPT !.slot = [p.slot EXCEPT ![s] = new]]
           \/ q = [p EXCEPT !.slot = [p.slot EXCEPT ![s] = new], !.stable = None]
    PROVE  SlotStep(p, s, new, q)
<1> DEFINE slots == [p.slot EXCEPT ![s] = new]
<1>1. slots \in [Slots -> SlotStates]
  BY DEF Players
<1> HIDE DEF slots
<1>2. /\ q \in Players /\ q.slot = slots /\ q.stable \in {p.stable, None}
      /\ q.active = p.active /\ q.pending = p.pending /\ q.skip = p.skip
  <2>1. CASE q = [p EXCEPT !.slot = slots]
    BY <1>1, <2>1 DEF Players
  <2>2. CASE q = [p EXCEPT !.slot = slots, !.stable = None]
    BY <1>1, <2>2 DEF Players
  <2>3. QED
    BY <2>1, <2>2 DEF slots
<1>3. QED
  BY <1>2 DEF SlotStep, slots

LEMMA BeginsToPlayStep ==
    ASSUME PlayerInv, NEW s \in Slots, BeginsToPlay(s)
    PROVE  Handled
<1> DEFINE old == player.slot[s]
           events == old.playing \cup {"new"}
           new == [old EXCEPT !.phase = "playing", !.playing = events]
<1>1. old \in SlotStates /\ old.phase = "loading"
  BY SlotTypes DEF BeginsToPlay
<1>2. new \in SlotStates /\ new.list = old.list /\ new.phase = "playing"
  BY <1>1 DEF SlotStates
<1>3. player' = [player EXCEPT !.slot = [player.slot EXCEPT ![s] = new]]
  <2>1. player' = [player EXCEPT !.slot[s].phase = "playing", !.slot[s].playing = events]
    BY <1>1, SlotTypes DEF BeginsToPlay, Players, SlotStates
  <2>2. QED
    BY <1>1, <2>1, SlotTypes DEF Players, SlotStates
<1> HIDE DEF new
<1>4. SlotStep(player, s, new, player')
  BY <1>2, <1>3, SlotTypes, SlotReplaced
<1>5. Light(player, player') /\ Ready(player') /\ player'.stable \in {player.stable, None}
  BY <1>1, <1>2, <1>4, SlotTypes, SlotStepIsLight
<1>6. PlayerStep /\ ListStep
  BY <1>5, LightStep DEF BeginsToPlay
<1>7. queued' \in Counters /\ BudgetKept'
  BY <1>5, BudgetUntouched DEF BeginsToPlay, ReactUnchanged
<1>8. QED
  BY <1>6, <1>7 DEF Handled, WantStep, BoundsStep, BeginsToPlay, ReactUnchanged, Reported, PlayerInv, TypeOK

LEMMA HandleVideoWaitingStep ==
    ASSUME PlayerInv, NEW s \in Slots, HandleVideoWaiting(s)
    PROVE  Handled
<1> DEFINE old == player.slot[s]
           new == [old EXCEPT !.playing = @ \cup {"new"}]
<1>1. old \in SlotStates /\ old.phase = "playing"
  BY SlotTypes DEF HandleVideoWaiting
<1>2. new \in SlotStates /\ new.list = old.list /\ new.phase = "playing"
  BY <1>1 DEF SlotStates
<1>3. player' = [player EXCEPT !.slot = [player.slot EXCEPT ![s] = new], !.stable = None]
  BY <1>1, SlotTypes DEF HandleVideoWaiting, Players, SlotStates
<1> HIDE DEF new
<1>4. SlotStep(player, s, new, player')
  BY <1>2, <1>3, SlotTypes, SlotReplaced
<1>5. Light(player, player') /\ Ready(player') /\ player'.stable \in {player.stable, None}
  BY <1>1, <1>2, <1>4, SlotTypes, SlotStepIsLight
<1>6. PlayerStep /\ ListStep
  BY <1>5, LightStep DEF HandleVideoWaiting
<1>7. queued' \in Counters /\ BudgetKept'
  BY <1>5, BudgetUntouched DEF HandleVideoWaiting, ReactUnchanged
<1>8. QED
  BY <1>6, <1>7 DEF Handled, WantStep, BoundsStep, HandleVideoWaiting, ReactUnchanged, Reported,
                    PlayerInv, TypeOK

\* The timer accepts the retries that were rendered when it was started.
LEMMA StableTimeoutStep ==
    ASSUME PlayerInv, StableTimeout
    PROVE  Handled
<1>1. /\ Light(player, player') /\ player'.stable = None /\ player'.slot = player.slot
  BY SlotTypes DEF StableTimeout, Light, Players
<1>2. Ready(player')
  BY <1>1, SameSlots DEF Ready, Light
<1>3. PlayerStep /\ ListStep
  BY <1>1, <1>2, LightStep DEF StableTimeout
<1>4. player.stable \in [count : Nat, base : Nat] /\ {queued, seen} \subseteq Counters
  BY SlotTypes DEF StableTimeout, Players, PlayerInv, TypeOK
<1>5. CASE Due
  <2>1. queued' = [queued EXCEPT !.base = player.stable.count]
    BY <1>5 DEF StableTimeout, Due
  <2>2. /\ queued' \in Counters /\ queued'.count = queued.count
        /\ queued'.base = player.stable.count
    BY <1>4, <2>1 DEF Counters
  <2>3. seen' = seen
    BY DEF StableTimeout
  <2>4. BudgetKept'
    BY <1>1, <1>4, <1>5, <2>2, <2>3 DEF BudgetKept, Due, PlayerInv, Counters
  <2>5. QED
    BY <1>3, <2>2, <2>4, PlayerAssumption
       DEF Handled, WantStep, BoundsStep, StableTimeout, Reported, Fault, PlayerInv, TypeOK
<1>6. CASE ~Due
  <2>1. queued' = queued
    BY <1>6 DEF StableTimeout, Due
  <2>2. queued' \in Counters /\ BudgetKept'
    BY <1>1, <2>1, BudgetUntouched DEF StableTimeout
  <2>3. QED
    BY <1>3, <2>2, PlayerAssumption
       DEF Handled, WantStep, BoundsStep, StableTimeout, Reported, Fault, PlayerInv, TypeOK
<1>7. QED
  BY <1>5, <1>6
LEMMA LightSound ==
    ASSUME NEW p \in Players, Sound(p), NEW q, Light(p, q)
    PROVE  Sound(q) /\ Shown(q) = Shown(p)
<1>1. None \notin Slots /\ TargetOf(p) \in Slots
  BY PlayerAssumption DEF Players, TargetOf
<1>2. Sound(q)
  BY DEF Light, Sound
<1>3. Shown(q) = Shown(p)
  BY <1>1 DEF Light, Shown, TargetOf
<1>4. QED
  BY <1>2, <1>3

\* Only an event of the load it waits for completes a transition, and the slot
\* plays then.
LEMMA HandleVideoPlayingStep ==
    ASSUME PlayerInv, NEW s \in Slots, NEW age \in {"old", "new"}, HandleVideoPlaying(s, age)
    PROVE  Handled
<1> DEFINE old == player.slot[s]
           events == old.playing \ {age}
           new == [old EXCEPT !.playing = events]
           p == [player EXCEPT !.slot[s].playing = @ \ {age}]
           q == IF Completes(p, s, age) THEN CompleteTransition(p, s) ELSE p
           timer == [count |-> seen.count, base |-> seen.base]
<1>1. old \in SlotStates /\ age \in old.playing
  BY SlotTypes DEF HandleVideoPlaying
<1>2. /\ new \in SlotStates /\ new.list = old.list /\ new.phase = old.phase
      /\ new.playing = events
  BY <1>1 DEF SlotStates
<1>3. p = [player EXCEPT !.slot = [player.slot EXCEPT ![s] = new]]
  BY <1>1, SlotTypes DEF Players, SlotStates
<1>4. player' = IF q.active # s THEN q ELSE [q EXCEPT !.started = TRUE, !.stable = timer]
  BY DEF HandleVideoPlaying
<1>5. p.stable = player.stable
  BY SlotTypes DEF Players
<1> HIDE DEF new, p
<1>6. SlotStep(player, s, new, p)
  BY <1>2, <1>3, SlotTypes, SlotReplaced
<1>7. Light(player, p) /\ Ready(p)
  BY <1>1, <1>2, <1>6, SlotTypes, SlotStepIsLight
<1>8. p \in Players /\ Sound(p) /\ Shown(p) = Shown(player)
  BY <1>7, SlotTypes, LightSound DEF Light
<1>9. /\ q \in Players /\ Sound(q) /\ Ready(q) /\ Shown(q) = Shown(player)
      /\ q.skip = player.skip /\ q.stable = player.stable
      /\ \A t \in Slots : q.slot[t].phase # "idle" => player.slot[t].phase # "idle"
      /\ q.active # player.active => q.slot[q.active].phase \in {"playing", "dead"}
  <2>1. CASE Completes(p, s, age)
    <3> DEFINE c == CompleteTransition(p, s)
    <3>1. p.pending = s /\ age = "new"
      BY <2>1 DEF Completes
    <3>2. /\ c \in Players
          /\ SameRefs(p, c) /\ c.active = s /\ c.pending = None /\ c.stable = p.stable
          /\ c.slot[s] = p.slot[s]
          /\ \A t \in Slots : c.slot[t].phase # "idle" => p.slot[t].phase # "idle"
          /\ Sound(c) /\ Shown(c) = Shown(p)
      BY <1>8, <3>1, TransitionCompletes
    <3> HIDE DEF c
    <3>3. q = c
      BY <2>1 DEF c
    <3>4. player.slot[s].phase \in {"playing", "dead"}
      BY <1>1, <1>7, <3>1, SlotTypes, PlayerAssumption DEF Ready, Light
    <3>5. p.slot[s].phase = player.slot[s].phase
      BY <1>2, <1>6, SlotTypes DEF SlotStep
    <3> HIDE DEF q
    <3>6. QED
      BY <1>5, <1>7, <1>8, <3>2, <3>3, <3>4, <3>5 DEF Ready, SameRefs, Light
  <2>2. CASE ~Completes(p, s, age)
    <3>1. q = p
      BY <2>2
    <3> HIDE DEF q
    <3>2. QED
      BY <1>5, <1>7, <1>8, <3>1 DEF Light
  <2>3. QED
    BY <2>1, <2>2
<1> HIDE DEF q
<1>10. timer \in [count : Nat, base : Nat] /\ {queued, seen} \subseteq Counters
  BY DEF PlayerInv, TypeOK, Counters
<1>11. /\ player' \in Players /\ player'.skip = q.skip /\ player'.active = q.active
       /\ player'.pending = q.pending /\ player'.slot = q.slot
       /\ player'.stable \in {q.stable, timer}
  <2>1. CASE player' = q
    BY <1>9, <2>1
  <2>2. CASE player' = [q EXCEPT !.started = TRUE, !.stable = timer]
    BY <1>9, <1>10, <2>2 DEF Players
  <2>3. QED
    BY <1>4, <2>1, <2>2
<1>12. PlayerStep
  <2>1. Sound(player') /\ Ready(player')
    BY <1>9, <1>11 DEF Sound, Ready
  <2>2. Revealed
    BY <1>9, <1>11 DEF Revealed
  <2>3. page.stream # None \/ \A t \in Slots : player'.slot[t].phase = "idle"
    BY <1>9, <1>11 DEF PlayerInv, EffectDone
  <2>4. QED
    BY <1>11, <2>1, <2>2, <2>3 DEF PlayerStep
<1>13. ListStep
  <2>1. Shown(player') = Shown(player)
    BY <1>9, <1>11 DEF Shown, TargetOf
  <2>2. QED
    BY <1>9, <1>11, <2>1 DEF ListStep, HandleVideoPlaying
<1>14. queued' \in Counters /\ BudgetKept'
  <2>1. queued' = queued /\ seen' = seen
    BY DEF HandleVideoPlaying, ReactUnchanged
  <2>2. CASE player'.stable = player.stable
    BY <2>1, <2>2, BudgetUntouched
  <2>3. CASE player'.stable = timer
    <3>1. player'.stable.count = seen.count /\ player'.stable.base = seen.base
      BY <2>3
    <3>2. MaxRetries \in Nat \ {0}
      BY PlayerAssumption
    <3>3. QED
      BY <1>10, <2>1, <3>1, <3>2 DEF BudgetKept, Due, PlayerInv, Counters
  <2>4. QED
    BY <1>9, <1>11, <2>2, <2>3
<1>15. QED
  BY <1>12, <1>13, <1>14 DEF Handled, WantStep, BoundsStep, HandleVideoPlaying, ReactUnchanged, Reported,
                             PlayerInv, TypeOK
\* A list loaded by a handler.
LEMMA LoadedStep ==
    ASSUME PlayerInv, page.stream # None, NEW p \in Players, p.active = player.active,
           NEW l, Loaded(p, l, player')
    PROVE  PlayerStep /\ Shown(player') = l /\ player'.skip = p.skip /\ player'.stable = None
  BY DEF PlayerStep, Loaded, Revealed, SameRefs

\* A slot that holds a stream was loaded for a page that has one.
LEMMA StreamSelected ==
    ASSUME PlayerInv, NEW s \in Slots, player.slot[s].phase # "idle"
    PROVE  page.stream \in Streams /\ want.stream \in Streams /\ page.stream # None
  BY DEF PlayerInv, TypeOK, PageStates, EffectDone

\* The counters with the error message or the request for a click changed.
LEMMA BudgetSame ==
    ASSUME PlayerInv, seen' = seen, player'.stable \in {player.stable, None},
           queued' \in Counters, queued'.count = queued.count, queued'.base = queued.base
    PROVE  BudgetKept'
  BY DEF PlayerInv, BudgetKept, Due

LEMMA PlayRejectedStep ==
    ASSUME PlayerInv, NEW s \in Slots, PlayRejected(s)
    PROVE  Handled
<1>1. page.stream # None
  BY StreamSelected DEF PlayRejected
<1>2. BoundsStep
  BY PlayerAssumption DEF BoundsStep, PlayRejected, Reported, Fault, PlayerInv, TypeOK
<1>3. /\ queued' \in Counters /\ queued'.count = queued.count /\ queued'.base = queued.base
      /\ seen' = seen
  <2>1. \/ queued' = [queued EXCEPT !.error = FALSE]
        \/ \E blocked \in BOOLEAN : queued' = [queued EXCEPT !.blocked = blocked]
    <3>1. \A notAllowed \in BOOLEAN : (queued.blocked \/ notAllowed) \in BOOLEAN
      OBVIOUS
    <3>2. QED
      BY <3>1 DEF PlayRejected
  <2>2. QED
    BY <2>1 DEF PlayRejected, PlayerInv, TypeOK, Counters
<1>4. CASE s = player.pending
  <2>1. player' = Fallback(player, s)
    BY <1>4 DEF PlayRejected
  <2>2. Loaded(player, list, Fallback(player, s))
    BY <1>4, SlotTypes, FallbackLoads DEF PlayerInv
  <2>3. PlayerStep /\ Shown(player') = list /\ player'.skip = player.skip /\ player'.stable = None
    BY <1>1, <2>1, <2>2, SlotTypes, LoadedStep
  <2>4. BudgetKept'
    BY <1>3, <2>3, BudgetSame
  <2>5. ListStep
    BY <2>3 DEF ListStep
  <2>6. QED
    BY <1>2, <1>3, <2>3, <2>4, <2>5 DEF Handled, WantStep, PlayRejected
<1>5. CASE s # player.pending
  <2>1. player' = [player EXCEPT !.slot = [player.slot EXCEPT ![s] = Paused(s)]]
    BY <1>5, SlotTypes DEF PlayRejected, Players, Paused
  <2>2. SlotStep(player, s, Paused(s), player')
    BY <2>1, SlotTypes, PausedSlot, SlotReplaced
  <2>3. Light(player, player') /\ Ready(player') /\ player'.stable \in {player.stable, None}
    BY <2>2, PauseIsLight
  <2>4. PlayerStep /\ ListStep
    BY <2>3, LightStep DEF PlayRejected
  <2>5. BudgetKept'
    BY <1>3, <2>3, BudgetSame
  <2>6. QED
    BY <1>2, <1>3, <2>4, <2>5 DEF Handled, WantStep, PlayRejected
<1>6. QED
  BY <1>4, <1>5

LEMMA HandlePlaybackEndedStep ==
    ASSUME PlayerInv, HandlePlaybackEnded
    PROVE  Handled
<1>1. page.stream # None
  BY SlotTypes, StreamSelected DEF HandlePlaybackEnded, Active
<1>2. WantStep
  BY <1>1, SeekWants DEF HandlePlaybackEnded
<1>3. PlayerStep /\ ListStep
  BY SameSlots, LightStep DEF HandlePlaybackEnded
<1>4. BoundsStep
  BY PlayerAssumption DEF BoundsStep, HandlePlaybackEnded, Reported, Fault, PlayerInv, TypeOK
<1>5. queued' \in Counters /\ BudgetKept'
  BY BudgetUntouched DEF HandlePlaybackEnded, QueueOnly
<1>6. QED
  BY <1>2, <1>3, <1>4, <1>5 DEF Handled, HandlePlaybackEnded, QueueOnly

FailedPlayer(s) == [player EXCEPT !.slot[s].phase = "failed"]

LEMMA FailedSlot ==
    ASSUME PlayerInv, NEW s \in Slots, player.slot[s].phase \in {"loading", "playing"}
    PROVE  /\ Light(player, FailedPlayer(s)) /\ Sound(FailedPlayer(s))
           /\ Shown(FailedPlayer(s)) = Shown(player)
           /\ FailedPlayer(s).stable = player.stable
           /\ player.pending # s => Ready(FailedPlayer(s))
<1> DEFINE old == player.slot[s]
           new == [old EXCEPT !.phase = "failed"]
           p == FailedPlayer(s)
<1>1. old \in SlotStates
  BY SlotTypes
<1>2. new \in SlotStates /\ new.list = old.list
  BY <1>1 DEF SlotStates
<1>3. p = [player EXCEPT !.slot = [player.slot EXCEPT ![s] = new]]
  BY <1>1, SlotTypes DEF FailedPlayer, Players, SlotStates
<1> HIDE DEF new, p
<1>4. SlotStep(player, s, new, p) /\ p.stable = player.stable
  BY <1>2, <1>3, SlotTypes, SlotReplaced DEF Players
<1>5. p.slot[s] = new /\ \A t \in Slots \ {s} : p.slot[t] = player.slot[t]
  BY <1>4, SlotTypes DEF SlotStep
<1>6. Light(player, p)
  BY <1>2, <1>4, <1>5 DEF Light, SlotStep
<1>7. Sound(p) /\ Shown(p) = Shown(player)
  BY <1>6, SlotTypes, LightSound
<1>8. player.pending # s => Ready(p)
  BY <1>4, <1>5, SlotTypes DEF Ready, SlotStep
<1>9. QED
  BY <1>4, <1>6, <1>7, <1>8 DEF p
\* runPlayerErrorRecovery: a retry is one more than what was rendered, and goes
\* ahead of the page's list only when that is a catch-up list.
LEMMA RetryStep ==
    ASSUME PlayerInv, NEW s \in Slots, NEW decode \in BOOLEAN, NEW pip \in BOOLEAN,
           player.slot[s].phase \in {"loading", "playing"},
           seen.count < seen.base + MaxRetries, seen' = seen,
           Retry(FailedPlayer(s), decode, pip)
    PROVE  WantStep /\ ListStep /\ PlayerStep /\ queued' \in Counters /\ BudgetKept'
<1> DEFINE p == FailedPlayer(s)
           m == [p EXCEPT !.retrySeek = TRUE, !.skip = @ \/ ~IsLive(list)]
           l == RetryList
           st == page.stream
           q == HandleLoadSegments(m, st, l, pip \/ ~seamless.seen)
<1>1. page.stream \in Streams /\ page.stream # None /\ page.start \in Nat
  BY StreamSelected DEF PlayerInv, TypeOK, PageStates
<1>2. /\ p \in Players /\ Sound(p) /\ p.skip = player.skip /\ p.active = player.active
      /\ p.stable = player.stable
  BY FailedSlot DEF Light
<1>3. player' = q
  BY DEF Retry
<1> HIDE DEF p
<1>4. /\ m \in Players /\ m.active = p.active /\ m.pending = p.pending /\ m.slot = p.slot
      /\ m.skip = (p.skip \/ ~IsLive(list))
  <2>1. p.skip \in BOOLEAN /\ (p.skip \/ ~IsLive(list)) \in BOOLEAN
    BY <1>2 DEF Players
  <2>2. QED
    BY <1>2, <2>1 DEF Players
<1>5. Sound(m)
  BY <1>2, <1>4 DEF Sound
<1>6. l \in Lists \cup {None}
  BY <1>1 DEF RetryList, Lists, Fresh, PlayerInv, TypeOK
<1> HIDE DEF m, l
<1>7. Loaded(m, l, q)
  <2>1. st \in Streams \cup {None}
    BY <1>1
  <2>2. m \in Players
    BY <1>4
  <2>3. QED
    BY ONLY <1>5, <1>6, <2>1, <2>2, LoadSegments
<1> HIDE DEF q
<1>8. PlayerStep /\ Shown(player') = l /\ player'.skip = m.skip /\ player'.stable = None
  BY <1>1, <1>2, <1>3, <1>4, <1>7, LoadedStep
<1>9. IsLive(list) \in BOOLEAN /\ Seek(IsLive(list))
  BY DEF IsLive, Retry
<1>10. WantStep /\ want'.start = page.start + 1
  BY <1>1, <1>9, SeekWants
<1>11. ListStep
  <2>1. ~player'.skip => Shown(player') = list
    BY <1>2, <1>4, <1>8 DEF l, RetryList
  <2>2. player'.skip => player.skip \/ ~IsLive(list)
    BY <1>2, <1>4, <1>8
  <2>3. QED
    BY <1>10, <2>1, <2>2 DEF ListStep
<1>12. queued' \in Counters /\ BudgetKept'
  <2>1. {queued, seen} \subseteq Counters /\ MaxRetries \in Nat \ {0}
    BY PlayerAssumption DEF PlayerInv, TypeOK
  <2>2. queued' = [queued EXCEPT !.count = seen.count + 1, !.error = FALSE,
                                 !.base = IF decode THEN seen.base + 1 ELSE queued.base]
    BY DEF Retry
  <2>3. /\ queued' \in Counters /\ queued'.count = seen.count + 1
        /\ queued'.base = IF decode THEN seen.base + 1 ELSE queued.base
    <3> DEFINE base == IF decode THEN seen.base + 1 ELSE queued.base
               count == seen.count + 1
    <3>1. base \in Nat /\ count \in Nat
      BY <2>1 DEF Counters
    <3>2. queued' = [queued EXCEPT !.count = count, !.error = FALSE, !.base = base]
      BY <2>2
    <3> HIDE DEF base, count
    <3>3. queued' \in Counters /\ queued'.count = count /\ queued'.base = base
      BY <2>1, <3>1, <3>2 DEF Counters
    <3>4. QED
      BY <3>3 DEF base, count
  <2>4. ~Due'
    BY <1>8 DEF Due
  <2>5. BudgetKept'
    BY <2>1, <2>3, <2>4 DEF BudgetKept, PlayerInv, Counters
  <2>6. QED
    BY <2>3, <2>5
<1>13. QED
  BY <1>8, <1>10, <1>11, <1>12

LEMMA FailsStep ==
    ASSUME PlayerInv, NEW s \in Slots, NEW decode \in BOOLEAN, NEW pip \in BOOLEAN,
           Fails(s, decode, pip)
    PROVE  Handled
<1> DEFINE p == FailedPlayer(s)
<1>1. /\ player.slot[s].phase \in {"loading", "playing"}
      /\ UNCHANGED <<page, next, list, seen, seamless, hidden, acts>>
  BY DEF Fails, Reported
<1>2. page.stream \in Streams /\ want.stream \in Streams /\ page.stream # None
  BY <1>1, StreamSelected
<1>3. /\ Light(player, p) /\ Sound(p) /\ Shown(p) = Shown(player) /\ p.stable = player.stable
      /\ player.pending # s => Ready(p)
  BY <1>1, FailedSlot
<1>4. p \in Players /\ p.pending = player.pending /\ p.active = player.active /\ p.skip = player.skip
  BY <1>3 DEF Light
<1>5. forgotten' = forgotten
  BY DEF Fails, RunPlayerErrorRecovery, Retry
<1>6. BoundsStep
  BY <1>1, <1>5, PlayerAssumption DEF BoundsStep, Fails, Fault, PlayerInv, TypeOK
<1>7. CASE /\ p.pending = s
           /\ player' = Fallback(p, s)
           /\ queued' = [queued EXCEPT !.error = FALSE]
           /\ want' = want
  <2> HIDE DEF p
  <2>1. Loaded(p, list, Fallback(p, s))
    BY <1>3, <1>4, <1>7, FallbackLoads DEF PlayerInv
  <2>2. PlayerStep /\ Shown(player') = list /\ player'.skip = p.skip /\ player'.stable = None
    BY <1>2, <1>4, <1>7, <2>1, LoadedStep
  <2>3. queued' \in Counters /\ queued'.count = queued.count /\ queued'.base = queued.base
    BY <1>7 DEF PlayerInv, TypeOK, Counters
  <2>4. BudgetKept'
    BY <1>1, <2>2, <2>3, BudgetSame
  <2>5. ListStep
    BY <1>4, <2>2 DEF ListStep
  <2>6. QED
    BY <1>1, <1>6, <1>7, <2>2, <2>3, <2>4, <2>5 DEF Handled, WantStep
<1>8. CASE seen.count < seen.base + MaxRetries /\ Retry(p, decode, pip)
  BY <1>1, <1>6, <1>8, RetryStep DEF Handled
<1>9. CASE /\ p.pending # s /\ player' = p
           /\ \/ /\ page.stream[2] < NumSources /\ ChangeSource(page.stream[2] + 1)
                 /\ queued' = queued
              \/ want' = want /\ queued' = [queued EXCEPT !.error = TRUE]
  <2> HIDE DEF p
  <2>1. PlayerStep /\ ListStep
    BY <1>3, <1>4, <1>5, <1>9, LightStep
  <2>2. queued' \in Counters /\ queued'.count = queued.count /\ queued'.base = queued.base
    BY <1>9 DEF PlayerInv, TypeOK, Counters
  <2>3. BudgetKept'
    BY <1>1, <1>3, <1>9, <2>2, BudgetSame
  <2>4. WantStep
    <3>1. CASE want' = want
      BY <3>1 DEF WantStep
    <3>2. CASE page.stream[2] < NumSources /\ ChangeSource(page.stream[2] + 1)
      <4>1. /\ page.stream[2] + 1 \in 1 .. NumSources /\ want.stream[1] \in Channels
            /\ page.start + 1 \in Nat /\ (IsLive(list) \/ want.live) \in BOOLEAN
        BY <1>2, <3>2, PlayerAssumption DEF Streams, PlayerInv, TypeOK, PageStates
      <4>2. want' = [stream |-> <<want.stream[1], page.stream[2] + 1>>, start |-> page.start + 1,
                     live |-> IsLive(list) \/ want.live]
        BY <3>2 DEF ChangeSource, Fresh
      <4>3. <<want.stream[1], page.stream[2] + 1>> \in Streams
        BY <4>1 DEF Streams
      <4>4. QED
        BY <4>1, <4>2, <4>3, PlayerAssumption DEF WantStep, PageStates
    <3>3. QED
      BY <1>9, <3>1, <3>2
  <2>5. QED
    BY <1>1, <1>6, <2>1, <2>2, <2>3, <2>4 DEF Handled
<1>10. QED
  BY <1>7, <1>8, <1>9 DEF Fails, RunPlayerErrorRecovery, FailedPlayer
-----------------------------------------------------------------------------
(* The background.                                                          *)

LEMMA HideStep ==
    ASSUME PlayerInv, Hide
    PROVE  Handled
<1>1. PlayerStep /\ ListStep
  BY SameSlots, LightStep DEF Hide
<1>2. BoundsStep
  BY PlayerAssumption DEF BoundsStep, Hide, Fault, PlayerInv, TypeOK
<1>3. queued' \in Counters /\ BudgetKept'
  BY BudgetUntouched DEF Hide, ReactUnchanged
<1>4. QED
  BY <1>1, <1>2, <1>3 DEF Handled, WantStep, Hide, ReactUnchanged

LEMMA LeavePictureInPictureStep ==
    ASSUME PlayerInv, LeavePictureInPicture
    PROVE  Handled
<1>1. PlayerStep /\ ListStep
  BY SameSlots, LightStep DEF LeavePictureInPicture
<1>2. BoundsStep
  BY PlayerAssumption DEF BoundsStep, LeavePictureInPicture, PlayerInv, TypeOK
<1>3. queued' \in Counters /\ BudgetKept'
  BY BudgetUntouched DEF LeavePictureInPicture, ReactUnchanged
<1>4. QED
  BY <1>1, <1>2, <1>3 DEF Handled, WantStep, LeavePictureInPicture, ReactUnchanged

LEMMA OsPausesStep ==
    ASSUME PlayerInv, OsPauses
    PROVE  Handled
<1> DEFINE a == player.active
<1>1. player' = [player EXCEPT !.slot = [player.slot EXCEPT ![a] = Paused(a)], !.stable = None]
  BY SlotTypes DEF OsPauses, Players, Paused
<1>2. SlotStep(player, a, Paused(a), player')
  BY <1>1, SlotTypes, PausedSlot, SlotReplaced
<1>3. Light(player, player') /\ Ready(player') /\ player'.stable \in {player.stable, None}
  BY <1>2, SlotTypes, PauseIsLight
<1>4. PlayerStep /\ ListStep
  BY <1>3, LightStep DEF OsPauses
<1>5. queued' \in Counters /\ BudgetKept'
  BY <1>3, BudgetUntouched DEF OsPauses, ReactUnchanged
<1>6. QED
  BY <1>4, <1>5 DEF Handled, WantStep, BoundsStep, OsPauses, ReactUnchanged, Reported, PlayerInv, TypeOK

LEMMA SourceClosesStep ==
    ASSUME PlayerInv, NEW s \in Slots, SourceCloses(s)
    PROVE  Handled
<1> DEFINE old == player.slot[s]
           new == [old EXCEPT !.phase = "dead"]
<1>1. old \in SlotStates /\ old.phase # "idle"
  BY SlotTypes DEF SourceCloses
<1>2. new \in SlotStates /\ new.list = old.list /\ new.phase = "dead"
  BY <1>1 DEF SlotStates
<1>3. player' = [player EXCEPT !.slot = [player.slot EXCEPT ![s] = new]]
  BY <1>1, SlotTypes DEF SourceCloses, Players, SlotStates
<1> HIDE DEF new
<1>4. SlotStep(player, s, new, player')
  BY <1>2, <1>3, SlotTypes, SlotReplaced
<1>5. Light(player, player') /\ Ready(player') /\ player'.stable \in {player.stable, None}
  BY <1>1, <1>2, <1>4, SlotTypes, SlotStepIsLight
<1>6. PlayerStep /\ ListStep
  BY <1>5, LightStep DEF SourceCloses
<1>7. queued' \in Counters /\ BudgetKept'
  BY <1>5, BudgetUntouched DEF SourceCloses, ReactUnchanged
<1>8. QED
  BY <1>6, <1>7 DEF Handled, WantStep, BoundsStep, SourceCloses, ReactUnchanged, Reported, PlayerInv, TypeOK

LEMMA HandleVisibilityChangeStep ==
    ASSUME PlayerInv, HandleVisibilityChange
    PROVE  Handled
<1>1. BoundsStep
  BY PlayerAssumption DEF BoundsStep, HandleVisibilityChange, PlayerInv, TypeOK
<1>2. forgotten' = forgotten /\ UNCHANGED <<page, next, list, seen>>
  BY DEF HandleVisibilityChange
<1>3. queued' = queued \/ queued' = [queued EXCEPT !.blocked = TRUE]
  BY DEF HandleVisibilityChange, PlayAgain
<1>8. queued' \in Counters /\ queued'.count = queued.count /\ queued'.base = queued.base
  BY <1>3 DEF PlayerInv, TypeOK, Counters
<1>9. SUFFICES /\ WantStep /\ Light(player, player') /\ Ready(player')
               /\ player'.stable = player.stable
  BY <1>1, <1>2, <1>8, LightStep, BudgetSame DEF Handled
<1>4. CASE player' = player /\ want' = want
  BY <1>4, SameSlots DEF WantStep
<1>5. CASE /\ Active.phase = "dead" \/ Active.phase = "playing"
           /\ player' = [player EXCEPT !.autoplay = TRUE]
           /\ \E near \in BOOLEAN : Seek(near)
  <2>1. page.stream # None
    BY <1>5, SlotTypes, StreamSelected DEF Active
  <2>2. WantStep
    BY <1>5, <2>1, SeekWants
  <2>3. Light(player, player') /\ player'.stable = player.stable /\ player'.slot = player.slot
    BY <1>5, SlotTypes DEF Light, Players
  <2>4. Ready(player')
    BY <2>3, SameSlots DEF Ready, Light
  <2>5. QED
    BY <2>2, <2>3, <2>4
<1>6. CASE player' = PlayVideo(player, player.active) /\ want' = want
  BY <1>6, PlayIsLight DEF WantStep
<1>7. QED
  BY <1>4, <1>5, <1>6 DEF HandleVisibilityChange, PlayAgain
-----------------------------------------------------------------------------
(* A rendering.                                                             *)

Rendered == [AfterSetting EXCEPT !.retrySeek = @ /\ next = list]

\* What the effect of the setting leaves: a slot is given up or nothing happens.
LEMMA SettingApplied ==
    ASSUME PlayerInv
    PROVE  LET p == Rendered IN
           /\ p \in Players /\ Sound(p) /\ Ready(p)
           /\ p.active = player.active /\ p.skip = player.skip /\ p.stable = player.stable
           /\ page.stream = None => \A s \in Slots : p.slot[s].phase = "idle"
           /\ Shown(p) = Shown(player) \/ (SwitchedOff /\ player.pending # None)
<1> DEFINE a == AfterSetting
<1>0. player \in Players /\ Sound(player) /\ Ready(player)
  BY SlotTypes
<1>1. /\ a \in Players /\ Sound(a) /\ Ready(a)
      /\ a.active = player.active /\ a.skip = player.skip /\ a.stable = player.stable
      /\ page.stream = None => \A s \in Slots : a.slot[s].phase = "idle"
      /\ Shown(a) = Shown(player) \/ (SwitchedOff /\ player.pending # None)
  <2>1. page.stream = None => \A s \in Slots : player.slot[s].phase = "idle"
    BY DEF PlayerInv, EffectDone
  <2>2. CASE a = player
    BY <1>0, <2>1, <2>2
  <2>3. CASE a = StopPendingTransition(player) /\ SwitchedOff /\ player.pending # None
    <3> DEFINE q == StopPendingTransition(player)
    <3>1. /\ q \in Players
          /\ SameRefs(player, q) /\ q.active = player.active /\ q.pending = None
          /\ q.stable = player.stable /\ q.slot[player.active] = player.slot[player.active]
          /\ Sound(q)
      BY <1>0, StopPending
    <3>2. a = q
      BY <2>3
    <3> HIDE DEF q, a
    <3>3. page.stream = None => \A s \in Slots : q.slot[s].phase = "idle"
      BY <1>0, <2>1, <3>1, PlayerAssumption DEF Sound, Players
    <3>4. Ready(q)
      BY <3>1, PlayerAssumption DEF Ready
    <3>5. QED
      BY <2>3, <3>1, <3>2, <3>3, <3>4 DEF SameRefs
  <2>4. QED
    BY <2>2, <2>3 DEF AfterSetting, StopPendingTransition
<1> HIDE DEF a
<1> DEFINE p == [a EXCEPT !.retrySeek = @ /\ next = list]
<1>2. Rendered = p
  BY DEF Rendered, a
<1>3. /\ p \in Players /\ p.active = a.active /\ p.pending = a.pending
      /\ p.slot = a.slot /\ p.skip = a.skip /\ p.stable = a.stable
  <2>1. (a.retrySeek /\ next = list) \in BOOLEAN
    OBVIOUS
  <2>2. QED
    BY <1>1, <2>1 DEF Players
<1> HIDE DEF p
<1>4. Sound(p) /\ Ready(p) /\ Shown(p) = Shown(a)
  BY <1>1, <1>3 DEF Sound, Ready, Shown, TargetOf
<1>5. QED
  BY <1>1, <1>2, <1>3, <1>4

\* The player as a rendering finds it, and as the effect on a new list leaves it.
LEMMA RenderPlayer ==
    ASSUME PlayerInv, NEW pip \in BOOLEAN, Render(pip)
    PROVE  /\ player' \in Players /\ Sound(player') /\ Ready(player') /\ Revealed
           /\ forgotten' \in BOOLEAN
           /\ \/ /\ next = list /\ player'.skip = player.skip
                 /\ page.stream = None => \A s \in Slots : player'.slot[s].phase = "idle"
                 /\ Shown(player') = Shown(player) \/ forgotten'
                 /\ player'.stable = player.stable
                 /\ ~forgotten' => ~forgotten
              \/ /\ next # list /\ ~player'.skip /\ player'.stable = player.stable
                 /\ ~forgotten' => Shown(player') = next
              \/ /\ next # list /\ ~player'.skip /\ player'.stable = None
                 /\ Shown(player') = next
<1> DEFINE p == Rendered
<1>1. /\ p \in Players /\ Sound(p) /\ Ready(p)
      /\ p.active = player.active /\ p.skip = player.skip /\ p.stable = player.stable
      /\ page.stream = None => \A s \in Slots : p.slot[s].phase = "idle"
      /\ Shown(p) = Shown(player) \/ (SwitchedOff /\ player.pending # None)
  BY SettingApplied
<1>2. forgotten \in BOOLEAN
  BY DEF PlayerInv, TypeOK
<1>3. CASE /\ next = list /\ player' = p
           /\ forgotten' = (\/ forgotten \/ Deduplicated
                            \/ SwitchedOff /\ player.pending # None)
  BY <1>1, <1>2, <1>3 DEF Revealed
<1>4. CASE /\ next # list /\ player' = [p EXCEPT !.skip = FALSE]
           /\ forgotten' = (player'.slot[Target'].list # next)
  <2> HIDE DEF p
  <2>1. /\ player' \in Players /\ player'.active = p.active /\ player'.pending = p.pending
        /\ player'.slot = p.slot /\ player'.skip = FALSE /\ player'.stable = p.stable
    BY <1>1, <1>4 DEF Players
  <2>2. Sound(player') /\ Ready(player') /\ Revealed
    BY <1>1, <2>1 DEF Sound, Ready, Revealed
  <2>3. Shown(player') = player'.slot[Target'].list
    BY DEF Shown, TargetOf, Target
  <2>4. QED
    BY <1>1, <1>4, <2>1, <2>2, <2>3
<1>5. CASE /\ next # list /\ ~player.skip /\ forgotten' = FALSE
           /\ player' = HandleLoadSegments(p, want.stream, next, pip \/ ~seamless.set)
  <2> DEFINE st == want.stream
             l == next
             hard == pip \/ ~seamless.set
             q == HandleLoadSegments(p, st, l, hard)
  <2>1. st \in Streams \cup {None} /\ l \in Lists \cup {None} /\ p \in Players /\ Sound(p)
    BY <1>1 DEF PlayerInv, TypeOK, PageStates
  <2> HIDE DEF p, st, l, hard
  <2>2. Loaded(p, l, q)
    BY ONLY <2>1, LoadSegments
  <2> HIDE DEF q
  <2>3. player' = q
    BY <1>5 DEF q, st, l, hard
  <2>4. QED
    BY <1>1, <1>5, <2>2, <2>3 DEF Loaded, SameRefs, Revealed, l
<1>6. QED
  BY <1>3, <1>4, <1>5 DEF Render, Rendered

LEMMA RenderBudget ==
    ASSUME PlayerInv, NEW pip \in BOOLEAN, Render(pip)
    PROVE  {queued', seen'} \subseteq Counters /\ BudgetKept'
<1>1. {queued, seen} \subseteq Counters /\ MaxRetries \in Nat \ {0}
  BY PlayerAssumption DEF PlayerInv, TypeOK
<1>2. /\ seen' \in Counters
      /\ \/ seen' = queued
         \/ seen'.count = 0 /\ seen'.base = 0
  <2>1. seen' = queued \/ seen' = [queued EXCEPT !.count = 0, !.base = 0]
    BY DEF Render, Counted
  <2>2. CASE seen' = queued
    BY <1>1, <2>2
  <2>3. CASE seen' = [queued EXCEPT !.count = 0, !.base = 0]
    BY <1>1, <2>3 DEF Counters
  <2>4. QED
    BY <2>1, <2>2, <2>3
<1>3. queued' \in Counters /\ queued'.count = seen'.count /\ queued'.base = seen'.base
  BY <1>2 DEF Render, Counters
<1>4. player'.stable \in {player.stable, None}
  BY RenderPlayer
<1>5. CASE seen' = queued
  BY <1>1, <1>2, <1>3, <1>4, <1>5 DEF BudgetKept, Due, PlayerInv, Counters
<1>6. CASE seen'.count = 0 /\ seen'.base = 0
  <2>1. Due' => player'.stable.count \in Nat
    BY <1>4, SlotTypes DEF Due, Players
  <2>2. /\ queued'.count = 0 /\ queued'.base = 0 /\ MaxRetries \in Nat
        /\ queued' \in Counters /\ seen' \in Counters
    BY <1>1, <1>2, <1>3, <1>6
  <2>3. BudgetKept'
    BY <1>6, <2>1, <2>2 DEF BudgetKept
  <2>4. QED
    BY <2>2, <2>3
<1>7. QED
  BY <1>2, <1>3, <1>5, <1>6

\* What the effect of the page makes of a page state it is run for.
LEMMA PageEffectStep ==
    ASSUME PlayerInv, PageEffect(want), want.stream # None
    PROVE  /\ want' \in PageStates /\ want'.stream # None /\ next' \in Lists \cup {None}
           /\ want.live => next' = [stream |-> want.stream, start |-> Edge]
           /\ ~want.live /\ want.stream \in Catchup => next' = [stream |-> want.stream, start |-> want.start]
           /\ ~want.live /\ want.stream \notin Catchup => want' # want
           /\ want'.start \in {want.start, want.start + 1}
           /\ want'.start = want.start /\ want' # want => want'.stream \in Catchup /\ ~want'.live
           /\ next' = next \/ next' \in {[stream |-> want.stream, start |-> Edge],
                                         [stream |-> want.stream, start |-> want.start]}
<1>1. /\ want \in PageStates /\ want.stream \in Streams /\ next \in Lists \cup {None}
      /\ want.start \in Nat /\ want.live \in BOOLEAN
  BY DEF PlayerInv, TypeOK, PageStates
<1>2. CASE want.live \/ want.stream \in Catchup
  <2>1. want' = want
    BY <1>2 DEF PageEffect
  <2>2. /\ want.live => next' = [stream |-> want.stream, start |-> Edge]
        /\ ~want.live => next' = [stream |-> want.stream, start |-> want.start]
    BY <1>2 DEF PageEffect
  <2>3. next' \in Lists
    BY <1>1, <2>2 DEF Lists
  <2>4. QED
    BY <1>1, <1>2, <2>1, <2>2, <2>3
<1>3. CASE ~want.live /\ want.stream \notin Catchup /\ Offers(want.stream) # {}
  <2> DEFINE i == FirstOffer(want.stream)
             st == <<want.stream[1], i>>
  <2>1. next' = next /\ want' = [want EXCEPT !.stream = st]
    BY <1>3 DEF PageEffect
  <2>2. i \in Offers(want.stream)
    <3> DEFINE S == Offers(want.stream)
    <3>1. S \subseteq Nat /\ S # {}
      BY <1>3, PlayerAssumption DEF Offers
    <3>2. \E k \in S : \A j \in S : k <= j
      BY <3>1, LeastNat
    <3>3. QED
      BY <3>2 DEF FirstOffer
  <2>3. st \in Catchup /\ st \in Streams
    BY <2>2, PlayerAssumption DEF Offers
  <2> HIDE DEF st
  <2>4. want' \in PageStates /\ want'.stream = st /\ want'.start = want.start /\ want'.live = want.live
    BY <1>1, <2>1, <2>3 DEF PageStates
  <2>5. QED
    BY <1>1, <1>3, <2>1, <2>3, <2>4, PlayerAssumption
<1>4. CASE ~want.live /\ want.stream \notin Catchup /\ Offers(want.stream) = {}
  <2> DEFINE start == want.start + 1
  <2>1. next' = next /\ want' = [want EXCEPT !.live = TRUE, !.start = start] /\ start \in Nat
    BY <1>1, <1>4 DEF PageEffect, Fresh
  <2>2. start # want.start
    BY <1>1
  <2> HIDE DEF start
  <2>3. /\ want' \in PageStates /\ want'.stream = want.stream /\ want'.start = start
    BY <1>1, <2>1 DEF PageStates
  <2>4. want' # want
    BY <2>2, <2>3
  <2>5. QED
    BY <1>1, <1>4, <2>1, <2>2, <2>3, <2>4 DEF start
<1>5. QED
  BY <1>2, <1>3, <1>4
LEMMA RenderStep ==
    ASSUME PlayerInv, NEW pip \in BOOLEAN, Render(pip)
    PROVE  PlayerInv' /\ Revealed
<1>1. /\ page' = want /\ list' = next
      /\ UNCHANGED <<hidden, acts, faults>>
      /\ seamless' \in [set : BOOLEAN, seen : BOOLEAN]
  BY DEF Render, PlayerInv, TypeOK
<1>2. /\ {want, page} \subseteq PageStates /\ {next, list} \subseteq Lists \cup {None}
      /\ want.start \in Nat /\ page.start \in Nat
      /\ want.start \in {page.start, page.start + 1}
  BY DEF PlayerInv, TypeOK, PageStates, StartsOrdered
<1>3. CASE want.stream = None
  <2>1. page.stream = None /\ next = None /\ list = None
    BY <1>3 DEF PlayerInv, EffectDone
  <2>2. want' = want /\ next' = next
    BY <1>3 DEF Render, PageEffect
  <2>3. player'.skip = player.skip /\ \A s \in Slots : player'.slot[s].phase = "idle"
    BY <2>1, RenderPlayer
  <2>4. EffectDone'
    BY <1>1, <1>3, <2>1, <2>2, <2>3 DEF EffectDone, PlayerInv
  <2>5. StartsOrdered'
    BY <1>1, <2>1, <2>2 DEF StartsOrdered
  <2>6. TargetHoldsList'
    BY <1>1, <2>1, <2>2, <2>3 DEF TargetHoldsList, PlayerInv
  <2>7. TypeOK'
    BY <1>1, <1>2, <2>1, <2>2, RenderPlayer, RenderBudget DEF PlayerInv, TypeOK
  <2>8. OneSession' /\ PendingIsHidden'
    BY PlayerAssumption, RenderPlayer DEF Players, OneSession, PendingIsHidden, Sound, Ready, Slots
  <2>9. QED
    BY <2>4, <2>5, <2>6, <2>7, <2>8, RenderPlayer, RenderBudget DEF PlayerInv
<1>4. CASE want.stream # None
  <2>1. \/ want = page /\ want' = want /\ next' = next
        \/ want # page /\ PageEffect(want)
    BY DEF Render
  <2>2. /\ want' \in PageStates /\ want'.stream # None /\ next' \in Lists \cup {None}
        /\ want.live => next' = [stream |-> want.stream, start |-> Edge]
        /\ ~want.live /\ want.stream \in Catchup => next' = [stream |-> want.stream, start |-> want.start]
        /\ ~want.live /\ want.stream \notin Catchup => want' # want
        /\ want'.start \in {want.start, want.start + 1}
        /\ want'.start = want.start /\ want' # want => want'.stream \in Catchup /\ ~want'.live
        /\ next' = next \/ next' \in {[stream |-> want.stream, start |-> Edge],
                                      [stream |-> want.stream, start |-> want.start]}
    <3>1. CASE want = page /\ want' = want /\ next' = next
      BY <1>2, <1>4, <3>1 DEF PlayerInv, EffectDone
    <3>2. CASE PageEffect(want)
      BY <1>4, <3>2, PageEffectStep
    <3>3. QED
      BY <2>1, <3>1, <3>2
  <2>3. EffectDone'
    BY <1>1, <1>4, <2>2 DEF EffectDone
  <2>4. next # None => next.start \in Int /\ next.start <= want.start
    BY <1>2 DEF PlayerInv, StartsOrdered, Lists, Edge
  <2>5. StartsOrdered'
    <3>1. next' # None => next'.start <= want.start
      BY <1>2, <2>2, <2>4 DEF Edge
    <3>2. QED
      BY <1>1, <2>2, <2>4, <3>1 DEF StartsOrdered
  <2>6. TargetHoldsList'
    <3>1. list' # None /\ ~forgotten' /\ ~player'.skip => Shown(player') = list'
      BY <1>1, RenderPlayer DEF PlayerInv, TargetHoldsList, Shown, TargetOf, Target
    <3>2. player'.skip => player.skip /\ next = list
      BY RenderPlayer
    <3>3. player'.skip => list' # None /\ ~IsLive(list') /\ list'.start < want'.start
      <4> SUFFICES ASSUME player'.skip
                   PROVE  list' # None /\ ~IsLive(list') /\ list'.start < want'.start
        OBVIOUS
      <4>1. next = list /\ list # None /\ ~IsLive(list) /\ list.start < want.start
        BY <3>2 DEF PlayerInv, TargetHoldsList
      <4>2. list.start \in Int /\ want'.start >= want.start
        BY <1>2, <2>2, <2>4, <4>1
      <4>3. QED
        BY <1>1, <1>2, <2>2, <4>1, <4>2 DEF PageStates
    <3>4. QED
      BY <3>1, <3>3 DEF TargetHoldsList, Shown, TargetOf, Target
  <2>7. TypeOK'
    <3>1. hidden' \in {"no", "yes", "pip"} /\ acts' \in 0 .. MaxActs
          /\ faults' \in 0 .. MaxFaults
      BY <1>1 DEF PlayerInv, TypeOK
    <3>2. QED
      BY <1>1, <1>2, <2>2, <3>1, RenderPlayer, RenderBudget DEF TypeOK
  <2>8. OneSession' /\ PendingIsHidden'
    BY PlayerAssumption, RenderPlayer DEF Players, OneSession, PendingIsHidden, Sound, Ready, Slots
  <2>9. QED
    BY <2>3, <2>5, <2>6, <2>7, <2>8, RenderPlayer, RenderBudget DEF PlayerInv
<1>5. QED
  BY <1>3, <1>4
-----------------------------------------------------------------------------
(* The theorems.                                                             *)

LEMMA InitHolds == Init => PlayerInv
<1> SUFFICES ASSUME Init PROVE PlayerInv
  OBVIOUS
<1>1. Idle \in SlotStates /\ Idle.phase = "idle" /\ Idle.playing = {}
  BY DEF Idle, SlotStates
<1>2. player \in Players /\ player.pending = None /\ player.active = "a"
      /\ player.slot = [s \in Slots |-> Idle] /\ player.stable = None /\ player.skip = FALSE
  BY <1>1 DEF Init, Players, Slots
<1>3. TypeOK
  <2>1. want \in PageStates /\ page = want
    BY DEF Init, PageStates
  <2>2. queued \in Counters /\ seen = queued
    BY DEF Init, Counters
  <2>3. acts \in 0 .. MaxActs /\ faults \in 0 .. MaxFaults /\ next = None /\ list = None
    BY PlayerAssumption DEF Init
  <2>4. /\ seamless \in [set : BOOLEAN, seen : BOOLEAN]
        /\ hidden \in {"no", "yes", "pip"} /\ forgotten \in BOOLEAN
    <3>1. /\ seamless = [set |-> TRUE, seen |-> TRUE]
          /\ hidden = "no" /\ forgotten = FALSE
      BY Zenon DEF Init
    <3>2. QED
      BY <3>1
  <2>5. QED
    BY <1>2, <2>1, <2>2, <2>3, <2>4 DEF TypeOK
<1>4. OneSession /\ PendingIsHidden
  BY <1>1, <1>2 DEF OneSession, PendingIsHidden
<1>5. BudgetKept
  BY <1>2, PlayerAssumption DEF Init, BudgetKept, Due
<1>6. EffectDone /\ StartsOrdered /\ TargetHoldsList
  BY <1>1, <1>2 DEF Init, EffectDone, StartsOrdered, TargetHoldsList
<1>7. QED
  BY <1>3, <1>4, <1>5, <1>6 DEF PlayerInv

LEMMA NextStep ==
    ASSUME PlayerInv, Next
    PROVE  PlayerInv' /\ Revealed
<1>1. CASE Handled
  BY <1>1, HandlerStep DEF Handled, PlayerStep
<1>2. CASE User
  <2>1. Handled
    BY <1>2, SelectChannelStep, ChooseSourceStep, SeekAwayStep, GoLiveStep, TogglePlayPauseStep,
       ToggleSeamlessStep, HandleUserInteractionStep DEF User
  <2>2. QED
    BY <1>1, <2>1
<1>3. CASE Media
  <2>1. Handled
    BY <1>3, BeginsToPlayStep, HandleVideoPlayingStep, HandleVideoWaitingStep, StableTimeoutStep,
       FailsStep, PlayRejectedStep, HandlePlaybackEndedStep DEF Media
  <2>2. QED
    BY <1>1, <2>1
<1>4. CASE Background
  <2>1. Handled
    BY <1>4, HideStep, LeavePictureInPictureStep, OsPausesStep, SourceClosesStep, HandleVisibilityChangeStep DEF Background
  <2>2. QED
    BY <1>1, <2>1
<1>5. CASE Rendering
  BY <1>5, RenderStep DEF Rendering
<1>6. QED
  BY <1>2, <1>3, <1>4, <1>5 DEF Next

LEMMA StutterStep ==
    ASSUME PlayerInv, UNCHANGED vars
    PROVE  PlayerInv'
  BY DEF vars, PlayerInv, TypeOK, OneSession, PendingIsHidden, BudgetKept, Due, EffectDone,
         StartsOrdered, TargetHoldsList, Target

\* Between any two steps of the page, the media elements and the browser: no
\* stream that nobody watches holds a slot, the retries keep their budget, and
\* the list loaded lags behind the page only as the code means it to.
THEOREM PlayerInvariant == Spec => []PlayerInv
<1>1. PlayerInv /\ [Next]_vars => PlayerInv'
  BY NextStep, StutterStep
<1>2. QED
  BY InitHolds, <1>1, PTL DEF Spec

\* Once nothing is left to render, the slot that is to be shown holds the list
\* the page asks for, unless that list was passed over (video-player.tsx:768,
\* :1160, player.tsx:203).
THEOREM SelectedListIsLoaded == Spec => []LoadedIsSelected
<1>1. PlayerInv => LoadedIsSelected
  <2> SUFFICES ASSUME PlayerInv, want = page, next = list, list # None, ~forgotten
               PROVE  player.slot[Target].list = list
    BY DEF LoadedIsSelected
  <2>1. ~player.skip
    <3> SUFFICES ASSUME player.skip PROVE FALSE
      OBVIOUS
    <3>1. ~IsLive(list) /\ list.start < page.start
      BY DEF PlayerInv, TargetHoldsList
    <3>2. page.stream # None /\ page.start \in Nat
      BY DEF PlayerInv, EffectDone, TypeOK, PageStates
    <3>3. list.start = Edge \/ list.start = page.start
      BY <3>2 DEF PlayerInv, EffectDone
    <3>4. QED
      BY <3>1, <3>2, <3>3 DEF IsLive
  <2>2. QED
    BY <2>1 DEF PlayerInv, TargetHoldsList
<1>2. QED
  BY <1>1, PlayerInvariant, PTL

\* The picture moves to the other slot only when what was loaded there last has
\* begun to play (completePendingSwitchIfNeeded).
THEOREM PictureFollowsPlayback == Spec => RevealedHasStarted
<1>1. PlayerInv /\ [Next]_vars =>
        [player'.active # player.active
            => player'.slot[player'.active].phase \in {"playing", "dead"}]_vars
  BY NextStep DEF Revealed
<1>2. QED
  BY <1>1, PlayerInvariant, PTL DEF Spec, RevealedHasStarted
=============================================================================
