-------------------------- MODULE MediaPathProofs ---------------------------
(***************************************************************************)
(* Proofs about the two ends of the web player's way of media: the queue   *)
(* from which segments go to the browser, and the loader by which their    *)
(* bytes come in.                                                          *)
(*                                                                         *)
(* MediaSourceQueue, for every sequence of messages, every quota and       *)
(* threshold and any number of upsets: what a track was given is what was  *)
(* appended followed by what waits (Lossless), and a removal that waits    *)
(* has a busy buffer (RemovalsUnderWay).  A handler is a composition of    *)
(* operators on the main thread's record, so there is one lemma per        *)
(* operator: it keeps both facts (Kept).                                   *)
(*                                                                         *)
(* FetchLoader implements ByteFeed, for every size of packets, chunks and  *)
(* responses and any number of restarts.                                   *)
(***************************************************************************)
EXTENDS MediaSourceQueue, FetchLoader, TLAPS, SequenceTheorems, WellFoundedInduction

USE QueueAssumption

Inits == {e \in Entries : e.type = "init"}

\* The fields the argument is about.
Fields ==
    {"readyState", "opened", "sb", "pendingSegments", "pendingRemoveRanges",
     "pendingSourceBufferInit", "disabledTracks", "pendingInits", "given", "appended", "failed"}

Shaped(s) ==
    /\ Fields \subseteq DOMAIN s
    /\ DOMAIN s.sb = Track /\ DOMAIN s.pendingRemoveRanges = Track
    /\ \A t \in Track : s.sb[t] = NoBuffer \/ s.sb[t] = Idle \/ Updating(s, t)
    /\ s.pendingSegments \in [Track -> Seq(Entries)]
    /\ s.given \in [Track -> Seq(Entries)]
    /\ s.appended \in [Track -> Seq(Entries)]
    /\ s.pendingSourceBufferInit \in Seq(Inits)
    /\ s.pendingInits \in Seq(Inits)

AllKept(s) ==
    \A t \in Track \ s.disabledTracks : s.given[t] = s.appended[t] \o s.pendingSegments[t]

RemovalBusy(s, t) == s.pendingRemoveRanges[t] # << >> => Updating(s, t)

\* A removal that waits may also have a free buffer.
RemovalDue(s, t) == s.pendingRemoveRanges[t] # << >> => Updating(s, t) \/ s.sb[t] = Idle

AllBusy(s) == \A t \in Track : RemovalBusy(s, t)

AllDue(s) == \A t \in Track : RemovalDue(s, t)

\* The source stays what it is, or ends.
Onward(s, q) ==
    /\ q.opened = s.opened
    /\ q.readyState = s.readyState \/ (s.readyState = "open" /\ q.readyState = "ended")

Kept(s, q) ==
    /\ Shaped(q) /\ Onward(s, q)
    /\ AllKept(s) => AllKept(q)
    /\ AllBusy(s) => AllBusy(q)

\* The same queue: only other fields differ.
Same(s, q) ==
    /\ DOMAIN q = DOMAIN s
    /\ q.readyState = s.readyState /\ q.opened = s.opened /\ q.sb = s.sb
    /\ q.pendingSegments = s.pendingSegments
    /\ q.pendingRemoveRanges = s.pendingRemoveRanges
    /\ q.pendingSourceBufferInit = s.pendingSourceBufferInit
    /\ q.disabledTracks = s.disabledTracks /\ q.pendingInits = s.pendingInits
    /\ q.given = s.given /\ q.appended = s.appended

-----------------------------------------------------------------------------
LEMMA LeastNat ==
    ASSUME NEW S, S \subseteq Nat, S # {}
    PROVE  \E k \in S : \A j \in S : k <= j
<1> DEFINE Less == {ss \in Nat \X Nat : ss[1] < ss[2]}
<1>1. IsWellFoundedOn(Less, Nat)
  BY NatLessThanWellFounded, Zenon DEF OpToRel
<1>2. \A j, k \in Nat : <<j, k>> \in Less <=> j < k
  OBVIOUS
<1> HIDE DEF Less
<1>3. PICK k \in S : \A j \in S : ~(<<j, k>> \in Less)
  BY <1>1, WFMin
<1>4. ASSUME NEW j \in S PROVE k <= j
  <2>1. j \in Nat /\ k \in Nat /\ ~(<<j, k>> \in Less)
    BY <1>3
  <2>2. ~(j < k)
    BY <1>2, <2>1
  <2> QED
    BY <2>1, <2>2
<1> QED
  BY <1>3, <1>4

LEMMA SameKept ==
    ASSUME NEW s, NEW q, Shaped(s), Same(s, q)
    PROVE  Kept(s, q) /\ (AllDue(s) => AllDue(q))
BY DEF Same, Kept, Shaped, Onward, AllKept, AllBusy, AllDue, RemovalBusy, RemovalDue, Updating

LEMMA KeptAfter ==
    ASSUME NEW s, NEW p, NEW q, Kept(s, p), Kept(p, q)
    PROVE  Kept(s, q)
BY DEF Kept, Onward

LEMMA KeptSelf ==
    ASSUME NEW s, Shaped(s)
    PROVE  Kept(s, s)
BY DEF Kept, Onward

LEMMA SameAfter ==
    ASSUME NEW s, NEW p, NEW q, Same(s, p), Same(p, q)
    PROVE  Same(s, q)
BY DEF Same

LEMMA SameShaped ==
    ASSUME NEW s, NEW q, Shaped(s), Same(s, q)
    PROVE  Shaped(q)
BY SameKept DEF Kept

\* Back-pressure and durations leave the queue alone.
LEMMA PauseSame ==
    ASSUME NEW s, Shaped(s), NEW kind
    PROVE  Same(s, PauseWorker(s, kind))
BY DEF Same, PauseWorker, Shaped, Fields

LEMMA ResumeSame ==
    ASSUME NEW s, Shaped(s)
    PROVE  Same(s, ResumeWorker(s))
BY DEF Same, ResumeWorker, Shaped, Fields

LEMMA BackpressureSame ==
    ASSUME NEW s, Shaped(s)
    PROVE  Same(s, UpdateFetchBackpressure(s))
<1>1. Same(s, s)
  BY DEF Same
<1> QED
  BY <1>1, PauseSame, ResumeSame DEF UpdateFetchBackpressure

LEMMA DurationSame ==
    ASSUME NEW s, Shaped(s)
    PROVE  Same(s, TryApplyDuration(s)) /\ Same(s, SetDuration(s))
<1>1. ASSUME NEW r, Shaped(r) PROVE Same(r, TryApplyDuration(r))
  BY <1>1 DEF Same, TryApplyDuration, Shaped, Fields
<1> DEFINE p == [s EXCEPT !.pendingDuration = TRUE]
<1>2. Same(s, p)
  BY DEF Same, Shaped, Fields
<1>3. SetDuration(s) = TryApplyDuration(p)
  BY DEF SetDuration
<1> HIDE DEF p
<1>4. Same(p, TryApplyDuration(p))
  BY <1>1, <1>2, SameShaped
<1> QED
  BY <1>1, <1>2, <1>3, <1>4, SameAfter

LEMMA InfoSame ==
    ASSUME NEW s, Shaped(s), NEW vod
    PROVE  Same(s, HandleInfo(s, vod))
<1> DEFINE d == SetDuration(s)
           p == [d EXCEPT !.throttled = TRUE]
<1>1. Same(s, d)
  BY DurationSame
<1>2. HandleInfo(s, vod) = IF vod THEN UpdateFetchBackpressure(p) ELSE d
  BY DEF HandleInfo
<1>3. Shaped(d)
  BY <1>1, SameShaped
<1> HIDE DEF d
<1>4. Same(d, p)
  BY <1>3 DEF Same, Shaped, Fields
<1> HIDE DEF p
<1>5. Same(s, p)
  BY <1>1, <1>4, SameAfter
<1>6. Same(p, UpdateFetchBackpressure(p))
  BY <1>5, SameShaped, BackpressureSame
<1>7. Same(s, UpdateFetchBackpressure(p))
  BY <1>5, <1>6, SameAfter
<1> QED
  BY <1>1, <1>2, <1>7
-----------------------------------------------------------------------------
(* The queue.                                                              *)

LEMMA TakeHead ==
    ASSUME NEW E, NEW a \in Seq(E), NEW p \in Seq(E), p # << >>
    PROVE  /\ Head(p) \in E /\ Tail(p) \in Seq(E) /\ Append(a, Head(p)) \in Seq(E)
           /\ Append(a, Head(p)) \o Tail(p) = a \o p
<1> DEFINE h == Head(p)
           l == Tail(p)
<1>1. h \in E /\ l \in Seq(E)
  BY HeadTailProperties
<1>2. p = <<h>> \o l
  <2>1. <<h>> \in Seq(E) /\ Len(<<h>>) = 1 /\ <<h>>[1] = h
    BY <1>1
  <2>2. /\ <<h>> \o l \in Seq(E) /\ Len(<<h>> \o l) = 1 + Len(l)
        /\ \A i \in 1..(1 + Len(l)) : (<<h>> \o l)[i] = IF i <= 1 THEN h ELSE l[i - 1]
    BY <1>1, <2>1, ConcatProperties
  <2>3. Len(p) \in Nat /\ Len(l) = Len(p) - 1 /\ \A i \in 1..Len(l) : l[i] = p[i + 1]
    BY HeadTailProperties
  <2>4. h = p[1]
    OBVIOUS
  <2> HIDE DEF h, l
  <2> DEFINE c == <<h>> \o l
  <2>5. c \in Seq(E) /\ Len(c) = Len(p)
    BY <2>2, <2>3
  <2>6. \A i \in 1..Len(p) : p[i] = c[i]
    <3>1. ASSUME NEW i \in 1..Len(p) PROVE p[i] = c[i]
      <4>1. CASE i = 1
        BY <2>2, <2>3, <2>4, <4>1
      <4>2. CASE i # 1
        <5>1. i - 1 \in 1..Len(l) /\ i \in 1..(1 + Len(l)) /\ ~(i <= 1) /\ (i - 1) + 1 = i
          BY <2>3, <4>2
        <5>2. c[i] = l[i - 1] /\ l[i - 1] = p[(i - 1) + 1]
          BY <2>2, <2>3, <5>1
        <5> QED
          BY <5>1, <5>2
      <4> QED
        BY <4>1, <4>2
    <3> QED
      BY <3>1
  <2> HIDE DEF c
  <2>7. p = c
    BY ONLY <2>5, <2>6, p \in Seq(E), SeqEqual
  <2> QED
    BY <2>7 DEF c
<1> HIDE DEF h, l
<1>3. Append(a, h) = a \o <<h>> /\ Append(a, h) \in Seq(E)
  BY <1>1, AppendIsConcat, AppendProperties
<1>4. (a \o <<h>>) \o l = a \o (<<h>> \o l)
  <2> DEFINE w == <<h>>
  <2>1. w \in Seq(E)
    BY <1>1
  <2> HIDE DEF w
  <2>2. (a \o w) \o l = a \o (w \o l)
    BY ONLY <1>1, <2>1, a \in Seq(E), ConcatAssociative
  <2> QED
    BY <2>2 DEF w
<1> QED
  BY <1>1, <1>2, <1>3, <1>4 DEF h, l

\* What is given last waits last.
Given(a, p, e) == Append(a \o p, e) = a \o Append(p, e)

LEMMA GiveLast ==
    ASSUME NEW E, NEW a \in Seq(E), NEW p \in Seq(E), NEW e \in E
    PROVE  Given(a, p, e)
<1>1. <<e>> \in Seq(E) /\ a \o p \in Seq(E)
  BY ConcatProperties
<1>2. Append(p, e) = p \o <<e>> /\ Append(a \o p, e) = (a \o p) \o <<e>>
  BY <1>1, AppendIsConcat
<1>3. (a \o p) \o <<e>> = a \o (p \o <<e>>)
  <2> DEFINE w == <<e>>
  <2>1. w \in Seq(E)
    BY <1>1
  <2> HIDE DEF w
  <2>2. (a \o p) \o w = a \o (p \o w)
    BY ONLY <2>1, a \in Seq(E), p \in Seq(E), ConcatAssociative
  <2> QED
    BY <2>2 DEF w
<1> QED
  BY <1>2, <1>3 DEF Given

\* Segments have a track of their own.
LEMMA EntryTrack ==
    ASSUME NEW e \in Entries
    PROVE  e.track \in Track
<1>1. PICK s \in Scripts : e \in SeqExt!ToSet(s)
  BY DEF Entries
<1>2. PICK i \in DOMAIN s : e = s[i]
  BY <1>1 DEF SeqExt!ToSet
<1>3. MessageOK(e) /\ e.type \in {"init", "media"}
  BY <1>2 DEF Entries
<1> QED
  BY <1>3 DEF MessageOK

\* The states of a SourceBuffer are told apart.
LEMMA BufferStates ==
    /\ Idle # NoBuffer /\ Idle.op \notin {"append", "remove"} /\ NoBuffer.op \notin {"append", "remove"}
    /\ \A e : [op |-> "append", entry |-> e].op = "append"
    /\ \A r : [op |-> "remove", range |-> r].op = "remove"
<1>1. Idle.op = "idle" /\ NoBuffer.op = "none"
  BY DEF Idle, NoBuffer
<1>2. Idle # NoBuffer
  BY <1>1
<1> QED
  BY <1>1, <1>2

\* doRemoveRanges for a track: what waits has a busy buffer afterwards.
LEMMA RemoveNextKeeps ==
    ASSUME NEW s, Shaped(s), NEW t \in Track
    PROVE  /\ Shaped(RemoveNext(s, t)) /\ Onward(s, RemoveNext(s, t))
           /\ AllKept(s) => AllKept(RemoveNext(s, t))
           /\ RemovalDue(s, t) => RemovalBusy(RemoveNext(s, t), t)
           /\ \A u \in Track : u # t => /\ RemovalDue(s, u) => RemovalDue(RemoveNext(s, t), u)
                                        /\ RemovalBusy(s, u) => RemovalBusy(RemoveNext(s, t), u)
<1> DEFINE q == RemoveNext(s, t)
<1>1. CASE s.sb[t] # Idle \/ s.pendingRemoveRanges[t] = << >>
  <2>1. q = s
    BY <1>1 DEF RemoveNext
  <2> QED
    BY <1>1, <2>1 DEF Onward, RemovalDue, RemovalBusy
<1>2. CASE ~(s.sb[t] # Idle \/ s.pendingRemoveRanges[t] = << >>)
  <2> DEFINE b == [op |-> "remove", range |-> Head(s.pendingRemoveRanges[t])]
             k == Tail(s.pendingRemoveRanges[t])
  <2>1. q = [s EXCEPT !.sb = [s.sb EXCEPT ![t] = b],
                      !.pendingRemoveRanges = [s.pendingRemoveRanges EXCEPT ![t] = k]]
    BY <1>2 DEF RemoveNext
  <2>2. b.op = "remove"
    OBVIOUS
  <2> HIDE DEF b, k, q
  <2>3. /\ DOMAIN q = DOMAIN s /\ q.sb = [s.sb EXCEPT ![t] = b]
        /\ q.pendingRemoveRanges = [s.pendingRemoveRanges EXCEPT ![t] = k]
        /\ q.readyState = s.readyState /\ q.opened = s.opened
        /\ q.pendingSegments = s.pendingSegments
        /\ q.pendingSourceBufferInit = s.pendingSourceBufferInit
        /\ q.disabledTracks = s.disabledTracks /\ q.pendingInits = s.pendingInits
        /\ q.given = s.given /\ q.appended = s.appended
    BY <2>1 DEF Shaped, Fields
  <2>4. /\ q.sb[t] = b /\ DOMAIN q.sb = Track /\ DOMAIN q.pendingRemoveRanges = Track
        /\ \A u \in Track : u # t => /\ q.sb[u] = s.sb[u]
                                     /\ q.pendingRemoveRanges[u] = s.pendingRemoveRanges[u]
    BY <2>3 DEF Shaped
  <2>5. Updating(q, t)
    BY <2>2, <2>4 DEF Updating
  <2>6. ASSUME NEW u \in Track, u # t
        PROVE  /\ Updating(q, u) <=> Updating(s, u)
               /\ RemovalDue(s, u) => RemovalDue(q, u)
               /\ RemovalBusy(s, u) => RemovalBusy(q, u)
    BY <2>4, <2>6 DEF Updating, RemovalDue, RemovalBusy
  <2>7. Shaped(q)
    BY <2>3, <2>4, <2>5, <2>6 DEF Shaped
  <2> QED
    BY <2>3, <2>5, <2>6, <2>7 DEF Onward, AllKept, RemovalBusy, q
<1> QED
  BY <1>1, <1>2

LEMMA DoRemoveRangesKeeps ==
    ASSUME NEW s, Shaped(s)
    PROVE  /\ Kept(s, DoRemoveRanges(s))
           /\ AllDue(s) => AllBusy(DoRemoveRanges(s))
<1> DEFINE v == RemoveNext(s, "video")
           q == RemoveNext(v, "audio")
<1>0. DoRemoveRanges(s) = q
  BY DEF DoRemoveRanges, ForTracks
<1>1. "video" \in Track /\ "audio" \in Track /\ "video" # "audio" /\ \A t \in Track : t = "video" \/ t = "audio"
  BY DEF Track
<1>2. /\ Shaped(v) /\ Onward(s, v) /\ (AllKept(s) => AllKept(v))
      /\ RemovalDue(s, "video") => RemovalBusy(v, "video")
      /\ RemovalDue(s, "audio") => RemovalDue(v, "audio")
  BY <1>1, RemoveNextKeeps
<1> HIDE DEF v
<1>3. /\ Shaped(q) /\ Onward(v, q) /\ (AllKept(v) => AllKept(q))
      /\ RemovalDue(v, "audio") => RemovalBusy(q, "audio")
      /\ RemovalBusy(v, "video") => RemovalBusy(q, "video")
  BY <1>1, <1>2, RemoveNextKeeps
<1> HIDE DEF q
<1>4. AllDue(s) => AllBusy(q)
  BY <1>1, <1>2, <1>3 DEF AllDue, AllBusy
<1>5. AllBusy(s) => AllDue(s)
  BY DEF AllBusy, AllDue, RemovalBusy, RemovalDue
<1>6. Onward(s, q)
  BY <1>2, <1>3 DEF Onward
<1> QED
  BY <1>0, <1>2, <1>3, <1>4, <1>5, <1>6 DEF Kept

\* A segment that is appended leaves the head of its queue.
LEMMA AppendHeadKeeps ==
    ASSUME NEW s, Shaped(s), NEW t \in Track, s.pendingSegments[t] # << >>
    PROVE  Kept(s, AppendHead(s, t))
<1> DEFINE entry == Head(s.pendingSegments[t])
           held == s.buffered[t] \ (IF entry.type = "media" /\ Full(s, t) THEN Oldest(s.buffered[t]) ELSE {})
           b == [op |-> "append", entry |-> entry]
           done == [s EXCEPT !.pendingSegments[t] = Tail(@),
                             !.sb[t] = [op |-> "append", entry |-> entry],
                             !.buffered[t] = @ \ (IF entry.type = "media" /\ Full(s, t)
                                                  THEN Oldest(@) ELSE {}),
                             !.appended[t] = Append(@, entry)]
           again == [done EXCEPT !.isBufferFull = FALSE]
           broken == [s EXCEPT !.failed = TRUE]
           stuck == [(IF s.isBufferFull THEN s ELSE PauseWorker(s, "buffer-full"))
                        EXCEPT !.isBufferFull = TRUE]
           q == AppendHead(s, t)
<1>1. q = broken \/ q = stuck \/ q = UpdateFetchBackpressure(again) \/ q = done
  BY DEF AppendHead
<1>2. Same(s, broken)
  BY DEF Same, Shaped, Fields
<1>3. Same(s, stuck)
  <2> DEFINE p == IF s.isBufferFull THEN s ELSE PauseWorker(s, "buffer-full")
  <2>1. Same(s, p)
    <3>1. Same(s, s)
      BY DEF Same
    <3> QED
      BY <3>1, PauseSame
  <2>2. stuck = [p EXCEPT !.isBufferFull = TRUE]
    OBVIOUS
  <2> HIDE DEF p, stuck
  <2>3. Shaped(p)
    BY <2>1, SameShaped
  <2>4. Same(p, stuck)
    BY <2>2, <2>3 DEF Same, Shaped, Fields
  <2> QED
    BY <2>1, <2>4, SameAfter
<1>4. Kept(s, done)
  <2> DEFINE k == Tail(s.pendingSegments[t])
             a == Append(s.appended[t], entry)
  <2>1. s.pendingSegments[t] \in Seq(Entries) /\ s.appended[t] \in Seq(Entries)
    BY DEF Shaped
  <2>2. k \in Seq(Entries) /\ a \in Seq(Entries) /\ a \o k = s.appended[t] \o s.pendingSegments[t]
    BY <2>1, TakeHead
  <2>3. done = [s EXCEPT !.pendingSegments = [s.pendingSegments EXCEPT ![t] = k],
                         !.sb = [s.sb EXCEPT ![t] = b],
                         !.buffered = [s.buffered EXCEPT ![t] = held],
                         !.appended = [s.appended EXCEPT ![t] = a]]
    OBVIOUS
  <2>4. b.op = "append"
    OBVIOUS
  <2> HIDE DEF k, a, b, held, done, entry
  <2>5. /\ DOMAIN done = DOMAIN s /\ done.sb = [s.sb EXCEPT ![t] = b]
        /\ done.pendingSegments = [s.pendingSegments EXCEPT ![t] = k]
        /\ done.appended = [s.appended EXCEPT ![t] = a]
        /\ done.pendingRemoveRanges = s.pendingRemoveRanges
        /\ done.readyState = s.readyState /\ done.opened = s.opened
        /\ done.pendingSourceBufferInit = s.pendingSourceBufferInit
        /\ done.disabledTracks = s.disabledTracks /\ done.pendingInits = s.pendingInits
        /\ done.given = s.given
    BY <2>3 DEF Shaped, Fields
  <2>6. /\ done.sb[t] = b /\ DOMAIN done.sb = Track
        /\ \A u \in Track : u # t => done.sb[u] = s.sb[u]
    BY <2>5 DEF Shaped
  <2>7. \A u \in Track : Updating(done, u) <=> (u = t \/ Updating(s, u))
    BY <2>4, <2>6 DEF Updating
  <2>8. Shaped(done)
    <3>1. done.pendingSegments \in [Track -> Seq(Entries)] /\ done.appended \in [Track -> Seq(Entries)]
      BY <2>2, <2>5 DEF Shaped
    <3>2. \A u \in Track : done.sb[u] = NoBuffer \/ done.sb[u] = Idle \/ Updating(done, u)
      BY <2>6, <2>7 DEF Shaped
    <3>3. Fields \subseteq DOMAIN done /\ DOMAIN done.sb = Track /\ DOMAIN done.pendingRemoveRanges = Track
      BY <2>5, <2>6 DEF Shaped
    <3>4. /\ done.given \in [Track -> Seq(Entries)]
          /\ done.pendingSourceBufferInit \in Seq(Inits) /\ done.pendingInits \in Seq(Inits)
      BY <2>5 DEF Shaped
    <3> QED
      BY ONLY <3>1, <3>2, <3>3, <3>4 DEF Shaped
  <2>9. AllKept(s) => AllKept(done)
    <3>1. ASSUME NEW u \in Track, s.given[u] = s.appended[u] \o s.pendingSegments[u]
          PROVE  done.given[u] = done.appended[u] \o done.pendingSegments[u]
      <4>1. CASE u = t
        BY <2>2, <2>5, <3>1, <4>1 DEF Shaped
      <4>2. CASE u # t
        BY <2>5, <3>1, <4>2 DEF Shaped
      <4> QED
        BY <4>1, <4>2
    <3> QED
      BY <2>5, <3>1 DEF AllKept
  <2>10. AllBusy(s) => AllBusy(done)
    BY <2>5, <2>7 DEF AllBusy, RemovalBusy
  <2> QED
    BY <2>5, <2>8, <2>9, <2>10 DEF Kept, Onward
<1> HIDE DEF done
<1>5. Kept(s, UpdateFetchBackpressure(again))
  <2>1. Shaped(done)
    BY <1>4 DEF Kept
  <2>2. Same(done, again)
    BY <2>1 DEF Same, Shaped, Fields
  <2> HIDE DEF again
  <2>3. Same(done, UpdateFetchBackpressure(again))
    BY <2>1, <2>2, SameShaped, BackpressureSame, SameAfter
  <2> QED
    BY <1>4, <2>1, <2>3, SameKept, KeptAfter
<1> HIDE DEF broken, stuck, again, q
<1>6. Kept(s, broken) /\ Kept(s, stuck)
  BY <1>2, <1>3, SameKept
<1> QED
  BY <1>1, <1>4, <1>5, <1>6 DEF q
LEMMA DoAppendSegmentsKeeps ==
    ASSUME NEW s, Shaped(s)
    PROVE  Kept(s, DoAppendSegments(s))
<1>1. ASSUME NEW r, Shaped(r), NEW t \in Track PROVE Kept(r, AppendNext(r, t))
  BY <1>1, AppendHeadKeeps, KeptSelf DEF AppendNext
<1> DEFINE v == AppendNext(s, "video")
           q == AppendNext(v, "audio")
<1>2. DoAppendSegments(s) = q
  BY DEF DoAppendSegments, ForTracks
<1>3. Kept(s, v)
  BY <1>1 DEF Track
<1>4. Shaped(v)
  BY <1>3 DEF Kept
<1> HIDE DEF v
<1>5. Kept(v, q)
  BY <1>1, <1>4 DEF Track
<1> QED
  BY <1>2, <1>3, <1>5, KeptAfter

LEMMA TryAppendPendingKeeps ==
    ASSUME NEW s, Shaped(s)
    PROVE  Kept(s, TryAppendPending(s))
BY DoAppendSegmentsKeeps, DoRemoveRangesKeeps, KeptSelf DEF TryAppendPending

\* A segment is handed over.
LEMMA GiveKeeps ==
    ASSUME NEW s, Shaped(s), NEW t \in Track, NEW e \in Entries
    PROVE  Kept(s, Give(s, t, e))
<1> DEFINE q == Give(s, t, e)
           k == Append(s.pendingSegments[t], e)
           g == Append(s.given[t], e)
<1>1. s.pendingSegments[t] \in Seq(Entries) /\ s.appended[t] \in Seq(Entries) /\ s.given[t] \in Seq(Entries)
  BY DEF Shaped
<1>2. /\ k \in Seq(Entries)
      /\ Append(s.appended[t] \o s.pendingSegments[t], e) = s.appended[t] \o k
  <2> DEFINE x == s.appended[t]
             y == s.pendingSegments[t]
  <2>1. x \in Seq(Entries) /\ y \in Seq(Entries)
    BY <1>1
  <2> HIDE DEF x, y
  <2>2. Append(y, e) \in Seq(Entries)
    BY <2>1, AppendProperties
  <2>3. Given(x, y, e)
    BY <2>1, GiveLast
  <2> QED
    BY <2>2, <2>3 DEF x, y, Given
<1>3. g \in Seq(Entries)
  BY <1>1, AppendProperties
<1>4. q = [s EXCEPT !.pendingSegments = [s.pendingSegments EXCEPT ![t] = k],
                    !.given = [s.given EXCEPT ![t] = g]]
  BY DEF Give
<1>5. s.given[t] = s.appended[t] \o s.pendingSegments[t] => g = s.appended[t] \o k
  BY <1>2
<1> HIDE DEF q, k, g
<1>6. /\ DOMAIN q = DOMAIN s /\ q.sb = s.sb
      /\ q.pendingSegments = [s.pendingSegments EXCEPT ![t] = k]
      /\ q.given = [s.given EXCEPT ![t] = g]
      /\ q.pendingRemoveRanges = s.pendingRemoveRanges
      /\ q.readyState = s.readyState /\ q.opened = s.opened
      /\ q.pendingSourceBufferInit = s.pendingSourceBufferInit
      /\ q.disabledTracks = s.disabledTracks /\ q.pendingInits = s.pendingInits
      /\ q.appended = s.appended
  BY <1>4 DEF Shaped, Fields
<1>7. \A u \in Track : Updating(q, u) <=> Updating(s, u)
  BY <1>6 DEF Updating
<1>8. Shaped(q)
  <2>1. q.pendingSegments \in [Track -> Seq(Entries)] /\ q.given \in [Track -> Seq(Entries)]
    BY <1>2, <1>3, <1>6 DEF Shaped
  <2>2. \A u \in Track : q.sb[u] = NoBuffer \/ q.sb[u] = Idle \/ Updating(q, u)
    <3>1. \A u \in Track : s.sb[u] = NoBuffer \/ s.sb[u] = Idle \/ Updating(s, u)
      BY DEF Shaped
    <3> QED
      BY ONLY <1>6, <1>7, <3>1
  <2>3. Fields \subseteq DOMAIN q /\ DOMAIN q.sb = Track /\ DOMAIN q.pendingRemoveRanges = Track
    BY <1>6 DEF Shaped
  <2> QED
    BY <1>6, <2>1, <2>2, <2>3 DEF Shaped
<1>9. AllKept(s) => AllKept(q)
  <2>1. ASSUME NEW u \in Track, s.given[u] = s.appended[u] \o s.pendingSegments[u]
        PROVE  q.given[u] = q.appended[u] \o q.pendingSegments[u]
    <3>1. CASE u = t
      BY <1>5, <1>6, <2>1, <3>1 DEF Shaped
    <3>2. CASE u # t
      BY <1>6, <2>1, <3>2 DEF Shaped
    <3> QED
      BY <3>1, <3>2
  <2> QED
    BY <1>6, <2>1 DEF AllKept
<1>10. AllBusy(s) => AllBusy(q)
  BY <1>6, <1>7 DEF AllBusy, RemovalBusy
<1> QED
  BY <1>6, <1>8, <1>9, <1>10 DEF Kept, Onward, q

-----------------------------------------------------------------------------
(* Disabling a track.                                                      *)

\* f lists what is left of the first n inits, for each n.
OthersUpto(inits, t, n, f) ==
    f = [i \in 0..n |->
            IF i = 0 THEN << >>
            ELSE IF inits[i].track = t THEN f[i - 1] ELSE Append(f[i - 1], inits[i])]

LEMMA OthersExist ==
    ASSUME NEW inits, NEW t, NEW n \in Nat
    PROVE  \E f : OthersUpto(inits, t, n, f)
<1> DEFINE bad == {k \in Nat : ~\E f : OthersUpto(inits, t, k, f)}
<1> SUFFICES ASSUME bad # {} PROVE FALSE
  OBVIOUS
<1>1. PICK k \in bad : \A j \in bad : k <= j
  <2>1. bad \subseteq Nat
    OBVIOUS
  <2> HIDE DEF bad
  <2> QED
    BY <2>1, LeastNat
<1>2. k \in Nat /\ ~\E f : OthersUpto(inits, t, k, f)
  BY <1>1
<1>3. CASE k = 0
  <2> DEFINE f == [i \in 0..0 |-> << >>]
  <2>1. OthersUpto(inits, t, 0, f)
    BY DEF OthersUpto
  <2> QED
    BY <1>2, <1>3, <2>1
<1>4. CASE k # 0
  <2>1. k - 1 \in Nat /\ ~(k <= k - 1)
    BY <1>2, <1>4
  <2>2. \E f : OthersUpto(inits, t, k - 1, f)
    BY <1>1, <2>1
  <2>3. PICK f : OthersUpto(inits, t, k - 1, f)
    BY <2>2
  <2> DEFINE Step(x, i) == IF inits[i].track = t THEN x ELSE Append(x, inits[i])
             g == [i \in 0..k |-> IF i = k THEN Step(f[k - 1], k) ELSE f[i]]
             e == << >>
  <2>4. f = [i \in 0..(k - 1) |-> IF i = 0 THEN e ELSE Step(f[i - 1], i)]
    BY <2>3 DEF OthersUpto
  <2> HIDE DEF Step, e
  <2>5. g = [i \in 0..k |-> IF i = 0 THEN e ELSE Step(g[i - 1], i)]
    <3>1. ASSUME NEW i \in 0..k PROVE g[i] = IF i = 0 THEN e ELSE Step(g[i - 1], i)
      <4>1. CASE i = k
        BY <1>2, <1>4, <2>1, <4>1
      <4>2. CASE i # k
        <5>1. i \in 0..(k - 1) /\ g[i] = f[i]
          BY <1>2, <4>2
        <5>2. f[i] = IF i = 0 THEN e ELSE Step(f[i - 1], i)
          BY <2>4, <5>1
        <5>3. i # 0 => g[i - 1] = f[i - 1]
          BY <1>2, <5>1
        <5> QED
          BY <5>1, <5>2, <5>3
      <4> QED
        BY <4>1, <4>2
    <3> HIDE DEF g
    <3>2. g = [i \in 0..k |-> g[i]]
      BY DEF g
    <3> QED
      BY <3>1, <3>2
  <2>6. OthersUpto(inits, t, k, g)
    <3> HIDE DEF g
    <3> QED
      BY <2>5 DEF OthersUpto, Step, e
  <2> QED
    BY <1>2, <2>6
<1> QED
  BY <1>3, <1>4
LEMMA OthersListed ==
    ASSUME NEW inits \in Seq(Inits), NEW t
    PROVE  OfOthers(inits, t) \in Seq(Inits)
<1> DEFINE n == Len(inits)
           f == CHOOSE x : OthersUpto(inits, t, n, x)
<1>1. n \in Nat
  OBVIOUS
<1>2. OfOthers(inits, t) = f[n]
  BY DEF OfOthers, OthersUpto
<1>3. OthersUpto(inits, t, n, f)
  <2>1. \E x : OthersUpto(inits, t, n, x)
    BY <1>1, OthersExist
  <2> QED
    BY <2>1, Zenon
<1> HIDE DEF f
<1>4. ASSUME NEW i \in 0..n
      PROVE  f[i] = IF i = 0 THEN << >>
                    ELSE IF inits[i].track = t THEN f[i - 1] ELSE Append(f[i - 1], inits[i])
  BY <1>3 DEF OthersUpto
<1> DEFINE bad == {i \in 0..n : ~(f[i] \in Seq(Inits))}
<1>5. bad = {}
  <2> SUFFICES ASSUME bad # {} PROVE FALSE
    OBVIOUS
  <2>1. bad \subseteq Nat
    OBVIOUS
  <2>2. PICK k \in bad : \A j \in bad : k <= j
    <3> HIDE DEF bad
    <3> QED
      BY <2>1, LeastNat
  <2>3. k \in 0..n /\ ~(f[k] \in Seq(Inits)) /\ k \in Nat
    BY <1>1, <2>2
  <2>4. k # 0
    <3>1. 0 \in 0..n
      BY <1>1
    <3>2. f[0] = << >>
      BY <1>4, <3>1
    <3>3. f[0] \in Seq(Inits)
      BY <3>2
    <3> QED
      BY ONLY <2>3, <3>3
  <2>5. k - 1 \in 0..n /\ ~(k <= k - 1) /\ k \in 1..n
    BY <1>1, <2>3, <2>4
  <2>6. f[k - 1] \in Seq(Inits)
    BY <2>2, <2>5
  <2>7. inits[k] \in Inits
    BY <2>5
  <2>8. Append(f[k - 1], inits[k]) \in Seq(Inits)
    BY <2>6, <2>7, AppendProperties
  <2> QED
    BY <1>4, <2>3, <2>4, <2>6, <2>8
<1>6. n \in 0..n
  BY <1>1
<1> QED
  BY <1>2, <1>5, <1>6

LEMMA DisableTrackKeeps ==
    ASSUME NEW s, Shaped(s), NEW t \in Track
    PROVE  Kept(s, DisableTrack(s, t))
<1> DEFINE q == DisableTrack(s, t)
           others == OfOthers(s.pendingSourceBufferInit, t)
           e == << >>
<1>1. others \in Seq(Inits) /\ e \in Seq(Entries)
  BY OthersListed DEF Shaped
<1>2. q = [s EXCEPT !.disabledTracks = s.disabledTracks \cup {t},
                    !.pendingSegments = [s.pendingSegments EXCEPT ![t] = e],
                    !.pendingRemoveRanges = [s.pendingRemoveRanges EXCEPT ![t] = e],
                    !.pendingSourceBufferInit = others]
  BY DEF DisableTrack
<1> HIDE DEF q, others
<1>3. /\ DOMAIN q = DOMAIN s /\ q.sb = s.sb /\ q.given = s.given /\ q.appended = s.appended
      /\ q.pendingSegments = [s.pendingSegments EXCEPT ![t] = e]
      /\ q.pendingRemoveRanges = [s.pendingRemoveRanges EXCEPT ![t] = e]
      /\ q.pendingSourceBufferInit = others
      /\ q.disabledTracks = s.disabledTracks \cup {t}
      /\ q.readyState = s.readyState /\ q.opened = s.opened /\ q.pendingInits = s.pendingInits
  <2> HIDE DEF e
  <2> QED
    BY <1>2 DEF Shaped, Fields
<1>4. \A u \in Track : Updating(q, u) <=> Updating(s, u)
  BY <1>3 DEF Updating
<1>5. Shaped(q)
  <2> HIDE DEF e
  <2>1. /\ q.pendingSegments \in [Track -> Seq(Entries)]
        /\ q.pendingSourceBufferInit \in Seq(Inits)
    BY <1>1, <1>3 DEF Shaped
  <2>2. \A u \in Track : q.sb[u] = NoBuffer \/ q.sb[u] = Idle \/ Updating(q, u)
    <3>1. \A u \in Track : s.sb[u] = NoBuffer \/ s.sb[u] = Idle \/ Updating(s, u)
      BY DEF Shaped
    <3> QED
      BY ONLY <1>3, <1>4, <3>1
  <2>3. Fields \subseteq DOMAIN q /\ DOMAIN q.sb = Track /\ DOMAIN q.pendingRemoveRanges = Track
    BY <1>3 DEF Shaped
  <2> QED
    BY <1>3, <2>1, <2>2, <2>3 DEF Shaped
<1>6. AllKept(s) => AllKept(q)
  <2>1. ASSUME NEW u \in Track \ q.disabledTracks
        PROVE  u \in Track \ s.disabledTracks /\ u # t /\ q.pendingSegments[u] = s.pendingSegments[u]
    BY <1>3 DEF Shaped
  <2> QED
    BY <1>3, <2>1 DEF AllKept
<1>7. AllBusy(s) => AllBusy(q)
  <2>1. ASSUME NEW u \in Track
        PROVE  q.pendingRemoveRanges[u] = IF u = t THEN << >> ELSE s.pendingRemoveRanges[u]
    BY <1>3 DEF Shaped
  <2> QED
    BY <1>4, <2>1 DEF AllBusy, RemovalBusy
<1> QED
  BY <1>3, <1>5, <1>6, <1>7 DEF Kept, Onward, q

-----------------------------------------------------------------------------
(* Source buffers.                                                         *)

LEMMA CreateSourceBufferKeeps ==
    ASSUME NEW s, Shaped(s), NEW t \in Track, NEW codec
    PROVE  Kept(s, CreateSourceBuffer(s, t, codec))
<1> DEFINE q == CreateSourceBuffer(s, t, codec)
           failed == [s EXCEPT !.failed = TRUE]
           off == [DisableTrack(s, t) EXCEPT !.failed = TRUE]
           b == IF s.sb[t] = NoBuffer THEN Idle ELSE s.sb[t]
           made == [s EXCEPT !.mimeTypes = [s.mimeTypes EXCEPT ![t] = codec],
                             !.sb = [s.sb EXCEPT ![t] = b]]
<1>1. q = s \/ q = failed \/ q = off \/ (q = made /\ ~Updating(s, t))
  BY DEF CreateSourceBuffer
<1>2. Kept(s, failed)
  <2>1. Same(s, failed)
    BY DEF Same, Shaped, Fields
  <2> QED
    BY <2>1, SameKept
<1>3. Kept(s, off)
  <2> DEFINE d == DisableTrack(s, t)
  <2>1. Kept(s, d) /\ Shaped(d)
    BY DisableTrackKeeps DEF Kept
  <2> HIDE DEF d
  <2>2. Same(d, [d EXCEPT !.failed = TRUE])
    BY <2>1 DEF Same, Shaped, Fields
  <2>3. Kept(d, [d EXCEPT !.failed = TRUE])
    BY <2>1, <2>2, SameKept
  <2> QED
    BY <2>1, <2>3, KeptAfter DEF d
<1>4. ASSUME ~Updating(s, t) PROVE Kept(s, made)
  <2>1. b = Idle
    BY <1>4 DEF Shaped
  <2> HIDE DEF b, made
  <2>2. /\ DOMAIN made = DOMAIN s /\ made.sb = [s.sb EXCEPT ![t] = b]
        /\ made.given = s.given /\ made.appended = s.appended
        /\ made.pendingSegments = s.pendingSegments
        /\ made.pendingRemoveRanges = s.pendingRemoveRanges
        /\ made.pendingSourceBufferInit = s.pendingSourceBufferInit
        /\ made.disabledTracks = s.disabledTracks
        /\ made.readyState = s.readyState /\ made.opened = s.opened /\ made.pendingInits = s.pendingInits
    BY DEF Shaped, Fields, made
  <2>3. /\ DOMAIN made.sb = Track /\ made.sb[t] = Idle
        /\ \A u \in Track : u # t => made.sb[u] = s.sb[u]
    BY <2>1, <2>2 DEF Shaped
  <2>4. \A u \in Track : u # t => (Updating(made, u) <=> Updating(s, u))
    BY <2>3 DEF Updating
  <2>5. Shaped(made)
    BY <2>2, <2>3, <2>4 DEF Shaped
  <2>6. AllBusy(s) => AllBusy(made)
    BY <1>4, <2>2, <2>4 DEF AllBusy, RemovalBusy
  <2> QED
    BY <2>2, <2>5, <2>6 DEF Kept, Onward, AllKept
<1> HIDE DEF failed, off, made, q
<1> QED
  BY <1>1, <1>2, <1>3, <1>4, KeptSelf DEF q

\* f is the queue after each of the first n inits.
BuffersUpto(s, n, f) ==
    f = [i \in 0..n |->
            IF i = 0 THEN [s EXCEPT !.pendingSourceBufferInit = << >>]
            ELSE CreateSourceBuffer(f[i - 1], s.pendingSourceBufferInit[i].track,
                                    s.pendingSourceBufferInit[i].codec)]

LEMMA BuffersExist ==
    ASSUME NEW s, NEW n \in Nat
    PROVE  \E f : BuffersUpto(s, n, f)
<1> DEFINE bad == {k \in Nat : ~\E f : BuffersUpto(s, k, f)}
           e == [s EXCEPT !.pendingSourceBufferInit = << >>]
           Step(x, i) == CreateSourceBuffer(x, s.pendingSourceBufferInit[i].track,
                                            s.pendingSourceBufferInit[i].codec)
<1> SUFFICES ASSUME bad # {} PROVE FALSE
  OBVIOUS
<1>0. ASSUME NEW k, NEW f
      PROVE  BuffersUpto(s, k, f) <=> f = [i \in 0..k |-> IF i = 0 THEN e ELSE Step(f[i - 1], i)]
  BY DEF BuffersUpto
<1>1. PICK k \in bad : \A j \in bad : k <= j
  <2>1. bad \subseteq Nat
    OBVIOUS
  <2> HIDE DEF bad
  <2> QED
    BY <2>1, LeastNat
<1>2. k \in Nat /\ ~\E f : BuffersUpto(s, k, f)
  BY <1>1
<1> HIDE DEF e, Step
<1>3. CASE k = 0
  <2> DEFINE f == [i \in 0..0 |-> e]
  <2>1. f = [i \in 0..0 |-> IF i = 0 THEN e ELSE Step(f[i - 1], i)]
    OBVIOUS
  <2>2. BuffersUpto(s, 0, f)
    BY <1>0, <2>1
  <2> QED
    BY <1>2, <1>3, <2>2
<1>4. CASE k # 0
  <2>1. k - 1 \in Nat /\ ~(k <= k - 1)
    BY <1>2, <1>4
  <2>2. \E f : BuffersUpto(s, k - 1, f)
    BY <1>1, <2>1
  <2>3. PICK f : BuffersUpto(s, k - 1, f)
    BY <2>2
  <2> DEFINE g == [i \in 0..k |-> IF i = k THEN Step(f[k - 1], k) ELSE f[i]]
  <2>4. f = [i \in 0..(k - 1) |-> IF i = 0 THEN e ELSE Step(f[i - 1], i)]
    BY <1>0, <2>3
  <2>5. g = [i \in 0..k |-> IF i = 0 THEN e ELSE Step(g[i - 1], i)]
    <3>1. ASSUME NEW i \in 0..k PROVE g[i] = IF i = 0 THEN e ELSE Step(g[i - 1], i)
      <4>1. CASE i = k
        BY <1>2, <1>4, <2>1, <4>1
      <4>2. CASE i # k
        <5>1. i \in 0..(k - 1) /\ g[i] = f[i]
          BY <1>2, <4>2
        <5>2. f[i] = IF i = 0 THEN e ELSE Step(f[i - 1], i)
          BY <2>4, <5>1
        <5>3. i # 0 => g[i - 1] = f[i - 1]
          BY <1>2, <5>1
        <5> QED
          BY <5>1, <5>2, <5>3
      <4> QED
        BY <4>1, <4>2
    <3> HIDE DEF g
    <3>2. g = [i \in 0..k |-> g[i]]
      BY DEF g
    <3> QED
      BY <3>1, <3>2
  <2>6. BuffersUpto(s, k, g)
    <3> HIDE DEF g
    <3> QED
      BY <1>0, <2>5
  <2> QED
    BY <1>2, <2>6
<1> QED
  BY <1>3, <1>4

\* flushPendingSourceBufferInit
LEMMA FlushBuffersKeeps ==
    ASSUME NEW s, Shaped(s)
    PROVE  Kept(s, FlushPendingSourceBufferInit(s))
<1>1. CASE s.readyState # "open"
  BY <1>1, KeptSelf DEF FlushPendingSourceBufferInit
<1>2. CASE s.readyState = "open"
  <2> DEFINE n == Len(s.pendingSourceBufferInit)
             f == CHOOSE x : BuffersUpto(s, n, x)
             e == [s EXCEPT !.pendingSourceBufferInit = << >>]
  <2>1. n \in Nat
    BY DEF Shaped
  <2>2. FlushPendingSourceBufferInit(s) = f[n]
    BY <1>2 DEF FlushPendingSourceBufferInit, BuffersUpto
  <2>3. BuffersUpto(s, n, f)
    <3>1. \E x : BuffersUpto(s, n, x)
      BY <2>1, BuffersExist
    <3> QED
      BY <3>1, Zenon
  <2> HIDE DEF f
  <2>4. ASSUME NEW i \in 0..n
        PROVE  f[i] = IF i = 0 THEN e
                      ELSE CreateSourceBuffer(f[i - 1], s.pendingSourceBufferInit[i].track,
                                              s.pendingSourceBufferInit[i].codec)
    BY <2>3 DEF BuffersUpto
  <2>5. Kept(s, e)
    <3> DEFINE z == << >>
    <3>1. z \in Seq(Inits) /\ e = [s EXCEPT !.pendingSourceBufferInit = z]
      OBVIOUS
    <3> HIDE DEF z, e
    <3>2. /\ DOMAIN e = DOMAIN s /\ e.sb = s.sb /\ e.given = s.given /\ e.appended = s.appended
          /\ e.pendingSegments = s.pendingSegments /\ e.pendingRemoveRanges = s.pendingRemoveRanges
          /\ e.pendingSourceBufferInit = z /\ e.disabledTracks = s.disabledTracks
          /\ e.readyState = s.readyState /\ e.opened = s.opened /\ e.pendingInits = s.pendingInits
      BY <3>1 DEF Shaped, Fields
    <3>3. \A u \in Track : Updating(e, u) <=> Updating(s, u)
      BY <3>2 DEF Updating
    <3> QED
      BY <3>1, <3>2, <3>3 DEF Kept, Shaped, Onward, AllKept, AllBusy, RemovalBusy
  <2> HIDE DEF e
  <2> DEFINE bad == {i \in 0..n : ~Kept(s, f[i])}
  <2>6. bad = {}
    <3> SUFFICES ASSUME bad # {} PROVE FALSE
      OBVIOUS
    <3>1. bad \subseteq Nat
      OBVIOUS
    <3>2. PICK k \in bad : \A j \in bad : k <= j
      <4> HIDE DEF bad
      <4> QED
        BY <3>1, LeastNat
    <3>3. k \in 0..n /\ ~Kept(s, f[k]) /\ k \in Nat
      BY <2>1, <3>2
    <3>4. k # 0
      <4>1. 0 \in 0..n
        BY <2>1
      <4>2. f[0] = e
        BY <2>4, <4>1
      <4>3. Kept(s, f[0])
        BY <2>5, <4>2
      <4> QED
        BY ONLY <3>3, <4>3
    <3>5. k - 1 \in 0..n /\ ~(k <= k - 1) /\ k \in 1..n
      BY <2>1, <3>3, <3>4
    <3>6. Kept(s, f[k - 1])
      BY <3>2, <3>5
    <3> DEFINE p == f[k - 1]
               init == s.pendingSourceBufferInit[k]
    <3>7. init \in Inits
      BY <3>5 DEF Shaped
    <3>8. init.track \in Track
      <4> HIDE DEF init
      <4> QED
        BY <3>7, EntryTrack DEF Inits
    <3>9. f[k] = CreateSourceBuffer(p, init.track, init.codec)
      BY <2>4, <3>3, <3>4
    <3>10. Kept(s, p) /\ Shaped(p)
      BY <3>6 DEF Kept
    <3> HIDE DEF p, init
    <3>11. Kept(p, f[k])
      BY <3>8, <3>9, <3>10, CreateSourceBufferKeeps
    <3> QED
      BY <3>3, <3>10, <3>11, KeptAfter
  <2>7. n \in 0..n
    BY <2>1
  <2> QED
    BY <2>2, <2>6, <2>7
<1> QED
  BY <1>1, <1>2
-----------------------------------------------------------------------------
(* The calls the controller makes.                                         *)

LEMMA AppendInitKeeps ==
    ASSUME NEW s, Shaped(s), NEW init \in Inits
    PROVE  Kept(s, AppendInit(s, init))
<1> DEFINE t == init.track
           c == CreateSourceBuffer(s, t, init.codec)
           w == Append(s.pendingSourceBufferInit, init)
           p == [s EXCEPT !.pendingSourceBufferInit = w]
           q == AppendInit(s, init)
<1>1. init \in Entries /\ t \in Track
  BY EntryTrack DEF Inits
<1>2. q = s \/ q = Give(p, t, init) \/ q = c \/ q = TryAppendPending(Give(c, t, init))
  BY DEF AppendInit
<1>3. Kept(s, c) /\ Shaped(c)
  BY <1>1, CreateSourceBufferKeeps DEF Kept
<1>4. w \in Seq(Inits)
  BY AppendProperties DEF Shaped
<1> HIDE DEF c, q, t, w
<1>5. Kept(s, TryAppendPending(Give(c, t, init)))
  <2>1. Kept(c, Give(c, t, init)) /\ Shaped(Give(c, t, init))
    BY <1>1, <1>3, GiveKeeps DEF Kept
  <2> QED
    BY <1>3, <2>1, TryAppendPendingKeeps, KeptAfter
<1>6. Kept(s, p)
  <2> HIDE DEF p
  <2>1. /\ DOMAIN p = DOMAIN s /\ p.sb = s.sb /\ p.given = s.given /\ p.appended = s.appended
        /\ p.pendingSegments = s.pendingSegments /\ p.pendingRemoveRanges = s.pendingRemoveRanges
        /\ p.pendingSourceBufferInit = w /\ p.disabledTracks = s.disabledTracks
        /\ p.readyState = s.readyState /\ p.opened = s.opened /\ p.pendingInits = s.pendingInits
    BY DEF p, Shaped, Fields
  <2>2. \A u \in Track : Updating(p, u) <=> Updating(s, u)
    BY <2>1 DEF Updating
  <2> QED
    BY <1>4, <2>1, <2>2 DEF Kept, Shaped, Onward, AllKept, AllBusy, RemovalBusy
<1> HIDE DEF p
<1>7. Kept(s, Give(p, t, init))
  <2>1. Shaped(p)
    BY <1>6 DEF Kept
  <2> QED
    BY <1>1, <1>6, <2>1, GiveKeeps, KeptAfter
<1> QED
  BY <1>2, <1>3, <1>5, <1>7, KeptSelf DEF q

\* doCleanupSourceBuffer: a free buffer starts on its removals at once.
LEMMA CleanTrackKeeps ==
    ASSUME NEW s, Shaped(s), NEW t \in Track
    PROVE  Kept(s, CleanTrack(s, t))
<1> DEFINE k == s.pendingRemoveRanges[t] \o Stale(s, t)
           p == [s EXCEPT !.pendingRemoveRanges = [s.pendingRemoveRanges EXCEPT ![t] = k]]
           q == CleanTrack(s, t)
<1>1. \/ q = s
      \/ q = p /\ Updating(s, t)
      \/ q = DoRemoveRanges(p) /\ ~Updating(s, t) /\ s.sb[t] # NoBuffer
  BY DEF CleanTrack
<1> HIDE DEF k, p, q
<1>2. /\ DOMAIN p = DOMAIN s /\ p.sb = s.sb /\ p.given = s.given /\ p.appended = s.appended
      /\ p.pendingSegments = s.pendingSegments
      /\ p.pendingRemoveRanges = [s.pendingRemoveRanges EXCEPT ![t] = k]
      /\ p.pendingSourceBufferInit = s.pendingSourceBufferInit
      /\ p.disabledTracks = s.disabledTracks
      /\ p.readyState = s.readyState /\ p.opened = s.opened /\ p.pendingInits = s.pendingInits
  BY DEF p, Shaped, Fields
<1>3. \A u \in Track : /\ Updating(p, u) <=> Updating(s, u)
                       /\ u # t => p.pendingRemoveRanges[u] = s.pendingRemoveRanges[u]
  BY <1>2 DEF Updating, Shaped
<1>4. Shaped(p) /\ Onward(s, p) /\ (AllKept(s) => AllKept(p))
  <2>1. DOMAIN p.pendingRemoveRanges = Track
    BY <1>2 DEF Shaped
  <2> QED
    BY <1>2, <1>3, <2>1 DEF Shaped, Onward, AllKept
<1>5. CASE q = s
  BY <1>5, KeptSelf DEF q
<1>6. CASE q = p /\ Updating(s, t)
  <2>1. AllBusy(s) => AllBusy(p)
    BY <1>3, <1>6 DEF AllBusy, RemovalBusy
  <2> QED
    BY <1>4, <1>6, <2>1 DEF Kept, q
<1>7. CASE q = DoRemoveRanges(p) /\ ~Updating(s, t) /\ s.sb[t] # NoBuffer
  <2>1. p.sb[t] = Idle
    BY <1>2, <1>7 DEF Shaped
  <2>2. AllBusy(s) => AllDue(p)
    BY <1>3, <2>1 DEF AllBusy, AllDue, RemovalBusy, RemovalDue
  <2>3. Kept(p, DoRemoveRanges(p)) /\ (AllDue(p) => AllBusy(DoRemoveRanges(p)))
    BY <1>4, DoRemoveRangesKeeps
  <2> QED
    BY <1>4, <1>7, <2>2, <2>3 DEF Kept, Onward, q
<1> QED
  BY <1>1, <1>5, <1>6, <1>7

LEMMA DoCleanupKeeps ==
    ASSUME NEW s, Shaped(s)
    PROVE  Kept(s, DoCleanup(s))
<1> DEFINE v == CleanTrack(s, "video")
           q == CleanTrack(v, "audio")
<1>1. DoCleanup(s) = q
  BY DEF DoCleanup, ForTracks
<1>2. Kept(s, v) /\ Shaped(v)
  BY CleanTrackKeeps DEF Track, Kept
<1> HIDE DEF v
<1>3. Kept(v, q)
  BY <1>2, CleanTrackKeeps DEF Track
<1> QED
  BY <1>1, <1>2, <1>3, KeptAfter

LEMMA AppendMediaKeeps ==
    ASSUME NEW s, Shaped(s), NEW entry \in Entries
    PROVE  Kept(s, AppendMedia(s, entry))
<1> DEFINE g == Give(s, entry.track, entry)
           c == IF NeedCleanup(g) THEN DoCleanup(g) ELSE g
           q == AppendMedia(s, entry)
<1>1. q = s \/ q = g \/ q = TryAppendPending(c)
  BY DEF AppendMedia
<1>2. Kept(s, g) /\ Shaped(g)
  BY EntryTrack, GiveKeeps DEF Kept
<1> HIDE DEF g
<1>3. Kept(g, c) /\ Shaped(c)
  BY <1>2, DoCleanupKeeps, KeptSelf DEF Kept
<1> HIDE DEF c, q
<1>4. Kept(c, TryAppendPending(c))
  BY <1>3, TryAppendPendingKeeps
<1> QED
  BY <1>1, <1>2, <1>3, <1>4, KeptSelf, KeptAfter DEF q

LEMMA EndOfStreamKeeps ==
    ASSUME NEW s, Shaped(s)
    PROVE  Kept(s, EndOfStream(s))
<1> DEFINE q == EndOfStream(s)
           e == [s EXCEPT !.hasPendingEos = FALSE, !.readyState = "ended"]
<1>1. CASE s.readyState # "open" \/ \E t \in Track : Updating(s, t)
  <2>1. Same(s, q)
    BY <1>1 DEF EndOfStream, Same, Shaped, Fields
  <2> QED
    BY <2>1, SameKept
<1>2. CASE ~(s.readyState # "open" \/ \E t \in Track : Updating(s, t))
  <2>1. q = e
    BY <1>2 DEF EndOfStream
  <2> HIDE DEF q
  <2>2. /\ DOMAIN e = DOMAIN s /\ e.sb = s.sb /\ e.given = s.given /\ e.appended = s.appended
        /\ e.pendingSegments = s.pendingSegments /\ e.pendingRemoveRanges = s.pendingRemoveRanges
        /\ e.pendingSourceBufferInit = s.pendingSourceBufferInit
        /\ e.disabledTracks = s.disabledTracks
        /\ e.readyState = "ended" /\ e.opened = s.opened /\ e.pendingInits = s.pendingInits
    BY DEF Shaped, Fields
  <2> HIDE DEF e
  <2>3. \A u \in Track : Updating(e, u) <=> Updating(s, u)
    BY <2>2 DEF Updating
  <2>4. Kept(s, e)
    BY <1>2, <2>2, <2>3 DEF Kept, Shaped, Onward, AllKept, AllBusy, RemovalBusy
  <2> QED
    BY <2>1, <2>4 DEF q
<1> QED
  BY <1>1, <1>2

\* onSourceBufferUpdateEnd: the removals that wait come first, so a buffer that
\* has become free is busy again.
LEMMA OnUpdateEndKeeps ==
    ASSUME NEW s0, Shaped(s0)
    PROVE  /\ Shaped(OnUpdateEnd(s0)) /\ Onward(s0, OnUpdateEnd(s0))
           /\ AllKept(s0) => AllKept(OnUpdateEnd(s0))
           /\ AllDue(s0) => AllBusy(OnUpdateEnd(s0))
<1> DEFINE u == UpdateFetchBackpressure(s0)
           s == TryApplyDuration(u)
           e == [s EXCEPT !.isBufferFull = FALSE]
           q == OnUpdateEnd(s0)
<1>1. Same(s0, s)
  <2>1. Same(s0, u) /\ Shaped(u)
    BY BackpressureSame, SameShaped
  <2> HIDE DEF u
  <2>2. Same(u, s)
    BY <2>1, DurationSame
  <2> HIDE DEF s
  <2> QED
    BY <2>1, <2>2, SameAfter
<1>2. q = IF HasPendingRemoveRanges(s) THEN DoRemoveRanges(s)
          ELSE IF HasPendingSegments(s) THEN TryAppendPending(s)
          ELSE IF s.hasPendingEos THEN EndOfStream(s)
          ELSE IF s.isBufferFull THEN UpdateFetchBackpressure(e)
          ELSE s
  BY DEF OnUpdateEnd
<1> HIDE DEF s, q
<1>3. Kept(s0, s) /\ Shaped(s) /\ (AllDue(s0) => AllDue(s))
  BY <1>1, SameKept, SameShaped
<1>4. CASE HasPendingRemoveRanges(s)
  <2>1. q = DoRemoveRanges(s)
    BY <1>2, <1>4
  <2>2. Kept(s, q) /\ (AllDue(s) => AllBusy(q))
    BY <1>3, <2>1, DoRemoveRangesKeeps
  <2> QED
    BY <1>3, <2>2, KeptAfter DEF Kept, q
<1>5. CASE ~HasPendingRemoveRanges(s)
  <2>1. AllBusy(s)
    BY <1>5 DEF HasPendingRemoveRanges, AllBusy, RemovalBusy
  <2>2. Kept(s, UpdateFetchBackpressure(e))
    <3>1. Same(s, e)
      BY <1>3 DEF Same, Shaped, Fields
    <3> HIDE DEF e
    <3>2. Same(s, UpdateFetchBackpressure(e))
      BY <1>3, <3>1, SameShaped, BackpressureSame, SameAfter
    <3> QED
      BY <1>3, <3>2, SameKept
  <2> HIDE DEF e
  <2>3. Kept(s, TryAppendPending(s)) /\ Kept(s, EndOfStream(s)) /\ Kept(s, s)
    BY <1>3, TryAppendPendingKeeps, EndOfStreamKeeps, KeptSelf
  <2>4. Kept(s, q)
    BY <1>2, <1>5, <2>2, <2>3
  <2>5. Kept(s0, q)
    BY <1>3, <2>4, KeptAfter
  <2> QED
    BY <2>1, <2>4, <2>5 DEF Kept, q
<1> QED
  BY <1>4, <1>5
-----------------------------------------------------------------------------
(* Messages of the worker.                                                 *)

\* f is the queue after each of the first n inits was handed over.
InitsUpto(s, n, f) ==
    f = [i \in 0..n |->
            IF i = 0 THEN [s EXCEPT !.pendingInits = << >>]
            ELSE AppendInit(f[i - 1], s.pendingInits[i])]

LEMMA InitsExist ==
    ASSUME NEW s, NEW n \in Nat
    PROVE  \E f : InitsUpto(s, n, f)
<1> DEFINE bad == {k \in Nat : ~\E f : InitsUpto(s, k, f)}
           e == [s EXCEPT !.pendingInits = << >>]
           Step(x, i) == AppendInit(x, s.pendingInits[i])
<1> SUFFICES ASSUME bad # {} PROVE FALSE
  OBVIOUS
<1>0. ASSUME NEW k, NEW f
      PROVE  InitsUpto(s, k, f) <=> f = [i \in 0..k |-> IF i = 0 THEN e ELSE Step(f[i - 1], i)]
  BY DEF InitsUpto
<1>1. PICK k \in bad : \A j \in bad : k <= j
  <2>1. bad \subseteq Nat
    OBVIOUS
  <2> HIDE DEF bad
  <2> QED
    BY <2>1, LeastNat
<1>2. k \in Nat /\ ~\E f : InitsUpto(s, k, f)
  BY <1>1
<1> HIDE DEF e, Step
<1>3. CASE k = 0
  <2> DEFINE f == [i \in 0..0 |-> e]
  <2>1. f = [i \in 0..0 |-> IF i = 0 THEN e ELSE Step(f[i - 1], i)]
    OBVIOUS
  <2>2. InitsUpto(s, 0, f)
    BY <1>0, <2>1
  <2> QED
    BY <1>2, <1>3, <2>2
<1>4. CASE k # 0
  <2>1. k - 1 \in Nat /\ ~(k <= k - 1)
    BY <1>2, <1>4
  <2>2. \E f : InitsUpto(s, k - 1, f)
    BY <1>1, <2>1
  <2>3. PICK f : InitsUpto(s, k - 1, f)
    BY <2>2
  <2> DEFINE g == [i \in 0..k |-> IF i = k THEN Step(f[k - 1], k) ELSE f[i]]
  <2>4. f = [i \in 0..(k - 1) |-> IF i = 0 THEN e ELSE Step(f[i - 1], i)]
    BY <1>0, <2>3
  <2>5. g = [i \in 0..k |-> IF i = 0 THEN e ELSE Step(g[i - 1], i)]
    <3>1. ASSUME NEW i \in 0..k PROVE g[i] = IF i = 0 THEN e ELSE Step(g[i - 1], i)
      <4>1. CASE i = k
        BY <1>2, <1>4, <2>1, <4>1
      <4>2. CASE i # k
        <5>1. i \in 0..(k - 1) /\ g[i] = f[i]
          BY <1>2, <4>2
        <5>2. f[i] = IF i = 0 THEN e ELSE Step(f[i - 1], i)
          BY <2>4, <5>1
        <5>3. i # 0 => g[i - 1] = f[i - 1]
          BY <1>2, <5>1
        <5> QED
          BY <5>1, <5>2, <5>3
      <4> QED
        BY <4>1, <4>2
    <3> HIDE DEF g
    <3>2. g = [i \in 0..k |-> g[i]]
      BY DEF g
    <3> QED
      BY <3>1, <3>2
  <2>6. InitsUpto(s, k, g)
    <3> HIDE DEF g
    <3> QED
      BY <1>0, <2>5
  <2> QED
    BY <1>2, <2>6
<1> QED
  BY <1>3, <1>4

LEMMA PendingInitsSet ==
    ASSUME NEW s, Shaped(s), NEW z \in Seq(Inits), NEW e, e = [s EXCEPT !.pendingInits = z]
    PROVE  Kept(s, e)
<1>1. /\ DOMAIN e = DOMAIN s /\ e.sb = s.sb /\ e.given = s.given /\ e.appended = s.appended
      /\ e.pendingSegments = s.pendingSegments /\ e.pendingRemoveRanges = s.pendingRemoveRanges
      /\ e.pendingSourceBufferInit = s.pendingSourceBufferInit
      /\ e.disabledTracks = s.disabledTracks
      /\ e.readyState = s.readyState /\ e.opened = s.opened /\ e.pendingInits = z
  BY DEF Shaped, Fields
<1>2. \A u \in Track : Updating(e, u) <=> Updating(s, u)
  BY <1>1 DEF Updating
<1> QED
  BY <1>1, <1>2 DEF Kept, Shaped, Onward, AllKept, AllBusy, RemovalBusy

\* flushPendingInits
LEMMA FlushInitsKeeps ==
    ASSUME NEW s, Shaped(s)
    PROVE  Kept(s, FlushPendingInits(s))
<1> DEFINE n == Len(s.pendingInits)
           f == CHOOSE x : InitsUpto(s, n, x)
           e == [s EXCEPT !.pendingInits = << >>]
<1>1. n \in Nat
  BY DEF Shaped
<1>2. FlushPendingInits(s) = f[n]
  BY DEF FlushPendingInits, InitsUpto
<1>3. InitsUpto(s, n, f)
  <2>1. \E x : InitsUpto(s, n, x)
    BY <1>1, InitsExist
  <2> QED
    BY <2>1, Zenon
<1> HIDE DEF f
<1>4. ASSUME NEW i \in 0..n
      PROVE  f[i] = IF i = 0 THEN e ELSE AppendInit(f[i - 1], s.pendingInits[i])
  BY <1>3 DEF InitsUpto
<1>5. Kept(s, e)
  <2> DEFINE z == << >>
  <2>1. z \in Seq(Inits) /\ e = [s EXCEPT !.pendingInits = z]
    OBVIOUS
  <2> HIDE DEF z, e
  <2> QED
    BY <2>1, PendingInitsSet
<1> HIDE DEF e
<1> DEFINE bad == {i \in 0..n : ~Kept(s, f[i])}
<1>6. bad = {}
  <2> SUFFICES ASSUME bad # {} PROVE FALSE
    OBVIOUS
  <2>1. bad \subseteq Nat
    OBVIOUS
  <2>2. PICK k \in bad : \A j \in bad : k <= j
    <3> HIDE DEF bad
    <3> QED
      BY <2>1, LeastNat
  <2>3. k \in 0..n /\ ~Kept(s, f[k]) /\ k \in Nat
    BY <1>1, <2>2
  <2>4. k # 0
    <3>1. 0 \in 0..n
      BY <1>1
    <3>2. f[0] = e
      BY <1>4, <3>1
    <3>3. Kept(s, f[0])
      BY <1>5, <3>2
    <3> QED
      BY ONLY <2>3, <3>3
  <2>5. k - 1 \in 0..n /\ ~(k <= k - 1) /\ k \in 1..n
    BY <1>1, <2>3, <2>4
  <2>6. Kept(s, f[k - 1])
    BY <2>2, <2>5
  <2> DEFINE p == f[k - 1]
             init == s.pendingInits[k]
  <2>7. init \in Inits
    BY <2>5 DEF Shaped
  <2>8. f[k] = AppendInit(p, init)
    BY <1>4, <2>3, <2>4
  <2>9. Kept(s, p) /\ Shaped(p)
    BY <2>6 DEF Kept
  <2> HIDE DEF p, init
  <2>10. Kept(p, f[k])
    BY <2>7, <2>8, <2>9, AppendInitKeeps
  <2> QED
    BY <2>3, <2>9, <2>10, KeptAfter
<1>7. n \in 0..n
  BY <1>1
<1> QED
  BY <1>2, <1>6, <1>7

LEMMA HandleWorkerMessageKeeps ==
    ASSUME NEW s, Shaped(s), NEW msg, MessageOK(msg), msg.type \in {"init", "media"} => msg \in Entries
    PROVE  Kept(s, HandleWorkerMessage(s, msg))
<1> DEFINE f == FlushPendingInits(s)
           q == HandleWorkerMessage(s, msg)
<1>1. Kept(s, f) /\ Shaped(f)
  BY FlushInitsKeeps DEF Kept
<1>2. msg.type \in {"init", "media", "info", "complete"}
  BY DEF MessageOK
<1>3. CASE msg.type = "init"
  <2> DEFINE z == Append(s.pendingInits, msg)
  <2>1. q = [s EXCEPT !.pendingInits = z]
    BY <1>3 DEF HandleWorkerMessage
  <2>2. msg \in Inits
    BY <1>3 DEF Inits
  <2>3. z \in Seq(Inits)
    BY <2>2, AppendProperties DEF Shaped
  <2> HIDE DEF z, q
  <2>4. Kept(s, q)
    BY <2>1, <2>3, PendingInitsSet
  <2> QED
    BY <2>4 DEF q
<1>4. CASE msg.type = "media"
  <2>1. q = AppendMedia(f, msg)
    BY <1>4 DEF HandleWorkerMessage
  <2> HIDE DEF f
  <2>2. Kept(f, AppendMedia(f, msg))
    BY <1>1, <1>4, AppendMediaKeeps
  <2> QED
    BY <1>1, <2>1, <2>2, KeptAfter
<1>5. CASE msg.type = "info"
  <2>1. q = HandleInfo(f, msg.vod)
    BY <1>5 DEF HandleWorkerMessage
  <2> HIDE DEF f
  <2>2. Same(f, HandleInfo(f, msg.vod))
    BY <1>1, InfoSame
  <2>3. Kept(f, HandleInfo(f, msg.vod))
    BY <1>1, <2>2, SameKept
  <2> QED
    BY <1>1, <2>1, <2>3, KeptAfter
<1>6. CASE msg.type = "complete"
  <2>1. q = EndOfStream(f)
    BY <1>6 DEF HandleWorkerMessage
  <2> HIDE DEF f
  <2>2. Kept(f, EndOfStream(f))
    BY <1>1, EndOfStreamKeeps
  <2> QED
    BY <1>1, <2>1, <2>2, KeptAfter
<1> QED
  BY <1>2, <1>3, <1>4, <1>5, <1>6
-----------------------------------------------------------------------------
(* The steps of the specification.                                         *)

\* A removal may wait for a free buffer only once the source is gone; before
\* the source opens nothing has happened, and a destroyed one stays destroyed.
KeepInv ==
    /\ Shaped(m) /\ script \in Scripts /\ pos \in Nat \ {0}
    /\ m.opened \in BOOLEAN
    /\ m.readyState # "none" => AllKept(m)
    /\ m.opened = FALSE \/ m.readyState \in {"open", "ended"} => AllBusy(m)
    /\ m.opened = FALSE => /\ m.readyState = "closed" /\ m.failed = FALSE
                           /\ \A t \in Track : m.sb[t] = NoBuffer

\* A step of a source that has been opened.
LEMMA KeptStep ==
    ASSUME KeepInv, m.opened = TRUE, Kept(m, m'), UNCHANGED script, pos' \in Nat \ {0}
    PROVE  KeepInv'
BY DEF KeepInv, Kept, Onward, Shaped, AllKept, AllBusy, RemovalBusy, Updating, Fields, Entries, Inits

\* A step that leaves the queue alone.
LEMMA SameStep ==
    ASSUME KeepInv, Same(m, m'), m.opened = TRUE, UNCHANGED <<script, pos>>
    PROVE  KeepInv'
<1>1. Kept(m, m')
  BY SameKept DEF KeepInv
<1> QED
  BY <1>1, KeptStep DEF KeepInv
LEMMA OpenedStep ==
    ASSUME KeepInv, Shaped(m'), m'.opened = TRUE, UNCHANGED script, pos' \in Nat \ {0},
           m'.readyState # "none" => AllKept(m'),
           m'.readyState \in {"open", "ended"} => AllBusy(m')
    PROVE  KeepInv'
BY DEF KeepInv, Shaped, AllKept, AllBusy, RemovalBusy, Updating, Fields, Entries, Inits

LEMMA InitKeeps == Init => KeepInv
<1> SUFFICES ASSUME Init PROVE KeepInv
  OBVIOUS
<1>1. /\ Fields \subseteq DOMAIN m /\ m.readyState = "closed" /\ m.opened = FALSE /\ m.failed = FALSE
      /\ m.sb = [t \in Track |-> NoBuffer] /\ m.pendingSegments = [t \in Track |-> << >>]
      /\ m.pendingRemoveRanges = [t \in Track |-> << >>] /\ m.pendingSourceBufferInit = << >>
      /\ m.disabledTracks = {} /\ m.pendingInits = << >>
      /\ m.given = [t \in Track |-> << >>] /\ m.appended = [t \in Track |-> << >>]
  BY DEF Init, Fields
<1>2. script \in Scripts /\ pos = 1
  BY DEF Init
<1> DEFINE e == << >>
<1>3. e \in Seq(Entries) /\ e \in Seq(Inits) /\ e \o e = e
  OBVIOUS
<1> HIDE DEF e
<1>4. /\ \A t \in Track : /\ m.sb[t] = NoBuffer /\ m.pendingSegments[t] = e /\ m.pendingRemoveRanges[t] = << >>
                          /\ m.given[t] = e /\ m.appended[t] = e
      /\ DOMAIN m.sb = Track /\ DOMAIN m.pendingRemoveRanges = Track
      /\ m.pendingSourceBufferInit = e /\ m.pendingInits = e
  BY <1>1 DEF e
<1>5. m.pendingSegments \in [Track -> Seq(Entries)] /\ m.given \in [Track -> Seq(Entries)]
      /\ m.appended \in [Track -> Seq(Entries)]
  <2>1. m.pendingSegments = [t \in Track |-> e] /\ m.given = [t \in Track |-> e]
        /\ m.appended = [t \in Track |-> e]
    BY <1>1 DEF e
  <2> QED
    BY <1>3, <2>1
<1>6. Shaped(m)
  BY <1>1, <1>3, <1>4, <1>5 DEF Shaped
<1>7. AllKept(m)
  BY <1>3, <1>4 DEF AllKept
<1>8. AllBusy(m)
  BY <1>4 DEF AllBusy, RemovalBusy
<1>9. pos \in Nat \ {0} /\ m.opened \in BOOLEAN
  <2>1. pos \in Nat \ {0}
    BY ONLY <1>2
  <2>2. m.opened \in BOOLEAN
    BY ONLY <1>1, Zenon
  <2> QED
    BY <2>1, <2>2
<1>10. \A t \in Track : m.sb[t] = NoBuffer
  BY <1>4
<1> QED
  BY ONLY <1>1, <1>2, <1>6, <1>7, <1>8, <1>9, <1>10, Zenon DEF KeepInv

LEMMA SourceOpenStep ==
    ASSUME KeepInv, SourceOpen
    PROVE  KeepInv'
<1> DEFINE p == [m EXCEPT !.readyState = "open", !.opened = TRUE]
           f == FlushPendingSourceBufferInit(p)
<1>1. m' = TryAppendPending(f) /\ UNCHANGED <<script, pos>> /\ m.opened = FALSE
  BY DEF SourceOpen, Main, KeepInv
<1>2. Shaped(m) /\ AllKept(m) /\ AllBusy(m)
  BY <1>1 DEF KeepInv
<1>3. /\ DOMAIN p = DOMAIN m /\ p.sb = m.sb /\ p.given = m.given /\ p.appended = m.appended
      /\ p.pendingSegments = m.pendingSegments /\ p.pendingRemoveRanges = m.pendingRemoveRanges
      /\ p.pendingSourceBufferInit = m.pendingSourceBufferInit
      /\ p.disabledTracks = m.disabledTracks
      /\ p.readyState = "open" /\ p.opened = TRUE /\ p.pendingInits = m.pendingInits
  BY <1>2 DEF Shaped, Fields
<1> HIDE DEF p
<1>4. \A u \in Track : Updating(p, u) <=> Updating(m, u)
  BY <1>3 DEF Updating
<1>5. Shaped(p) /\ AllKept(p) /\ AllBusy(p)
  BY <1>2, <1>3, <1>4 DEF Shaped, AllKept, AllBusy, RemovalBusy
<1>6. Kept(p, f) /\ Shaped(f)
  BY <1>5, FlushBuffersKeeps DEF Kept
<1> HIDE DEF f
<1>7. Kept(p, TryAppendPending(f))
  BY <1>6, TryAppendPendingKeeps, KeptAfter
<1>8. Shaped(m') /\ AllKept(m') /\ AllBusy(m') /\ m'.opened = TRUE
  BY <1>1, <1>3, <1>5, <1>7 DEF Kept, Onward
<1> QED
  BY <1>1, <1>8, OpenedStep DEF KeepInv

LEMMA DeliverStep ==
    ASSUME KeepInv, Deliver
    PROVE  KeepInv'
<1> DEFINE msg == script[pos]
<1>1. /\ m' = HandleWorkerMessage(m, msg) /\ pos' = pos + 1 /\ UNCHANGED script
      /\ m.opened = TRUE /\ pos <= Len(script)
  BY DEF Deliver, CanDeliver, KeepInv
<1>2. script \in Scripts /\ pos \in Nat \ {0} /\ Shaped(m)
  BY DEF KeepInv
<1>3. script \in Seq({script[i] : i \in DOMAIN script})
  BY <1>2
<1>4. pos \in DOMAIN script
  <2> DEFINE S == {script[i] : i \in DOMAIN script}
  <2>1. script \in Seq(S)
    BY <1>3
  <2> HIDE DEF S
  <2> QED
    BY <1>1, <1>2, <2>1
<1>5. MessageOK(msg)
  BY <1>2, <1>4
<1>6. msg.type \in {"init", "media"} => msg \in Entries
  <2>1. msg \in SeqExt!ToSet(script)
    BY <1>4 DEF SeqExt!ToSet
  <2> QED
    BY <1>2, <2>1 DEF Entries
<1> HIDE DEF msg
<1>7. Kept(m, m')
  BY <1>1, <1>2, <1>5, <1>6, HandleWorkerMessageKeeps
<1>8. pos' \in Nat \ {0}
  BY <1>1, <1>2
<1> QED
  BY <1>1, <1>7, <1>8, KeptStep

LEMMA WorkerStep ==
    ASSUME KeepInv, WorkerPauses \/ WorkerResumes
    PROVE  KeepInv'
<1> DEFINE p == [m EXCEPT !.posted = "none"]
<1>1. m' = p /\ UNCHANGED <<script, pos>>
  BY DEF WorkerPauses, WorkerResumes
<1>2. Same(m, p) /\ p.failed = m.failed
  BY DEF KeepInv, Same, Shaped, Fields
<1> HIDE DEF p
<1>3. Kept(m, p)
  BY <1>2, SameKept DEF KeepInv
<1>4. CASE m.opened = TRUE
  BY <1>1, <1>2, <1>4, SameStep
<1>5. CASE m.opened = FALSE
  BY <1>1, <1>2, <1>3, <1>5 DEF KeepInv, Same, Kept, Shaped, AllKept, AllBusy, RemovalBusy,
                                Updating, Fields, Entries, Inits
<1> QED
  BY <1>4, <1>5 DEF KeepInv

LEMMA UpdateEndStep ==
    ASSUME KeepInv, NEW t \in Track, UpdateEnd(t)
    PROVE  KeepInv'
<1> DEFINE op == m.sb[t]
           x == m.parsed[t] \/ (op.op = "append" /\ op.entry.type = "init")
           y == IF op.op = "remove" THEN m.buffered[t] \ (op.range.start..(op.range.end - 1))
                ELSE IF op.entry.type = "media" THEN m.buffered[t] \cup {op.entry.unit} ELSE m.buffered[t]
           free == [m EXCEPT !.sb = [m.sb EXCEPT ![t] = Idle],
                             !.parsed = [m.parsed EXCEPT ![t] = x],
                             !.buffered = [m.buffered EXCEPT ![t] = y]]
<1>1. m' = OnUpdateEnd(free) /\ UNCHANGED <<script, pos>> /\ Updating(m, t)
  BY DEF UpdateEnd, Main
<1> HIDE DEF op, x, y, free
<1>2. Shaped(m) /\ m.sb[t] # NoBuffer
  BY <1>1, BufferStates DEF KeepInv, Updating
<1>3. m.opened = TRUE
  BY <1>2 DEF KeepInv
<1>4. /\ DOMAIN free = DOMAIN m /\ free.sb = [m.sb EXCEPT ![t] = Idle]
      /\ free.given = m.given /\ free.appended = m.appended
      /\ free.pendingSegments = m.pendingSegments /\ free.pendingRemoveRanges = m.pendingRemoveRanges
      /\ free.pendingSourceBufferInit = m.pendingSourceBufferInit
      /\ free.disabledTracks = m.disabledTracks
      /\ free.readyState = m.readyState /\ free.opened = m.opened /\ free.pendingInits = m.pendingInits
  BY <1>2 DEF free, Shaped, Fields
<1>5. /\ DOMAIN free.sb = Track /\ free.sb[t] = Idle
      /\ \A u \in Track : u # t => free.sb[u] = m.sb[u]
  BY <1>2, <1>4 DEF Shaped
<1>6. \A u \in Track : u # t => (Updating(free, u) <=> Updating(m, u))
  BY <1>5 DEF Updating
<1>7. Shaped(free)
  BY <1>2, <1>4, <1>5, <1>6 DEF Shaped
<1>8. m.readyState # "none" => AllKept(free)
  BY <1>4 DEF AllKept, KeepInv
<1>9. m.readyState \in {"open", "ended"} => AllDue(free)
  BY <1>4, <1>5, <1>6 DEF KeepInv, AllBusy, AllDue, RemovalBusy, RemovalDue
<1>10. CASE m.readyState \in {"open", "ended"}
  <2>1. /\ Shaped(m') /\ Onward(free, m') /\ (AllKept(free) => AllKept(m')) /\ AllBusy(m')
    BY <1>1, <1>7, <1>9, <1>10, OnUpdateEndKeeps
  <2> QED
    BY <1>1, <1>3, <1>4, <1>8, <1>10, <2>1, OpenedStep DEF KeepInv, Onward
<1>11. CASE m.readyState \notin {"open", "ended"}
  <2>1. /\ Shaped(m') /\ Onward(free, m') /\ (AllKept(free) => AllKept(m'))
    BY <1>1, <1>7, OnUpdateEndKeeps
  <2> QED
    BY <1>1, <1>3, <1>4, <1>8, <1>11, <2>1, OpenedStep DEF KeepInv, Onward
<1> QED
  BY <1>10, <1>11

\* The video plays on or is moved, the source streams no more, or fails.
LEMMA PlaybackStep ==
    ASSUME KeepInv, Play \/ (\E to \in 0..MaxTime : BufferSeek(to)) \/ EndStreaming \/ MediaBreaks
    PROVE  KeepInv'
<1>1. m.readyState \in {"open", "ended"} /\ UNCHANGED <<script, pos>>
  BY DEF Play, CanPlay, BufferSeek, EndStreaming, MediaBreaks, Main
<1>2. m.opened = TRUE /\ Shaped(m)
  BY <1>1 DEF KeepInv
<1>3. ASSUME NEW x, m' = UpdateFetchBackpressure([m EXCEPT !.currentTime = x]) PROVE Same(m, m')
  <2> DEFINE p == [m EXCEPT !.currentTime = x]
  <2>1. Same(m, p)
    BY <1>2 DEF Same, Shaped, Fields
  <2> HIDE DEF p
  <2>2. Same(m, UpdateFetchBackpressure(p))
    BY <1>2, <2>1, SameShaped, BackpressureSame, SameAfter
  <2> QED
    BY <1>3, <2>2 DEF p
<1>4. CASE Play
  <2>1. m' = UpdateFetchBackpressure([m EXCEPT !.currentTime = m.currentTime + 1])
    BY <1>4 DEF Play, Main
  <2> QED
    BY <1>1, <1>2, <1>3, <2>1, SameStep
<1>5. ASSUME NEW to, BufferSeek(to) PROVE KeepInv'
  <2>1. m' = UpdateFetchBackpressure([m EXCEPT !.currentTime = to])
    BY <1>5 DEF BufferSeek, Main
  <2> QED
    BY <1>1, <1>2, <1>3, <2>1, SameStep
<1>6. CASE EndStreaming
  <2>1. m' = [m EXCEPT !.streaming = FALSE]
    BY <1>6 DEF EndStreaming, Main
  <2>2. Same(m, m')
    BY <1>2, <2>1 DEF Same, Shaped, Fields
  <2> QED
    BY <1>1, <1>2, <2>2, SameStep
<1>7. CASE MediaBreaks
  <2>1. m' = [m EXCEPT !.broken = TRUE]
    BY <1>7 DEF MediaBreaks, Main
  <2>2. Same(m, m')
    BY <1>2, <2>1 DEF Same, Shaped, Fields
  <2> QED
    BY <1>1, <1>2, <2>2, SameStep
<1> QED
  BY <1>4, <1>5, <1>6, <1>7

LEMMA StartStreamingStep ==
    ASSUME KeepInv, StartStreaming
    PROVE  KeepInv'
<1> DEFINE p == [m EXCEPT !.streaming = TRUE]
           f == FlushPendingSourceBufferInit(p)
           s == TryAppendPending(f)
           e == [s EXCEPT !.posted = "resume"]
<1>1. /\ m' = IF s.watermarkPaused \/ s.bufferFullPaused THEN UpdateFetchBackpressure(s) ELSE e
      /\ m.readyState = "open" /\ UNCHANGED <<script, pos>>
  BY DEF StartStreaming, CanStartStreaming, Main
<1>2. m.opened = TRUE /\ Shaped(m)
  BY <1>1 DEF KeepInv
<1>3. Kept(m, p) /\ Shaped(p)
  <2>1. Same(m, p)
    BY <1>2 DEF Same, Shaped, Fields
  <2> HIDE DEF p
  <2> QED
    BY <1>2, <2>1, SameKept, SameShaped
<1> HIDE DEF p
<1>4. Kept(m, f) /\ Shaped(f)
  BY <1>3, FlushBuffersKeeps, KeptAfter DEF Kept
<1> HIDE DEF f
<1>5. Kept(m, s) /\ Shaped(s)
  BY <1>4, TryAppendPendingKeeps, KeptAfter DEF Kept
<1> HIDE DEF s
<1>6. Same(s, e) /\ Same(s, UpdateFetchBackpressure(s))
  BY <1>5, BackpressureSame DEF Same, Shaped, Fields
<1> HIDE DEF e
<1>7. Kept(s, m')
  BY <1>1, <1>5, <1>6, SameKept
<1>8. Kept(m, m')
  BY <1>5, <1>7, KeptAfter
<1> QED
  BY <1>1, <1>2, <1>8, KeptStep DEF KeepInv

\* A source that is taken away keeps its queues, for nobody.
LEMMA SourceCloseStep ==
    ASSUME KeepInv, NEW visible \in BOOLEAN, SourceClose(visible)
    PROVE  KeepInv'
<1> DEFINE b == [t \in Track |-> NoBuffer]
<1>1. /\ m' = [m EXCEPT !.readyState = "closed", !.sb = b,
                        !.mimeTypes = [t \in Track |-> NoCodec], !.posted = "pause",
                        !.failed = m.failed \/ visible]
      /\ m.readyState \in {"open", "ended"} /\ UNCHANGED <<script, pos>>
  BY DEF SourceClose, Main
<1>2. m.opened = TRUE /\ Shaped(m) /\ AllKept(m)
  BY <1>1 DEF KeepInv
<1>3. DOMAIN b = Track /\ \A t \in Track : b[t] = NoBuffer
  OBVIOUS
<1> HIDE DEF b
<1>4. /\ DOMAIN m' = DOMAIN m /\ m'.sb = b /\ m'.given = m.given /\ m'.appended = m.appended
      /\ m'.pendingSegments = m.pendingSegments /\ m'.pendingRemoveRanges = m.pendingRemoveRanges
      /\ m'.pendingSourceBufferInit = m.pendingSourceBufferInit
      /\ m'.disabledTracks = m.disabledTracks
      /\ m'.readyState = "closed" /\ m'.opened = TRUE /\ m'.pendingInits = m.pendingInits
  BY <1>1, <1>2 DEF Shaped, Fields
<1>5. Shaped(m') /\ AllKept(m')
  BY <1>2, <1>3, <1>4 DEF Shaped, AllKept
<1> QED
  BY <1>1, <1>4, <1>5, OpenedStep DEF KeepInv

LEMMA DestroyStep ==
    ASSUME KeepInv, Destroy
    PROVE  KeepInv'
<1> DEFINE b == [t \in Track |-> NoBuffer]
           e == << >>
           k == [t \in Track |-> e]
<1>1. /\ m' = [m EXCEPT !.readyState = "none", !.sb = b,
                        !.mimeTypes = [t \in Track |-> NoCodec],
                        !.pendingSegments = k, !.pendingRemoveRanges = k,
                        !.pendingSourceBufferInit = e, !.disabledTracks = {},
                        !.isBufferFull = FALSE, !.hasPendingEos = FALSE, !.pendingDuration = FALSE]
      /\ m.failed /\ UNCHANGED <<script, pos>>
  BY DEF Destroy, Main
<1>2. m.opened = TRUE /\ Shaped(m)
  BY <1>1 DEF KeepInv
<1>3. DOMAIN b = Track /\ \A t \in Track : b[t] = NoBuffer
  OBVIOUS
<1>4. e \in Seq(Inits) /\ k \in [Track -> Seq(Entries)] /\ DOMAIN k = Track
  OBVIOUS
<1> HIDE DEF b, e, k
<1>5. /\ DOMAIN m' = DOMAIN m /\ m'.sb = b /\ m'.given = m.given /\ m'.appended = m.appended
      /\ m'.pendingSegments = k /\ m'.pendingRemoveRanges = k
      /\ m'.pendingSourceBufferInit = e
      /\ m'.readyState = "none" /\ m'.opened = TRUE /\ m'.pendingInits = m.pendingInits
  BY <1>1, <1>2 DEF Shaped, Fields
<1>6. Shaped(m')
  BY <1>2, <1>3, <1>4, <1>5 DEF Shaped
<1> QED
  BY <1>1, <1>5, <1>6, OpenedStep DEF KeepInv

-----------------------------------------------------------------------------
LEMMA KeepInvariant == Spec => []KeepInv
<1>1. KeepInv /\ [Next]_vars => KeepInv'
  <2> SUFFICES ASSUME KeepInv, [Next]_vars PROVE KeepInv'
    OBVIOUS
  <2>1. CASE SourceOpen \/ Deliver \/ WorkerPauses \/ WorkerResumes \/ StartStreaming \/ Destroy
    BY <2>1, SourceOpenStep, DeliverStep, WorkerStep, StartStreamingStep, DestroyStep
  <2>2. CASE Play \/ (\E to \in 0..MaxTime : BufferSeek(to)) \/ EndStreaming \/ MediaBreaks
    BY <2>2, PlaybackStep
  <2>3. ASSUME NEW t \in Track, UpdateEnd(t) PROVE KeepInv'
    BY <2>3, UpdateEndStep
  <2>4. ASSUME NEW visible \in BOOLEAN, SourceClose(visible) PROVE KeepInv'
    BY <2>4, SourceCloseStep
  <2>5. CASE UNCHANGED vars
    BY <2>5 DEF vars, KeepInv, Shaped, AllKept, AllBusy, RemovalBusy, Updating, Fields, Entries, Inits
  <2> QED
    BY <2>1, <2>2, <2>3, <2>4, <2>5 DEF Next
<1> QED
  BY <1>1, InitKeeps, PTL DEF Spec

\* media-source.ts appends what it is given: whatever interrupts the appends
\* (quota errors, removals, a managed source that has enough, failing media,
\* codec changes), no segment of a track is lost, doubled or overtaken.
THEOREM AppendsLossless == Spec => []Lossless
<1>1. KeepInv => Lossless
  BY DEF KeepInv, AllKept, Lossless
<1> QED
  BY <1>1, KeepInvariant, PTL

\* In an open source a removal that waits has a busy SourceBuffer: an updateend
\* is to come that takes it off the queue, so it does not block the appends of
\* both tracks for good (tryAppendPending).
THEOREM RemovalsGoOn == Spec => []RemovalsUnderWay
<1>1. KeepInv => RemovalsUnderWay
  BY DEF KeepInv, AllBusy, RemovalBusy, RemovalsUnderWay
<1> QED
  BY <1>1, KeepInvariant, PTL

HIDE QueueAssumption

-----------------------------------------------------------------------------
(* The stream loader.                                                      *)

Item == [at : 0..(MaxSize - 1), byte : Byte]

\* The bytes of the current request that follow the ones taken.
IsNext(data) ==
    /\ data \in Seq(Byte)
    /\ \A i \in 1..Len(data) : data[i] = <<cycle, Len(taken) + i - 1>>
    /\ Len(taken) + Len(data) <= MaxSize

-----------------------------------------------------------------------------
(* The stash.                                                                *)

\* Bytes shown to the consumer under their true position are a step of
\* ByteFeed, however many of them it takes (_dispatchChunks).
LEMMA DispatchInOrder ==
    ASSUME LoaderTypeOK, InPlace, NEW data, IsNext(data), NEW n \in 0..Len(data),
           Dispatch(data, Len(taken), n)
    PROVE  /\ taken' = taken \o Feed!Following(cycle, taken, n)
           /\ taken' \in Seq(Item)
           /\ Len(taken') = Len(taken) + n
           /\ \A i \in 1..Len(taken') : taken'[i] = [at |-> i - 1, byte |-> <<cycle, i - 1>>]
<1> DEFINE new == [i \in 1..n |-> [at |-> Len(taken) + i - 1, byte |-> data[i]]]
<1>1. /\ Len(data) \in Nat /\ Len(taken) \in Nat /\ n \in Nat
      /\ taken \in Seq(Item) /\ MaxSize \in Nat /\ data \in Seq(Byte)
  BY LenProperties, LoaderAssumption DEF LoaderTypeOK, IsNext, Item
<1>2. \A i \in 1..n : data[i] \in Byte /\ data[i] = <<cycle, Len(taken) + i - 1>>
  BY <1>1, ElementOfSeq DEF IsNext
<1>3. new \in Seq(Item) /\ Len(new) = n
  <2>1. \A i \in 1..n : Len(taken) + i - 1 \in 0..(MaxSize - 1)
    BY <1>1 DEF IsNext
  <2>2. new \in [1..n -> Item]
    BY <1>1, <1>2, <2>1 DEF Item
  <2>3. QED
    BY <1>1, <2>2
<1>4. taken' = taken \o new
  BY DEF Dispatch
<1>5. new = Feed!Following(cycle, taken, n)
  BY <1>1, <1>2 DEF Feed!Following
<1>6. /\ taken' \in Seq(Item)
      /\ Len(taken') = Len(taken) + n
      /\ \A i \in 1..(Len(taken) + n) :
            taken'[i] = IF i <= Len(taken) THEN taken[i] ELSE new[i - Len(taken)]
  BY <1>1, <1>3, <1>4, ConcatProperties
<1>7. ASSUME NEW i \in 1..Len(taken')
      PROVE  taken'[i] = [at |-> i - 1, byte |-> <<cycle, i - 1>>]
  <2>0. i \in 1..(Len(taken) + n) /\ i \in Int
    BY <1>1, <1>6
  <2>1. CASE i <= Len(taken)
    <3>1. i \in 1..Len(taken)
      BY <1>1, <2>0, <2>1
    <3>2. taken[i] = [at |-> i - 1, byte |-> <<cycle, i - 1>>]
      BY <3>1 DEF InPlace
    <3>3. taken'[i] = taken[i]
      BY <1>6, <2>0, <2>1
    <3>4. QED
      BY <3>2, <3>3
  <2>2. CASE ~(i <= Len(taken))
    <3> DEFINE j == i - Len(taken)
    <3>1. j \in 1..n /\ Len(taken) + j - 1 = i - 1
      BY <1>1, <2>0, <2>2
    <3> HIDE DEF j
    <3>2. new[j] = [at |-> Len(taken) + j - 1, byte |-> data[j]]
      BY <3>1
    <3>3. data[j] = <<cycle, Len(taken) + j - 1>>
      BY <1>2, <3>1
    <3>4. new[j] = [at |-> i - 1, byte |-> <<cycle, i - 1>>]
      BY <3>1, <3>2, <3>3
    <3>5. taken'[i] = new[j]
      BY <1>6, <2>0, <2>2 DEF j
    <3>6. QED
      BY <3>4, <3>5
  <2>3. QED
    BY <2>1, <2>2
<1>8. QED
  BY <1>4, <1>5, <1>6, <1>7

\* What the consumer left is stashed in its place (_stashUnconsumed).
LEMMA KeepInOrder ==
    ASSUME LoaderTypeOK, NEW data, IsNext(data), NEW n \in 0..Len(data),
           Keep(data, n, Len(taken)), Len(taken') = Len(taken) + n
    PROVE  /\ stash' \in Seq(Byte)
           /\ Len(stash') = Len(data) - n
           /\ \A i \in 1..Len(stash') : stash'[i] = <<cycle, Len(taken') + i - 1>>
           /\ stashByteStart' = IF stash' = << >> THEN 0 ELSE Len(taken')
<1>1. /\ Len(data) \in Nat /\ Len(taken) \in Nat /\ n \in Nat /\ data \in Seq(Byte)
  BY LenProperties DEF LoaderTypeOK, IsNext
<1>2. \A i \in (n + 1)..Len(data) : data[i] \in Byte
  BY <1>1, ElementOfSeq
<1>3. /\ stash' \in Seq(Byte)
      /\ Len(stash') = IF n + 1 <= Len(data) THEN Len(data) - (n + 1) + 1 ELSE 0
      /\ \A i \in 1..(Len(data) - (n + 1) + 1) : stash'[i] = data[n + 1 + i - 1]
  <2>1. stash' = SubSeq(data, n + 1, Len(data))
    BY DEF Keep
  <2>2. n + 1 \in Int /\ Len(data) \in Int
    BY <1>1
  <2>3. QED
    BY <1>2, <2>1, <2>2, SubSeqProperties
<1>4. Len(stash') = Len(data) - n
  <2>1. n <= Len(data) /\ n \in Nat /\ Len(data) \in Nat
    BY <1>1
  <2>2. Len(stash') = IF n + 1 <= Len(data) THEN Len(data) - (n + 1) + 1 ELSE 0
    BY ONLY <1>3
  <2> QED
    BY ONLY <2>1, <2>2
<1>5. ASSUME NEW i \in 1..Len(stash')
      PROVE  stash'[i] = <<cycle, Len(taken') + i - 1>>
  <2>1. i \in 1..(Len(data) - (n + 1) + 1) /\ n + i \in 1..Len(data) /\ n + 1 + i - 1 = n + i
    BY <1>1, <1>4
  <2>2. stash'[i] = data[n + i]
    BY <1>3, <2>1
  <2>3. data[n + i] = <<cycle, Len(taken) + (n + i) - 1>>
    BY <2>1 DEF IsNext
  <2>4. QED
    BY <1>1, <2>1, <2>2, <2>3
<1>6. stash' = << >> <=> n = Len(data)
  <2>1. stash' = << >> <=> Len(stash') = 0
    BY <1>3, EmptySeq
  <2>2. QED
    BY <1>1, <1>4, <2>1
<1>7. stashByteStart' = IF n = Len(data) THEN 0 ELSE Len(taken')
  BY DEF Keep
<1>8. QED
  BY <1>3, <1>4, <1>5, <1>6, <1>7

\* The stash itself is what follows, and so is a chunk of the request being
\* read, behind the stash (_onFetchChunkArrival).
LEMMA StashIsNext == LoaderTypeOK /\ InPlace => IsNext(stash)
BY DEF LoaderTypeOK, InPlace, IsNext

LEMMA ChunkIsNext ==
    ASSUME LoaderTypeOK, OneRequest, InPlace,
           NEW r \in requests, ~r.aborted, NEW n \in Nat, r.received + n <= r.size
    PROVE  /\ IsNext(stash \o Chunk(r, n))
           /\ Len(stash \o Chunk(r, n)) = Len(stash) + n
           /\ stash = << >> => IsNext(Chunk(r, n)) /\ Len(Chunk(r, n)) = n /\ r.received = Len(taken)
<1>1. /\ r.received \in Nat /\ r.size \in 0..MaxSize /\ r.cycle = cycle
      /\ Len(taken) \in Nat /\ Len(stash) \in Nat /\ stash \in Seq(Byte)
      /\ r.received = Len(taken) + Len(stash)
      /\ cycle \in 1..MaxCycles /\ MaxSize \in Nat
  BY LenProperties, LoaderAssumption DEF LoaderTypeOK, OneRequest, InPlace
<1>2. ASSUME NEW i \in 1..n
      PROVE  /\ Chunk(r, n)[i] = <<cycle, r.received + i - 1>>
             /\ Chunk(r, n)[i] \in Byte
  <2>1. Chunk(r, n)[i] = <<cycle, r.received + i - 1>>
    BY <1>1 DEF Chunk
  <2>2. r.received + i - 1 \in 0..(MaxSize - 1)
    BY <1>1
  <2>3. QED
    BY <1>1, <2>1, <2>2 DEF Byte
<1>3. Chunk(r, n) \in Seq(Byte) /\ Len(Chunk(r, n)) = n
  <2>1. Chunk(r, n) \in [1..n -> Byte]
    BY <1>2 DEF Chunk
  <2>2. QED
    BY <2>1
<1>4. /\ stash \o Chunk(r, n) \in Seq(Byte)
      /\ Len(stash \o Chunk(r, n)) = Len(stash) + n
      /\ \A i \in 1..(Len(stash) + n) : (stash \o Chunk(r, n))[i]
            = IF i <= Len(stash) THEN stash[i] ELSE Chunk(r, n)[i - Len(stash)]
  <2> DEFINE c == Chunk(r, n)
  <2>1. c \in Seq(Byte) /\ Len(c) = n
    BY <1>3
  <2> HIDE DEF c
  <2>2. /\ stash \o c \in Seq(Byte)
        /\ Len(stash \o c) = Len(stash) + Len(c)
        /\ \A i \in 1..(Len(stash) + Len(c)) : (stash \o c)[i]
              = IF i <= Len(stash) THEN stash[i] ELSE c[i - Len(stash)]
    <3>1. stash \in Seq(Byte) /\ c \in Seq(Byte)
      BY <1>1, <2>1
    <3>2. QED
      BY <3>1, ConcatProperties, Zenon
  <2>3. QED
    BY <2>1, <2>2 DEF c
<1>5. ASSUME NEW i \in 1..(Len(stash) + n)
      PROVE  (stash \o Chunk(r, n))[i] = <<cycle, Len(taken) + i - 1>>
  <2>1. CASE i <= Len(stash)
    <3>1. i \in 1..Len(stash)
      BY <1>1, <2>1
    <3>2. stash[i] = <<cycle, Len(taken) + i - 1>>
      BY <3>1 DEF InPlace
    <3>3. QED
      BY <1>4, <2>1, <3>2
  <2>2. CASE ~(i <= Len(stash))
    <3> DEFINE j == i - Len(stash)
    <3>1. j \in 1..n /\ r.received + j - 1 = Len(taken) + i - 1
      BY <1>1, <2>2
    <3>2. (stash \o Chunk(r, n))[i] = Chunk(r, n)[j]
      BY <1>4, <2>2
    <3> HIDE DEF j
    <3>3. QED
      BY <1>2, <3>1, <3>2
  <2>3. QED
    BY <2>1, <2>2
<1>6. Len(taken) + (Len(stash) + n) <= MaxSize
  BY <1>1
<1>7. IsNext(stash \o Chunk(r, n))
  BY <1>4, <1>5, <1>6 DEF IsNext
<1>8. ASSUME stash = << >>
      PROVE  IsNext(Chunk(r, n)) /\ r.received = Len(taken)
  <2>1. Len(stash) = 0
    BY <1>8
  <2>2. r.received = Len(taken)
    BY <1>1, <2>1
  <2>3. \A i \in 1..Len(Chunk(r, n)) : Chunk(r, n)[i] = <<cycle, Len(taken) + i - 1>>
    BY <1>2, <1>3, <2>2
  <2>4. Len(taken) + n <= MaxSize
    BY <1>6, <1>1, <2>1
  <2>5. QED
    BY <1>3, <2>2, <2>3, <2>4 DEF IsNext
<1>9. QED
  BY <1>3, <1>4, <1>7, <1>8

-----------------------------------------------------------------------------
(* A step of the stash as a whole.                                           *)

\* What is taken and what is stashed, without the requests.
BytesInPlace ==
    /\ stash \in Seq(Byte) /\ stashByteStart \in 0..MaxSize /\ taken \in Seq(Item)
    /\ \A i \in 1..Len(taken) : taken[i] = [at |-> i - 1, byte |-> <<cycle, i - 1>>]
    /\ \A i \in 1..Len(stash) : stash[i] = <<cycle, Len(taken) + i - 1>>
    /\ stashByteStart = IF stash = << >> THEN 0 ELSE Len(taken)
    /\ Len(taken) + Len(stash) <= MaxSize

\* The consumer took the bytes that follow.
TakesNext == \E n \in 0..MaxSize : taken' = taken \o Feed!Following(cycle, taken, n)

LEMMA TakesNone == ASSUME LoaderTypeOK, taken' = taken PROVE TakesNext
<1>1. taken \in Seq(Item) /\ 0 \in 0..MaxSize
  BY LoaderAssumption DEF LoaderTypeOK, Item
<1>2. Feed!Following(cycle, taken, 0) = << >>
  BY DEF Feed!Following
<1>3. taken \o << >> = taken
  BY <1>1, ConcatEmptySeq
<1>4. QED
  BY <1>1, <1>2, <1>3 DEF TakesNext

\* The consumer is shown what follows, and what it leaves is stashed.
LEMMA FedInOrder ==
    ASSUME LoaderTypeOK, InPlace, NEW data, IsNext(data), NEW n \in 0..Len(data),
           Dispatch(data, Len(taken), n), Keep(data, n, Len(taken)), cycle' = cycle
    PROVE  BytesInPlace' /\ TakesNext /\ Len(taken') + Len(stash') = Len(taken) + Len(data)
<1>1. /\ Len(data) \in Nat /\ Len(taken) \in Nat /\ n \in Nat /\ MaxSize \in Nat
      /\ Len(taken) + Len(data) <= MaxSize
  BY LenProperties, LoaderAssumption DEF LoaderTypeOK, IsNext
<1>2. /\ taken' = taken \o Feed!Following(cycle, taken, n)
      /\ taken' \in Seq(Item)
      /\ Len(taken') = Len(taken) + n
      /\ \A i \in 1..Len(taken') : taken'[i] = [at |-> i - 1, byte |-> <<cycle, i - 1>>]
  BY DispatchInOrder
<1>3. /\ stash' \in Seq(Byte)
      /\ Len(stash') = Len(data) - n
      /\ \A i \in 1..Len(stash') : stash'[i] = <<cycle, Len(taken') + i - 1>>
      /\ stashByteStart' = IF stash' = << >> THEN 0 ELSE Len(taken')
  BY <1>2, KeepInOrder
<1>4. n \in 0..MaxSize /\ stashByteStart' \in 0..MaxSize
  BY <1>1, <1>2, <1>3
<1>5. TakesNext
  BY <1>2, <1>4 DEF TakesNext
<1>6. Len(taken') + Len(stash') = Len(taken) + Len(data)
  BY <1>1, <1>2, <1>3
<1>7. BytesInPlace'
  BY <1>1, <1>2, <1>3, <1>4, <1>6 DEF BytesInPlace
<1>8. QED
  BY <1>5, <1>6, <1>7

\* A load that fails shows its stash once more (_flushStashBuffer).
LEMMA FlushedInOrder ==
    ASSUME LoaderTypeOK, InPlace, FlushStash, cycle' = cycle
    PROVE  BytesInPlace' /\ TakesNext /\ Len(taken') + Len(stash') = Len(taken) + Len(stash)
<1>1. CASE stash = << >>
  <2>1. UNCHANGED <<stash, stashByteStart, taken>>
    BY <1>1 DEF FlushStash
  <2>2. BytesInPlace
    BY DEF LoaderTypeOK, InPlace, BytesInPlace, Item
  <2>3. BytesInPlace'
    BY <2>1, <2>2 DEF BytesInPlace
  <2>4. QED
    BY <2>1, <2>3, TakesNone
<1>2. CASE stash # << >>
  <2>1. PICK n \in Takes(stash) :
            Dispatch(stash, stashByteStart, n) /\ Keep(stash, n, stashByteStart)
    BY <1>2 DEF FlushStash
  <2>2. stashByteStart = Len(taken) /\ n \in 0..Len(stash)
    BY <1>2 DEF InPlace, Takes
  <2>3. QED
    BY <2>1, <2>2, StashIsNext, FedInOrder
<1>3. QED
  BY <1>1, <1>2

\* A chunk goes behind the stash (_onFetchChunkArrival).
LEMMA ArrivedInOrder ==
    ASSUME LoaderTypeOK, OneRequest, InPlace, cycle' = cycle,
           NEW r \in requests, ~r.aborted, NEW n \in Nat, r.received + n <= r.size,
           Arrive(Chunk(r, n), r.received)
    PROVE  BytesInPlace' /\ TakesNext /\ Len(taken') + Len(stash') = r.received + n
<1>1. /\ Len(taken) \in Nat /\ Len(stash) \in Nat
      /\ r.received = Len(taken) + Len(stash)
  BY LenProperties DEF LoaderTypeOK, InPlace
<1>2. CASE stash = << >>
  <2>1. PICK k \in Takes(Chunk(r, n)) :
            Dispatch(Chunk(r, n), r.received, k) /\ Keep(Chunk(r, n), k, r.received)
    BY <1>2 DEF Arrive
  <2>2. k \in 0..Len(Chunk(r, n))
    BY DEF Takes
  <2>3. IsNext(Chunk(r, n)) /\ Len(Chunk(r, n)) = n /\ r.received = Len(taken)
    BY <1>2, ChunkIsNext
  <2>4. QED
    BY <2>1, <2>2, <2>3, FedInOrder
<1>3. CASE stash # << >>
  <2> DEFINE data == stash \o Chunk(r, n)
  <2>1. PICK k \in Takes(data) :
            Dispatch(data, stashByteStart, k) /\ Keep(data, k, stashByteStart)
    BY <1>3 DEF Arrive
  <2>2. k \in 0..Len(data) /\ stashByteStart = Len(taken)
    BY <1>3 DEF Takes, InPlace
  <2>3. IsNext(data) /\ Len(data) = Len(stash) + n
    BY ChunkIsNext
  <2> HIDE DEF data
  <2>4. BytesInPlace' /\ TakesNext /\ Len(taken') + Len(stash') = Len(taken) + Len(data)
    BY <2>1, <2>2, <2>3, FedInOrder
  <2>5. QED
    BY <1>1, <2>3, <2>4
<1>4. QED
  BY <1>2, <1>3

\* At the end of a body the consumer is shown the stash and the rest is dropped
\* (_onFetchComplete).
LEMMA DrainedInOrder ==
    ASSUME LoaderTypeOK, InPlace, cycle' = cycle, NEW n \in Takes(stash),
           Dispatch(stash, stashByteStart, n), stash' = << >>, stashByteStart' = 0
    PROVE  BytesInPlace' /\ TakesNext /\ Len(taken') = Len(taken) + n
<1>1. /\ Len(taken) \in Nat /\ Len(stash) \in Nat /\ n \in 0..Len(stash) /\ MaxSize \in Nat
      /\ Len(taken) + Len(stash) <= MaxSize /\ taken \in Seq(Item)
  BY LenProperties, LoaderAssumption DEF LoaderTypeOK, InPlace, Takes, Item
<1>2. Dispatch(stash, Len(taken), n)
  <2>1. CASE stash = << >>
    <3>1. n = 0
      BY <1>1, <2>1
    <3>2. [i \in 1..n |-> [at |-> stashByteStart + i - 1, byte |-> stash[i]]]
            = [i \in 1..n |-> [at |-> Len(taken) + i - 1, byte |-> stash[i]]]
      BY <3>1
    <3>3. QED
      BY <3>2 DEF Dispatch
  <2>2. CASE stash # << >>
    BY <2>2 DEF InPlace
  <2>3. QED
    BY <2>1, <2>2
<1>3. /\ taken' = taken \o Feed!Following(cycle, taken, n)
      /\ taken' \in Seq(Item)
      /\ Len(taken') = Len(taken) + n
      /\ \A i \in 1..Len(taken') : taken'[i] = [at |-> i - 1, byte |-> <<cycle, i - 1>>]
  BY <1>1, <1>2, StashIsNext, DispatchInOrder
<1>4. n \in 0..MaxSize /\ Len(stash') = 0
  BY <1>1
<1>5. TakesNext
  BY <1>3, <1>4 DEF TakesNext
<1>6. BytesInPlace'
  BY <1>1, <1>3, <1>4 DEF BytesInPlace
<1>7. QED
  BY <1>3, <1>5, <1>6

-----------------------------------------------------------------------------
(* The requests.                                                             *)

RequestSet(c) ==
    [cycle : 1..c, phase : {"connecting", "text", "reading"},
     received : 0..MaxSize, size : 0..MaxSize, announced : BOOLEAN, aborted : BOOLEAN]

\* The invariant but for the bytes and the requests.
ScalarsOK ==
    /\ live \in BOOLEAN /\ paused \in BOOLEAN
    /\ status \in {"idle", "connecting", "buffering", "error"}
    /\ cycle \in 1..MaxCycles
    /\ outcome \in Outcomes \cup {"none"}
    /\ final \in [size : 0..MaxSize, dropped : 0..MaxSize, announced : BOOLEAN]
    /\ paused => stash = << >>

\* The request that is not aborted, if there is one.
RequestsOK ==
    /\ requests \subseteq RequestSet(cycle)
    /\ OneRequest
    /\ \A r \in requests : ~r.aborted => r.received = Len(taken) + Len(stash) /\ r.received <= r.size

LEMMA InvariantParts == LoaderInv <=> BytesInPlace /\ ScalarsOK /\ RequestsOK
BY DEF LoaderInv, LoaderTypeOK, InPlace, BytesInPlace, ScalarsOK, RequestsOK, RequestSet, Item

LEMMA InvariantPartsNext ==
    ASSUME BytesInPlace', ScalarsOK', RequestsOK' PROVE LoaderInv'
BY DEF LoaderInv, LoaderTypeOK, InPlace, BytesInPlace, ScalarsOK, RequestsOK, RequestSet, Item

LEMMA AllAborted ==
    ASSUME requests' \subseteq RequestSet(cycle'), \A q \in requests' : q.aborted
    PROVE  RequestsOK'
BY DEF RequestsOK, OneRequest

LEMMA Unchanged ==
    ASSUME BytesInPlace, UNCHANGED <<stash, stashByteStart, taken, cycle>> PROVE BytesInPlace'
BY DEF BytesInPlace

\* Once the current request has settled, nothing is read any more.
LEMMA SettledIsLast ==
    ASSUME RequestsOK, NEW r \in requests, ~r.aborted
    PROVE  Settled(r) \subseteq RequestSet(cycle) /\ \A q \in Settled(r) : q.aborted
<1>1. \A q \in requests : ~q.aborted => q = r
  BY DEF RequestsOK, OneRequest
<1>2. QED
  BY <1>1 DEF RequestsOK, Settled

LEMMA AbortAll ==
    ASSUME RequestsOK
    PROVE  /\ {[r EXCEPT !.aborted = TRUE] : r \in requests} \subseteq RequestSet(cycle)
           /\ \A q \in {[r EXCEPT !.aborted = TRUE] : r \in requests} : q.aborted
<1> SUFFICES ASSUME NEW r \in requests
             PROVE  [r EXCEPT !.aborted = TRUE] \in RequestSet(cycle) /\ [r EXCEPT !.aborted = TRUE].aborted
  OBVIOUS
<1>1. r \in RequestSet(cycle)
  BY DEF RequestsOK
<1>2. QED
  BY <1>1 DEF RequestSet

\* A step that replaces the current request.
LEMMA Replaced ==
    ASSUME RequestsOK, NEW r \in requests, ~r.aborted,
           NEW q \in RequestSet(cycle), ~q.aborted, q.cycle = cycle, cycle' = cycle,
           requests' = Settled(r) \cup {q},
           ~paused',
           q.phase # "text" => outcome' = "none" /\ status' \in {"connecting", "buffering"},
           q.phase # "reading" => q.received = 0,
           q.received = Len(taken') + Len(stash'), q.received <= q.size
    PROVE  RequestsOK'
<1>1. Settled(r) \subseteq RequestSet(cycle) /\ \A p \in Settled(r) : p.aborted
  BY SettledIsLast
<1>2. \A p \in requests' : ~p.aborted => p = q
  BY <1>1
<1>3. requests' \subseteq RequestSet(cycle')
  BY <1>1
<1>4. OneRequest'
  BY <1>2 DEF OneRequest
<1>5. QED
  BY <1>2, <1>3, <1>4 DEF RequestsOK

-----------------------------------------------------------------------------
(* The steps.  Each keeps the invariant and is one of ByteFeed's or none of  *)
(* its business.                                                             *)

FeedStep == Feed!Next \/ UNCHANGED Feed!feedVars

LEMMA TakeIsFeedStep ==
    ASSUME outcome = "none", outcome' \in Outcomes \cup {"none"}, cycle' = cycle, TakesNext
    PROVE  FeedStep
BY DEF FeedStep, TakesNext, Feed!Next, Feed!Take

LEMMA InitHolds == LoaderInit => LoaderInv
<1> SUFFICES ASSUME LoaderInit PROVE LoaderInv
  OBVIOUS
<1>1. PICK size \in 0..MaxSize, announced \in BOOLEAN : requests = {Request(1, size, announced)}
  BY DEF LoaderInit
<1>2. Request(1, size, announced) \in RequestSet(1)
  BY LoaderAssumption DEF Request, RequestSet
<1>3. ScalarsOK
  <2>1. NoFinal \in [size : 0..MaxSize, dropped : 0..MaxSize, announced : BOOLEAN]
    BY LoaderAssumption DEF NoFinal
  <2>2. 1 \in 1..MaxCycles
    BY LoaderAssumption
  <2>3. QED
    BY <2>1, <2>2 DEF LoaderInit, ScalarsOK
<1>4. BytesInPlace
  BY LoaderAssumption, EmptySeq DEF LoaderInit, BytesInPlace
<1>5. RequestsOK
  <2> DEFINE r == Request(1, size, announced)
  <2>1. /\ r.cycle = 1 /\ r.phase = "connecting" /\ r.received = 0 /\ r.size \in 0..MaxSize
    BY DEF Request
  <2>2. requests = {r} /\ r \in RequestSet(1)
    BY <1>1, <1>2
  <2>3. cycle = 1 /\ ~paused /\ status = "connecting" /\ outcome = "none"
        /\ Len(taken) = 0 /\ Len(stash) = 0
    BY DEF LoaderInit
  <2> HIDE DEF r
  <2>4. QED
    BY <2>1, <2>2, <2>3, LoaderAssumption DEF RequestsOK, OneRequest
<1>6. QED
  BY <1>3, <1>4, <1>5, InvariantParts

\* A load fails.
LEMMA FailStep ==
    ASSUME LoaderInv, NEW r \in requests, Current(r), Fail(r)
    PROVE  LoaderInv' /\ FeedStep
<1>1. BytesInPlace /\ ScalarsOK /\ RequestsOK
  BY InvariantParts
<1>2. ~r.aborted /\ outcome = "none" /\ requests' = Settled(r) /\ cycle' = cycle
  BY DEF Current, Fail, Destroyed, Unreported
<1>3. RequestsOK'
  BY <1>1, <1>2, SettledIsLast, AllAborted
<1>4. ~paused
  BY <1>1, <1>2 DEF RequestsOK, OneRequest
<1>5. CASE FlushStash /\ Destroyed("error") /\ UNCHANGED final
  <2>1. BytesInPlace' /\ TakesNext
    BY <1>2, <1>5, FlushedInOrder DEF LoaderInv
  <2>2. ScalarsOK'
    BY <1>1, <1>4, <1>5 DEF ScalarsOK, Destroyed, Outcomes
  <2>3. FeedStep
    BY <1>2, <1>5, <2>1, TakeIsFeedStep DEF Destroyed, Outcomes
  <2>4. QED
    BY <1>3, <2>1, <2>2, <2>3, InvariantPartsNext
<1>6. CASE Unreported /\ UNCHANGED final
  <2>1. BytesInPlace'
    BY <1>1, <1>6, Unchanged DEF Unreported
  <2>2. ScalarsOK'
    BY <1>1, <1>6 DEF ScalarsOK, Unreported
  <2>3. UNCHANGED Feed!feedVars
    BY <1>6 DEF Unreported, Feed!feedVars
  <2>4. QED
    BY <1>3, <2>1, <2>2, <2>3, InvariantPartsNext DEF FeedStep
<1>7. QED
  BY <1>5, <1>6 DEF Fail

LEMMA ChunkStep ==
    ASSUME LoaderInv, NEW r \in requests, NEW n \in 1..MaxChunk, ChunkArrives(r, n)
    PROVE  LoaderInv' /\ FeedStep
<1>1. BytesInPlace /\ ScalarsOK /\ RequestsOK
  BY InvariantParts
<1>2. /\ ~r.aborted /\ outcome = "none" /\ r.phase = "reading" /\ r.received + n <= r.size
      /\ n \in Nat /\ requests' = Settled(r) \cup {[r EXCEPT !.received = @ + n]}
      /\ status' = "buffering" /\ Arrive(Chunk(r, n), r.received)
      /\ UNCHANGED <<live, paused, cycle, outcome, final>>
  BY LoaderAssumption DEF ChunkArrives, Current
<1>3. BytesInPlace' /\ TakesNext /\ Len(taken') + Len(stash') = r.received + n
  BY <1>2, ArrivedInOrder DEF LoaderInv
<1>4. ~paused /\ r.cycle = cycle /\ r \in RequestSet(cycle)
  BY <1>1, <1>2 DEF RequestsOK, OneRequest
<1>5. ScalarsOK'
  BY <1>1, <1>2, <1>4 DEF ScalarsOK
<1>6. RequestsOK'
  <2> DEFINE q == [r EXCEPT !.received = @ + n]
  <2>1. r.received + n \in 0..MaxSize
    BY <1>2, <1>4, LoaderAssumption DEF RequestSet
  <2>2. /\ q \in RequestSet(cycle) /\ ~q.aborted /\ q.cycle = cycle /\ q.phase = "reading"
        /\ q.received = r.received + n /\ q.size = r.size
    BY <1>2, <1>4, <2>1 DEF RequestSet
  <2>3. requests' = Settled(r) \cup {q}
    BY <1>2
  <2> HIDE DEF q
  <2>4. QED
    BY <1>1, <1>2, <1>3, <1>4, <2>2, <2>3, Replaced
<1>7. FeedStep
  BY <1>2, <1>3, TakeIsFeedStep
<1>8. QED
  BY <1>3, <1>5, <1>6, <1>7, InvariantPartsNext

LEMMA BodyEndsStep ==
    ASSUME LoaderInv, NEW r \in requests, BodyEnds(r)
    PROVE  LoaderInv' /\ FeedStep
<1>1. BytesInPlace /\ ScalarsOK /\ RequestsOK
  BY InvariantParts
<1>2. Current(r) /\ ~r.aborted /\ outcome = "none"
  BY DEF BodyEnds, Current
<1>3. CASE r.announced /\ r.received < r.size
  BY <1>2, <1>3, FailStep DEF BodyEnds
<1>4. CASE ~(r.announced /\ r.received < r.size)
  <2>1. /\ requests' = Settled(r) /\ stash' = << >> /\ stashByteStart' = 0
        /\ Destroyed("complete")
    BY <1>4 DEF BodyEnds
  <2>2. PICK n \in Takes(stash) :
          /\ Dispatch(stash, stashByteStart, n)
          /\ final' = [size |-> r.size, dropped |-> Len(stash) - n, announced |-> r.announced]
    BY <1>4 DEF BodyEnds
  <2>3. BytesInPlace' /\ TakesNext
    BY <2>1, <2>2, DrainedInOrder DEF LoaderInv, Destroyed
  <2>4. r \in RequestSet(cycle)
    BY <1>1 DEF RequestsOK
  <2>5. Len(stash) - n \in 0..MaxSize
    BY <1>1, LenProperties, LoaderAssumption DEF BytesInPlace, Takes
  <2>6. ScalarsOK'
    BY <1>1, <2>1, <2>2, <2>4, <2>5 DEF ScalarsOK, Destroyed, Outcomes, RequestSet
  <2>7. RequestsOK'
    BY <1>1, <1>2, <2>1, SettledIsLast, AllAborted DEF Destroyed
  <2>8. FeedStep
    BY <1>2, <2>1, <2>3, TakeIsFeedStep DEF Destroyed, Outcomes
  <2>9. QED
    BY <2>3, <2>6, <2>7, <2>8, InvariantPartsNext
<1>5. QED
  BY <1>3, <1>4

\* The answers that leave the bytes alone.
LEMMA ResponseStep ==
    ASSUME LoaderInv, NEW r \in requests,
           ResponseArrives(r) \/ PlaylistFound(r) \/ PlaylistRead(r)
    PROVE  LoaderInv' /\ FeedStep
<1>1. BytesInPlace /\ ScalarsOK /\ RequestsOK /\ LoaderTypeOK
  BY InvariantParts DEF LoaderInv
<1>2. /\ ~r.aborted /\ outcome = "none"
      /\ UNCHANGED <<stash, stashByteStart, taken, cycle, live, paused, final>>
  BY DEF Current, ResponseArrives, PlaylistFound, PlaylistRead, Destroyed
<1>3. BytesInPlace' /\ TakesNext
  BY <1>1, <1>2, Unchanged, TakesNone
<1>4. ScalarsOK'
  BY <1>1, <1>2 DEF ScalarsOK, ResponseArrives, PlaylistFound, PlaylistRead, Destroyed, Outcomes
<1>5. FeedStep
  BY <1>1, <1>2, <1>3, <1>4, TakeIsFeedStep DEF ScalarsOK
<1>6. /\ r \in RequestSet(cycle) /\ r.cycle = cycle /\ ~paused
      /\ r.received = Len(taken) + Len(stash) /\ r.received <= r.size
      /\ r.phase # "reading" => r.received = 0
      /\ r.phase # "text" => status \in {"connecting", "buffering"}
  BY <1>1, <1>2 DEF RequestsOK, OneRequest
<1>7. CASE ResponseArrives(r)
  <2> DEFINE q == [r EXCEPT !.phase = "reading"]
  <2>1. /\ q \in RequestSet(cycle) /\ ~q.aborted /\ q.cycle = cycle /\ q.phase = "reading"
        /\ q.received = r.received /\ q.size = r.size
    BY <1>2, <1>6 DEF RequestSet
  <2>2. /\ requests' = Settled(r) \cup {q} /\ status' \in {"connecting", "buffering"} /\ outcome' = "none"
    BY <1>6, <1>7 DEF ResponseArrives, Current
  <2> HIDE DEF q
  <2>3. RequestsOK'
    BY <1>1, <1>2, <1>6, <2>1, <2>2, Replaced
  <2>4. QED
    BY <1>3, <1>4, <1>5, <2>3, InvariantPartsNext
<1>8. CASE PlaylistFound(r)
  <2> DEFINE q == [r EXCEPT !.phase = "text"]
  <2>1. /\ q \in RequestSet(cycle) /\ ~q.aborted /\ q.cycle = cycle /\ q.phase = "text"
        /\ q.received = r.received /\ q.size = r.size /\ q.received = 0
    BY <1>2, <1>6, <1>8 DEF RequestSet, PlaylistFound
  <2>2. requests' = Settled(r) \cup {q}
    BY <1>8 DEF PlaylistFound
  <2> HIDE DEF q
  <2>3. RequestsOK'
    BY <1>1, <1>2, <1>6, <2>1, <2>2, Replaced
  <2>4. QED
    BY <1>3, <1>4, <1>5, <2>3, InvariantPartsNext
<1>9. CASE PlaylistRead(r)
  <2>1. RequestsOK'
    BY <1>1, <1>2, <1>9, SettledIsLast, AllAborted DEF PlaylistRead
  <2>2. QED
    BY <1>3, <1>4, <1>5, <2>1, InvariantPartsNext
<1>10. QED
  BY <1>7, <1>8, <1>9

\* A request settles that nobody reads.
LEMMA SettleStep ==
    ASSUME LoaderInv, NEW r \in requests, StaleRead(r) \/ Forgotten(r)
    PROVE  LoaderInv' /\ FeedStep
<1>1. BytesInPlace /\ ScalarsOK /\ RequestsOK
  BY InvariantParts
<1>2. /\ requests' = Settled(r)
      /\ UNCHANGED <<live, status, paused, stash, stashByteStart, cycle, taken, outcome, final>>
  BY DEF StaleRead, Forgotten
<1>3. BytesInPlace'
  BY <1>1, <1>2, Unchanged
<1>4. ScalarsOK'
  BY <1>1, <1>2 DEF ScalarsOK
<1>5. RequestsOK'
  BY <1>1, <1>2 DEF RequestsOK, OneRequest, Settled
<1>6. FeedStep
  BY <1>2 DEF FeedStep, Feed!feedVars
<1>7. QED
  BY <1>3, <1>4, <1>5, <1>6, InvariantPartsNext

\* Pause and Cancel abort every request and empty the stash.
LEMMA StashDropped ==
    ASSUME LoaderTypeOK, InPlace, UNCHANGED <<taken, cycle>>, stash' = << >>, stashByteStart' = 0
    PROVE  BytesInPlace' /\ TakesNext
<1>1. Len(taken) \in Nat /\ Len(stash) \in Nat /\ taken \in Seq(Item) /\ MaxSize \in Nat
  BY LenProperties, LoaderAssumption DEF LoaderTypeOK, Item
<1>2. Len(stash') = 0 /\ Len(taken) + 0 <= MaxSize
  BY <1>1 DEF InPlace
<1>3. BytesInPlace'
  BY <1>1, <1>2 DEF BytesInPlace, InPlace
<1>4. QED
  BY <1>3, TakesNone

LEMMA PauseStep ==
    ASSUME LoaderInv, Pause
    PROVE  LoaderInv' /\ FeedStep
<1>1. BytesInPlace /\ ScalarsOK /\ RequestsOK /\ LoaderTypeOK /\ InPlace
  BY InvariantParts DEF LoaderInv
<1>2. BytesInPlace'
  BY <1>1, StashDropped DEF Pause
<1>3. ScalarsOK'
  BY <1>1 DEF ScalarsOK, Pause
<1>4. RequestsOK'
  BY <1>1, AbortAll, AllAborted DEF Pause
<1>5. FeedStep
  BY DEF FeedStep, Feed!feedVars, Pause
<1>6. QED
  BY <1>2, <1>3, <1>4, <1>5, InvariantPartsNext

LEMMA ResumeStep ==
    ASSUME LoaderInv, Resume
    PROVE  LoaderInv' /\ FeedStep
<1>1. BytesInPlace /\ ScalarsOK /\ RequestsOK
  BY InvariantParts
<1>2. /\ paused /\ outcome = "none" /\ cycle < MaxCycles /\ paused' = FALSE
      /\ cycle' = cycle + 1 /\ taken' = << >> /\ StartFetch(cycle + 1)
      /\ UNCHANGED <<live, stash, stashByteStart, outcome, final>>
  BY DEF Resume
<1>3. /\ stash = << >> /\ stashByteStart = 0 /\ Len(stash') = 0 /\ Len(taken') = 0
      /\ cycle \in Nat /\ cycle + 1 \in 1..MaxCycles /\ MaxSize \in Nat
  BY <1>1, <1>2, LoaderAssumption DEF ScalarsOK, BytesInPlace
<1>4. BytesInPlace'
  <2>1. taken' \in Seq(Item) /\ stash' \in Seq(Byte) /\ stashByteStart' = 0
    BY <1>2, <1>3
  <2>2. QED
    BY <1>2, <1>3, <2>1 DEF BytesInPlace
<1>5. PICK size \in 0..MaxSize, announced \in BOOLEAN :
          requests' = {[r EXCEPT !.aborted = TRUE] : r \in requests}
                            \cup {Request(cycle + 1, size, announced)}
  BY <1>2 DEF StartFetch
<1>6. ScalarsOK'
  BY <1>1, <1>2, <1>3 DEF ScalarsOK, StartFetch
<1>7. RequestsOK'
  <2> DEFINE old == {[r EXCEPT !.aborted = TRUE] : r \in requests}
             new == Request(cycle + 1, size, announced)
  <2>1. old \subseteq RequestSet(cycle) /\ \A q \in old : q.aborted
    BY <1>1, AbortAll
  <2>2. RequestSet(cycle) \subseteq RequestSet(cycle + 1)
    <3>1. 1..cycle \subseteq 1..(cycle + 1)
      BY <1>3
    <3>2. QED
      BY <3>1 DEF RequestSet
  <2>3. /\ new \in RequestSet(cycle + 1) /\ new.cycle = cycle + 1 /\ new.phase = "connecting"
        /\ new.received = 0 /\ new.size \in 0..MaxSize
    BY <1>3 DEF Request, RequestSet
  <2>4. requests' = old \cup {new} /\ status' = "connecting"
    BY <1>2, <1>5 DEF StartFetch
  <2> HIDE DEF old, new
  <2>5. requests' \subseteq RequestSet(cycle')
    BY <1>2, <2>1, <2>2, <2>3, <2>4
  <2>6. \A q \in requests' : ~q.aborted => q = new
    BY <2>1, <2>4
  <2>7. OneRequest'
    BY <1>2, <2>3, <2>4, <2>6 DEF OneRequest
  <2>8. \A q \in requests' : ~q.aborted => q.received = Len(taken') + Len(stash') /\ q.received <= q.size
    BY <1>3, <2>3, <2>6
  <2>9. QED
    BY <2>5, <2>7, <2>8 DEF RequestsOK
<1>8. FeedStep
  BY <1>2 DEF FeedStep, Feed!Next, Feed!Restart
<1>9. QED
  BY <1>4, <1>6, <1>7, <1>8, InvariantPartsNext

\* What destroy leaves is at most the text of a playlist (Forgotten): when the
\* loader is not working it is paused, or has found a playlist.
LEMMA CancelStep ==
    ASSUME LoaderInv, Cancel
    PROVE  LoaderInv' /\ FeedStep
<1>1. BytesInPlace /\ ScalarsOK /\ RequestsOK /\ LoaderTypeOK /\ InPlace
  BY InvariantParts DEF LoaderInv
<1>2. /\ outcome = "none" /\ stash' = << >> /\ stashByteStart' = 0
      /\ Destroyed("cancelled") /\ UNCHANGED <<taken, final, cycle, live, paused>>
  BY DEF Cancel, Destroyed
<1>3. BytesInPlace' /\ TakesNext
  BY <1>1, <1>2, StashDropped
<1>4. ScalarsOK'
  BY <1>1, <1>2 DEF ScalarsOK, Destroyed, Outcomes
<1>5. FeedStep
  BY <1>2, <1>3, TakeIsFeedStep DEF Destroyed, Outcomes
<1>6. RequestsOK'
  <2>1. CASE Working
    BY <1>1, <1>2, <2>1, AbortAll, AllAborted DEF Cancel
  <2>2. CASE ~Working
    <3>1. requests' = requests
      BY <2>2 DEF Cancel
    <3>2. ASSUME NEW r \in requests, ~r.aborted
          PROVE  r.phase = "text" /\ r.received = 0 /\ r.received <= r.size /\ ~paused
      BY <1>1, <1>2, <2>2, <3>2 DEF RequestsOK, OneRequest, Working, ScalarsOK
    <3>3. ASSUME NEW r \in requests, ~r.aborted
          PROVE  r.received = Len(taken') + Len(stash')
      <4>1. r.received = Len(taken) + Len(stash) /\ r.received = 0
        BY <1>1, <3>2, <3>3 DEF RequestsOK
      <4>2. Len(taken) \in Nat /\ Len(stash) \in Nat
        BY <1>1, LenProperties DEF LoaderTypeOK
      <4>3. Len(taken) = 0 /\ Len(stash') = 0
        BY <1>2, <4>1, <4>2
      <4>4. QED
        BY <1>2, <4>1, <4>3
    <3>4. OneRequest'
      BY <1>1, <1>2, <3>1, <3>2 DEF RequestsOK, OneRequest
    <3>5. QED
      BY <1>1, <1>2, <3>1, <3>2, <3>3, <3>4 DEF RequestsOK
  <2>3. QED
    BY <2>1, <2>2
<1>7. QED
  BY <1>3, <1>4, <1>5, <1>6, InvariantPartsNext

LEMMA LoaderStep == LoaderInv /\ [LoaderNext]_loaderVars => LoaderInv' /\ FeedStep
<1> SUFFICES ASSUME LoaderInv, [LoaderNext]_loaderVars PROVE LoaderInv' /\ FeedStep
  OBVIOUS
<1>1. ASSUME NEW r \in requests, Answer(r) PROVE LoaderInv' /\ FeedStep
  <2>1. CASE ResponseArrives(r) \/ PlaylistFound(r) \/ PlaylistRead(r)
    BY <2>1, ResponseStep
  <2>2. CASE RequestFails(r)
    BY <2>2, FailStep DEF RequestFails
  <2>3. CASE BodyEnds(r)
    BY <2>3, BodyEndsStep
  <2>4. CASE \E n \in 1..MaxChunk : ChunkArrives(r, n)
    BY <2>4, ChunkStep
  <2>5. QED
    BY <1>1, <2>1, <2>2, <2>3, <2>4 DEF Answer
<1>2. ASSUME NEW r \in requests, StaleRead(r) \/ Forgotten(r) PROVE LoaderInv' /\ FeedStep
  BY <1>2, SettleStep
<1>3. ASSUME NEW r \in requests, NEW n \in 1..MaxChunk, ConsumerThrows(r, n)
      PROVE  LoaderInv' /\ FeedStep
  BY <1>3, FailStep DEF ConsumerThrows
<1>4. CASE Pause
  BY <1>4, PauseStep
<1>5. CASE Resume
  BY <1>5, ResumeStep
<1>6. CASE Cancel
  BY <1>6, CancelStep
<1>7. CASE UNCHANGED loaderVars
  <2>1. UNCHANGED <<live, status, paused, requests, stash, stashByteStart, cycle, taken, outcome, final>>
    BY <1>7 DEF loaderVars, loader
  <2>2. BytesInPlace /\ ScalarsOK /\ RequestsOK
    BY InvariantParts
  <2>3. BytesInPlace' /\ ScalarsOK' /\ RequestsOK'
    BY <2>1, <2>2 DEF BytesInPlace, ScalarsOK, RequestsOK, OneRequest
  <2>4. FeedStep
    BY <2>1 DEF FeedStep, Feed!feedVars
  <2>5. QED
    BY <2>3, <2>4, InvariantPartsNext
<1>8. QED
  BY <1>1, <1>2, <1>3, <1>4, <1>5, <1>6, <1>7 DEF LoaderNext

-----------------------------------------------------------------------------
(* The theorems.                                                             *)

\* Whatever the network, the pipeline and the consumer do: at most one request is
\* not aborted, and what was taken, stashed and is still to come is in its place.
THEOREM LoaderInvariant == LoaderSpec => []LoaderInv
<1>1. LoaderInv /\ [LoaderNext]_loaderVars => LoaderInv'
  BY LoaderStep
<1>2. QED
  BY InitHolds, <1>1, PTL DEF LoaderSpec

\* The loader implements ByteFeed: the bytes of a cycle reach the consumer in
\* order, each once and under its true position, and after an outcome nothing.
THEOREM LoaderFeedsInOrder == LoaderSpec => FeedsInOrder
<1>1. LoaderInit => Feed!Init
  BY DEF LoaderInit, Feed!Init
<1>2. LoaderInv /\ [LoaderNext]_loaderVars => [Feed!Next]_(Feed!feedVars)
  BY LoaderStep DEF FeedStep
<1>3. QED
  BY <1>1, <1>2, LoaderInvariant, PTL DEF LoaderSpec, FeedsInOrder, Feed!Spec

\* A load that reports "complete" has shown its consumer all of an announced
\* length, and dropped less than a packet of it.
THEOREM CompleteMeansWhole == LoaderSpec => []CompleteIsWhole
<1>1. LoaderInit => CompleteIsWhole
  BY DEF LoaderInit, CompleteIsWhole
<1>2. LoaderInv /\ CompleteIsWhole /\ [LoaderNext]_loaderVars => CompleteIsWhole'
  <2> SUFFICES ASSUME LoaderInv, CompleteIsWhole, [LoaderNext]_loaderVars, outcome' = "complete", final'.announced
               PROVE  Len(taken') + final'.dropped = final'.size /\ final'.dropped < Packet
    BY DEF CompleteIsWhole
  <2>1. CASE UNCHANGED <<taken, outcome, final>>
    BY <2>1 DEF CompleteIsWhole
  <2>2. CASE \E r \in requests : BodyEnds(r) /\ ~(r.announced /\ r.received < r.size)
    <3>1. PICK r \in requests : BodyEnds(r) /\ ~(r.announced /\ r.received < r.size)
      BY <2>2
    <3>2. PICK n \in Takes(stash) :
            /\ Dispatch(stash, stashByteStart, n)
            /\ final' = [size |-> r.size, dropped |-> Len(stash) - n, announced |-> r.announced]
      BY <3>1 DEF BodyEnds
    <3>3. /\ ~r.aborted /\ stash' = << >> /\ stashByteStart' = 0 /\ cycle' = cycle
      BY <3>1 DEF BodyEnds, Current, Destroyed
    <3>4. Len(taken') = Len(taken) + n
      BY <3>2, <3>3, DrainedInOrder DEF LoaderInv
    <3>5. r.received = r.size /\ r.received = Len(taken) + Len(stash)
      <4>1. r.received \in 0..MaxSize /\ r.size \in 0..MaxSize /\ r.received <= r.size
        BY <3>3 DEF LoaderInv, LoaderTypeOK, InPlace
      <4>2. r.announced
        BY <3>2
      <4>3. QED
        BY <3>1, <3>3, <4>1, <4>2, LoaderAssumption DEF LoaderInv, InPlace
    <3>6. Len(taken) \in Nat /\ Len(stash) \in Nat /\ n \in 0..Len(stash) /\ Len(stash) - n < Packet
      BY LenProperties DEF LoaderInv, LoaderTypeOK, Takes
    <3>7. final'.dropped = Len(stash) - n /\ final'.size = r.size
      BY <3>2
    <3>8. Len(taken) + n + (Len(stash) - n) = r.size
      BY <3>5, <3>6
    <3>9. QED
      BY <3>4, <3>6, <3>7, <3>8
  <2>3. QED
    <3>1. ASSUME NEW r \in requests, Current(r), Fail(r) PROVE FALSE
      BY <3>1 DEF Current, Fail, Destroyed, Unreported
    <3>2. ASSUME NEW r \in requests, Answer(r)
          PROVE  \/ UNCHANGED <<taken, outcome, final>>
                 \/ BodyEnds(r) /\ ~(r.announced /\ r.received < r.size)
      <4>1. ~RequestFails(r)
        BY <3>1 DEF RequestFails
      <4>2. ~PlaylistRead(r)
        BY DEF PlaylistRead, Destroyed
      <4>3. ASSUME NEW n \in 1..MaxChunk, ChunkArrives(r, n) PROVE FALSE
        BY <4>3 DEF ChunkArrives, Current
      <4>4. CASE ResponseArrives(r) \/ PlaylistFound(r)
        BY <4>4 DEF ResponseArrives, PlaylistFound
      <4>5. CASE BodyEnds(r)
        BY <3>1, <4>5 DEF BodyEnds
      <4>6. QED
        BY <3>2, <4>1, <4>2, <4>3, <4>4, <4>5 DEF Answer
    <3>3. ASSUME NEW r \in requests, StaleRead(r) \/ Forgotten(r) PROVE UNCHANGED <<taken, outcome, final>>
      BY <3>3 DEF StaleRead, Forgotten
    <3>4. ASSUME NEW r \in requests, NEW n \in 1..MaxChunk, ConsumerThrows(r, n) PROVE FALSE
      BY <3>1, <3>4 DEF ConsumerThrows
    <3>5. Pause => UNCHANGED <<taken, outcome, final>>
      BY DEF Pause
    <3>6. ~Resume
      BY DEF Resume
    <3>7. ~Cancel
      BY DEF Cancel, Destroyed
    <3>8. UNCHANGED loaderVars => UNCHANGED <<taken, outcome, final>>
      BY DEF loaderVars
    <3>9. QED
      BY <2>1, <2>2, <3>2, <3>3, <3>4, <3>5, <3>6, <3>7, <3>8 DEF LoaderNext
<1>3. QED
  BY <1>1, <1>2, LoaderInvariant, PTL DEF LoaderSpec
=============================================================================
