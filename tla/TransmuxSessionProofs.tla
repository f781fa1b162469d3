----------------------- MODULE TransmuxSessionProofs ------------------------
(* A playback session across its two threads, for every length of the two    *)
(* channels, any number of loads and any list of segments.                   *)
EXTENDS TransmuxSession, SequenceTheorems, TLAPS

LEMMA Constants ==
    /\ ListLength \in Nat /\ MaxGen \in Nat
    /\ Kinds \subseteq {"hls", "continuous-live-ts", "static-ts-list"}
BY SessionAssumption

-----------------------------------------------------------------------------
(* Sequences.                                                                *)

\* The elements of a concatenation.
LEMMA Joined ==
    ASSUME NEW S, NEW s \in Seq(S), NEW t \in Seq(S)
    PROVE  /\ s \o t \in Seq(S) /\ Len(s \o t) = Len(s) + Len(t)
           /\ \A i \in 1..Len(s) : i \in 1..Len(s \o t) /\ (s \o t)[i] = s[i]
           /\ \A i \in 1..Len(t) : Len(s) + i \in 1..Len(s \o t) /\ (s \o t)[Len(s) + i] = t[i]
           /\ \A i \in 1..Len(s \o t) : \/ i \in 1..Len(s)
                                        \/ i - Len(s) \in 1..Len(t) /\ Len(s) + (i - Len(s)) = i
<1>1. /\ s \o t \in Seq(S) /\ Len(s \o t) = Len(s) + Len(t)
      /\ \A i \in 1..(Len(s) + Len(t)) : (s \o t)[i] = IF i <= Len(s) THEN s[i] ELSE t[i - Len(s)]
  BY ConcatProperties, Zenon
<1>2. Len(s) \in Nat /\ Len(t) \in Nat
  BY LenProperties
<1>3. ASSUME NEW i \in 1..Len(s) PROVE i \in 1..Len(s \o t) /\ (s \o t)[i] = s[i]
  BY <1>1, <1>2
<1>4. ASSUME NEW i \in 1..Len(t) PROVE Len(s) + i \in 1..Len(s \o t) /\ (s \o t)[Len(s) + i] = t[i]
  <2>1. Len(s) + i \in 1..(Len(s) + Len(t)) /\ ~(Len(s) + i <= Len(s)) /\ (Len(s) + i) - Len(s) = i
    BY <1>2
  <2>2. QED
    BY <1>1, <2>1
<1>5. ASSUME NEW i \in 1..Len(s \o t)
      PROVE  i \in 1..Len(s) \/ (i - Len(s) \in 1..Len(t) /\ Len(s) + (i - Len(s)) = i)
  BY <1>1, <1>2
<1>6. QED
  BY <1>1, <1>3, <1>4, <1>5

LEMMA Pair ==
    ASSUME NEW S, NEW c \in S, NEW d \in S
    PROVE  <<c>> \in Seq(S) /\ <<d>> \in Seq(S) /\ <<c>> \o <<d>> = <<c, d>>
<1> DEFINE one == <<c>>
           two == <<d>>
           both == <<c, d>>
<1>1. /\ one \in Seq(S) /\ Len(one) = 1 /\ one[1] = c /\ two \in Seq(S) /\ Len(two) = 1 /\ two[1] = d
      /\ both \in Seq(S) /\ Len(both) = 2 /\ both[1] = c /\ both[2] = d
  OBVIOUS
<1> HIDE DEF one, two, both
<1>2. /\ one \o two \in Seq(S) /\ Len(one \o two) = 2
      /\ \A i \in 1..2 : (one \o two)[i] = IF i <= 1 THEN one[i] ELSE two[i - 1]
  BY <1>1, ConcatProperties
<1>3. \A i \in 1..2 : (one \o two)[i] = both[i]
  BY <1>1, <1>2
<1>4. one \o two = both
  BY <1>1, <1>2, <1>3, SeqEqual
<1>5. QED
  BY <1>1, <1>4 DEF one, two, both

\* The elements of a tail.
LEMMA Dropped ==
    ASSUME NEW S, NEW s \in Seq(S), s # << >>
    PROVE  /\ Tail(s) \in Seq(S) /\ Len(Tail(s)) = Len(s) - 1 /\ Len(s) \in Nat \ {0}
           /\ Head(s) \in S /\ Head(s) = s[1]
           /\ \A i \in 1..Len(Tail(s)) : i + 1 \in 1..Len(s) /\ Tail(s)[i] = s[i + 1]
<1>1. /\ Tail(s) \in Seq(S) /\ Len(Tail(s)) = Len(s) - 1 /\ Head(s) \in S /\ Head(s) = s[1]
      /\ \A i \in 1..Len(Tail(s)) : Tail(s)[i] = s[i + 1]
  BY HeadTailProperties
<1>2. Len(s) \in Nat \ {0}
  BY EmptySeq, LenProperties
<1>3. QED
  BY <1>1, <1>2

-----------------------------------------------------------------------------
(* The worker's records.                                                     *)

\* What a worker posts for load g.
Own(g) == [type : MessageTypes, gen : {g}, src : {g}]

\* The worker in the middle of a task.
Worker ==
    [gen : Gen, pipe : Pipeline, stale : SUBSET Gen, frames : Seq([src : Gen, fresh : BOOLEAN]),
     out : Seq(Message)]

FreshIsOwn(w) == \A i \in 1..Len(w.frames) : w.frames[i].fresh => w.frames[i].src = w.gen

Base(w) == w \in Worker /\ w.out \in Seq(Own(w.gen))

\* The worker at the end of a task.
Sound(w) ==
    /\ Base(w) /\ FreshIsOwn(w)
    /\ w.pipe.at = "gone" => w.pipe = NoPipeline /\ w.frames = << >>
    /\ w.pipe.at = "load" <=> w.pipe.ioctl # "none"
    /\ w.pipe.at = "gate" <=> w.pipe.gate # "none"
    /\ w.pipe # NoPipeline /\ ~w.pipe.paused => w.pipe.at # "gate" /\ w.pipe.ioctl # "paused"
    /\ w.pipe.at \notin {"none", "gone"} => w.pipe.src = w.gen

Reports(w) == \E i \in 1..Len(w.out) : w.out[i].type \in {"complete", "error"}

\* A load loop runs, or its end is posted.
Goes(w) == w.pipe.at \notin {"none", "gone"} \/ Reports(w)

SameLoad(v, w) ==
    /\ v.gen = w.gen /\ v.stale = w.stale /\ v.pipe.src = w.pipe.src
    /\ v.pipe.paused = w.pipe.paused /\ v.pipe.mode = w.pipe.mode

LEMMA NoneFacts ==
    /\ NewPipeline \in Pipeline /\ NewPipeline.at = "none" /\ NewPipeline.gate = "none"
    /\ NewPipeline.ioctl = "none" /\ NewPipeline.paused = FALSE
    /\ NoPipeline \in Pipeline /\ NoPipeline.at = "gone" /\ NoPipeline.gate = "none"
    /\ NoPipeline.ioctl = "none"
<1>1. 0 \in Gen /\ 0 \in 0..ListLength
  BY Constants DEF Gen
<1>2. /\ NewPipeline \in Pipeline /\ NewPipeline.at = "none" /\ NewPipeline.gate = "none"
      /\ NewPipeline.ioctl = "none" /\ NewPipeline.paused = FALSE
  BY <1>1 DEF NewPipeline, Pipeline
<1>3. /\ NoPipeline \in Pipeline /\ NoPipeline.at = "gone" /\ NoPipeline.gate = "none"
      /\ NoPipeline.ioctl = "none"
  BY <1>2 DEF NoPipeline, Pipeline
<1>4. QED
  BY <1>2, <1>3

LEMMA NotGone == ASSUME NEW p, p.at # "gone" PROVE p # NoPipeline
BY NoneFacts

LEMMA AtFacts ==
    ASSUME NEW w \in Worker, NEW x \in {"none", "next", "init", "body", "load", "gate"}
    PROVE  /\ At(w, x) \in Worker /\ SameLoad(At(w, x), w)
           /\ At(w, x).out = w.out /\ At(w, x).frames = w.frames
           /\ At(w, x).pipe.at = x /\ At(w, x).pipe.gate = "none" /\ At(w, x).pipe.ioctl = w.pipe.ioctl
<1> DEFINE v == At(w, x)
<1>1. w.pipe \in Pipeline /\ v.pipe = [[w.pipe EXCEPT !.at = x] EXCEPT !.gate = "none"]
  BY DEF At, Worker
<1>2. /\ v.pipe \in Pipeline /\ v.pipe.at = x /\ v.pipe.gate = "none" /\ v.pipe.ioctl = w.pipe.ioctl
      /\ v.pipe.src = w.pipe.src /\ v.pipe.paused = w.pipe.paused /\ v.pipe.mode = w.pipe.mode
  BY <1>1 DEF Pipeline
<1>3. v.gen = w.gen /\ v.stale = w.stale /\ v.frames = w.frames /\ v.out = w.out
  BY DEF At, Worker
<1>4. v \in Worker
  BY <1>2 DEF At, Worker
<1>5. QED
  BY <1>2, <1>3, <1>4 DEF SameLoad

\* _waitIfPaused
LEMMA GatedFacts ==
    ASSUME NEW w \in Worker, NEW x \in {"next", "init", "load"}
    PROVE  /\ Gated(w, x) \in Worker /\ SameLoad(Gated(w, x), w)
           /\ Gated(w, x).out = w.out /\ Gated(w, x).frames = w.frames
           /\ Gated(w, x).pipe.ioctl = w.pipe.ioctl
           /\ w.pipe.paused => Gated(w, x).pipe.at = "gate" /\ Gated(w, x).pipe.gate = x
           /\ ~w.pipe.paused => Gated(w, x) = At(w, x)
<1>1. CASE ~w.pipe.paused
  BY <1>1, AtFacts DEF Gated
<1>2. CASE w.pipe.paused
  <2> DEFINE v == Gated(w, x)
             u == At(w, "gate")
  <2>1. v = [u EXCEPT !.pipe.gate = x]
    BY <1>2 DEF Gated
  <2>2. /\ u \in Worker /\ SameLoad(u, w) /\ u.out = w.out /\ u.frames = w.frames
        /\ u.pipe.at = "gate" /\ u.pipe.ioctl = w.pipe.ioctl
    BY AtFacts
  <2> HIDE DEF u, v
  <2>3. u.pipe \in Pipeline /\ v.pipe = [u.pipe EXCEPT !.gate = x]
    BY <2>1, <2>2 DEF Worker
  <2>4. /\ v.pipe \in Pipeline /\ v.pipe.at = "gate" /\ v.pipe.gate = x /\ v.pipe.ioctl = u.pipe.ioctl
        /\ v.pipe.src = u.pipe.src /\ v.pipe.paused = u.pipe.paused /\ v.pipe.mode = u.pipe.mode
    BY <2>2, <2>3 DEF Pipeline
  <2>5. v.gen = u.gen /\ v.stale = u.stale /\ v.frames = u.frames /\ v.out = u.out
    BY <2>1, <2>2 DEF Worker
  <2>6. v \in Worker
    BY <2>1, <2>2, <2>4 DEF Worker
  <2>7. QED
    BY <1>2, <2>2, <2>4, <2>5, <2>6 DEF SameLoad, v
<1>3. QED
  BY <1>1, <1>2

LEMMA Listed ==
    /\ << >> \in Seq(MessageTypes)
    /\ \A t \in MessageTypes : <<t>> \in Seq(MessageTypes) /\ Len(<<t>>) = 1 /\ <<t>>[1] = t
    /\ {"init", "media", "pcm", "complete", "error", "hls-live", "hls-vod"} = MessageTypes
<1>1. << >> \in Seq(MessageTypes)
  OBVIOUS
<1>2. ASSUME NEW t \in MessageTypes
      PROVE  <<t>> \in Seq(MessageTypes) /\ Len(<<t>>) = 1 /\ <<t>>[1] = t
  OBVIOUS
<1>3. {"init", "media", "pcm", "complete", "error", "hls-live", "hls-vod"} = MessageTypes
  BY DEF MessageTypes
<1>4. QED
  BY <1>1, <1>2, <1>3

LEMMA FlushTypes ==
    ASSUME NEW flushed \in Flushes
    PROVE  flushed \in Seq(MessageTypes)
<1>1. {"init", "media", "error"} \subseteq MessageTypes
  BY DEF MessageTypes
<1>2. <<"init">> \o <<"media">> = <<"init", "media">> /\ <<"init">> \o <<"media">> \in Seq(MessageTypes)
  BY <1>1, Pair, Joined
<1>3. QED
  BY <1>1, <1>2, Listed DEF Flushes

\* post(): the message is stamped with the last load, which must be the one it
\* was made for.
LEMMA PostFacts ==
    ASSUME NEW w, Base(w), w.pipe.src = w.gen, NEW types \in Seq(MessageTypes)
    PROVE  /\ Base(Post(w, types)) /\ Post(w, types).pipe = w.pipe /\ Post(w, types).gen = w.gen
           /\ Post(w, types).frames = w.frames /\ Post(w, types).stale = w.stale
           /\ SameLoad(Post(w, types), w)
           /\ \A i \in 1..Len(types) :
                types[i] \in {"complete", "error"} => Reports(Post(w, types))
<1> DEFINE new == [i \in DOMAIN types |-> [type |-> types[i], gen |-> w.gen, src |-> w.pipe.src]]
           v == Post(w, types)
<1>1. w \in Worker /\ w.out \in Seq(Own(w.gen)) /\ w.gen \in Gen
  BY DEF Base, Worker
<1>2. DOMAIN types = 1..Len(types) /\ Len(types) \in Nat
  BY LenProperties
<1>3. \A i \in 1..Len(types) : types[i] \in MessageTypes
  BY ElementOfSeq
<1>4. new \in [1..Len(types) -> Own(w.gen)]
  BY <1>2, <1>3 DEF Own
<1>5. new \in Seq(Own(w.gen)) /\ Len(new) = Len(types)
  BY <1>2, <1>4
<1>6. w.out \o new \in Seq(Own(w.gen))
  BY <1>1, <1>5, Joined
<1>7. Own(w.gen) \subseteq Message
  BY <1>1 DEF Own, Message
<1>8. \A i \in 1..Len(new) : new[i] \in Message
  BY <1>2, <1>4, <1>5, <1>7
<1>9. new \in Seq(Message)
  BY <1>2, <1>4, <1>7
<1>10. w.out \o new \in Seq(Message)
  BY <1>1, <1>9, Joined DEF Worker
<1>11. v = [w EXCEPT !.out = w.out \o new]
  BY DEF Post
<1> HIDE DEF v
<1>12. /\ v \in Worker /\ v.out = w.out \o new /\ v.pipe = w.pipe /\ v.gen = w.gen
       /\ v.frames = w.frames /\ v.stale = w.stale
  <2> HIDE DEF new
  <2>1. QED
    BY <1>1, <1>10, <1>11 DEF Worker
<1>13. ASSUME NEW i \in 1..Len(types), types[i] \in {"complete", "error"} PROVE Reports(v)
  <2>1. /\ Len(w.out) + i \in 1..Len(w.out \o new) /\ (w.out \o new)[Len(w.out) + i] = new[i]
    <3>1. w.out \in Seq(Own(w.gen)) /\ new \in Seq(Own(w.gen)) /\ i \in 1..Len(new)
      BY <1>1, <1>5
    <3> HIDE DEF new
    <3>2. QED
      BY <3>1, Joined
  <2>2. new[i].type = types[i]
    BY <1>2
  <2> HIDE DEF new
  <2>3. QED
    BY <1>12, <1>13, <2>1, <2>2 DEF Reports
<1>14. QED
  BY <1>6, <1>12, <1>13 DEF Base, SameLoad, v

LEMMA PostOne ==
    ASSUME NEW w, Base(w), w.pipe.src = w.gen, NEW t \in MessageTypes
    PROVE  /\ Base(Post(w, <<t>>)) /\ Post(w, <<t>>).pipe = w.pipe /\ Post(w, <<t>>).gen = w.gen
           /\ Post(w, <<t>>).frames = w.frames /\ Post(w, <<t>>).stale = w.stale
           /\ SameLoad(Post(w, <<t>>), w)
           /\ t \in {"complete", "error"} => Reports(Post(w, <<t>>))
<1>1. <<t>> \in Seq(MessageTypes) /\ 1 \in 1..Len(<<t>>) /\ <<t>>[1] = t
  OBVIOUS
<1>2. QED
  BY <1>1, PostFacts

\* _resetAudioTiming
LEMMA ResetFacts ==
    ASSUME NEW w, Base(w)
    PROVE  /\ Base(ResetAudio(w)) /\ FreshIsOwn(ResetAudio(w)) /\ SameLoad(ResetAudio(w), w)
           /\ ResetAudio(w).pipe = w.pipe /\ ResetAudio(w).out = w.out
           /\ w.frames = << >> => ResetAudio(w).frames = << >>
<1> DEFINE Frame == [src : Gen, fresh : BOOLEAN]
           new == [i \in DOMAIN w.frames |-> [w.frames[i] EXCEPT !.fresh = FALSE]]
           v == ResetAudio(w)
<1>1. w \in Worker /\ w.frames \in Seq(Frame) /\ v = [w EXCEPT !.frames = new]
  BY DEF Base, Worker, ResetAudio
<1>2. DOMAIN w.frames = 1..Len(w.frames) /\ Len(w.frames) \in Nat
  BY <1>1, LenProperties
<1>3. \A i \in 1..Len(w.frames) : w.frames[i] \in Frame
  BY <1>1, ElementOfSeq
<1>4. \A i \in 1..Len(w.frames) : new[i] \in Frame /\ ~new[i].fresh
  BY <1>2, <1>3
<1>5. new \in [1..Len(w.frames) -> Frame]
  BY <1>2, <1>4
<1>6. new \in Seq(Frame) /\ Len(new) = Len(w.frames)
  BY <1>2, <1>5
<1>7. w.frames = << >> => new = << >>
  BY <1>2
<1> HIDE DEF new, v
<1>8. /\ v \in Worker /\ v.frames = new /\ v.pipe = w.pipe /\ v.out = w.out /\ v.gen = w.gen
      /\ v.stale = w.stale
  BY <1>1, <1>6 DEF Worker
<1>9. FreshIsOwn(v)
  BY <1>4, <1>6, <1>8 DEF FreshIsOwn
<1>10. QED
  BY <1>7, <1>8, <1>9 DEF Base, SameLoad, v

\* _loadSegment
LEMMA LoadFacts ==
    ASSUME NEW w, Base(w), FreshIsOwn(w), w.pipe.src = w.gen, w.pipe.ioctl = "none"
    PROVE  /\ Sound(Load(w)) /\ SameLoad(Load(w), w) /\ Load(w).out = w.out
           /\ Load(w).pipe.at \in {"gate", "load"} /\ Goes(Load(w))
           /\ w.pipe.paused => Load(w).pipe.at = "gate"
<1> DEFINE l == Gated(w, "load")
           v == Load(w)
<1>0. w \in Worker
  BY DEF Base
<1>1. /\ l \in Worker /\ SameLoad(l, w) /\ l.out = w.out /\ l.frames = w.frames
      /\ l.pipe.ioctl = "none"
      /\ w.pipe.paused => l.pipe.at = "gate" /\ l.pipe.gate = "load"
      /\ ~w.pipe.paused => l.pipe.at = "load" /\ l.pipe.gate = "none"
  BY <1>0, GatedFacts, AtFacts
<1>2. v = IF l.pipe.at = "load" THEN [l EXCEPT !.pipe.ioctl = "connecting"] ELSE l
  BY DEF Load
<1> HIDE DEF l, v
<1>3. CASE w.pipe.paused
  <2>1. v = l
    BY <1>1, <1>2, <1>3
  <2>2. QED
    BY <1>1, <1>3, <2>1, NotGone DEF Sound, SameLoad, Goes, Base, FreshIsOwn, v
<1>4. CASE ~w.pipe.paused
  <2>1. v = [l EXCEPT !.pipe.ioctl = "connecting"]
    BY <1>1, <1>2, <1>4
  <2>2. l.pipe \in Pipeline /\ v.pipe = [l.pipe EXCEPT !.ioctl = "connecting"]
    BY <1>1, <2>1 DEF Worker
  <2>3. /\ v.pipe \in Pipeline /\ v.pipe.at = "load" /\ v.pipe.gate = "none"
        /\ v.pipe.ioctl = "connecting" /\ v.pipe.src = l.pipe.src
        /\ v.pipe.paused = l.pipe.paused /\ v.pipe.mode = l.pipe.mode
    BY <1>1, <1>4, <2>2 DEF Pipeline
  <2>4. v \in Worker /\ v.gen = l.gen /\ v.stale = l.stale /\ v.frames = l.frames /\ v.out = l.out
    BY <1>1, <2>1, <2>3 DEF Worker
  <2>5. QED
    BY <1>1, <1>4, <2>3, <2>4, NotGone DEF Sound, SameLoad, Goes, Base, FreshIsOwn, v
<1>5. QED
  BY <1>3, <1>4

\* The load loop goes on, or says that it has come to its end.
LEMMA NextFacts ==
    ASSUME NEW w, Base(w), FreshIsOwn(w), w.pipe.src = w.gen, w.pipe.ioctl = "none"
    PROVE  /\ Sound(NextSegment(w)) /\ SameLoad(NextSegment(w), w)
           /\ NextSegment(w).pipe.at # "gone" /\ Goes(NextSegment(w))
           /\ w.pipe.paused => NextSegment(w).pipe.at = "gate"
<1> DEFINE n == Gated(w, "next")
           v == NextSegment(w)
<1>0. w \in Worker
  BY DEF Base
<1>1. /\ n \in Worker /\ SameLoad(n, w) /\ n.out = w.out /\ n.frames = w.frames
      /\ n.pipe.ioctl = "none"
      /\ w.pipe.paused => n.pipe.at = "gate" /\ n.pipe.gate = "next"
      /\ ~w.pipe.paused => n.pipe.at = "next" /\ n.pipe.gate = "none"
  BY <1>0, GatedFacts, AtFacts
<1>2. v = IF n.pipe.at = "gate" \/ n.pipe.mode = "hls" THEN n
          ELSE IF n.pipe.mode = "continuous-live-ts" THEN Load(n)
          ELSE IF n.pipe.left = 0 THEN At(Post(n, <<"complete">>), "none")
          ELSE Load([n EXCEPT !.pipe.left = @ - 1])
  BY DEF NextSegment
<1>3. Base(n) /\ FreshIsOwn(n) /\ n.pipe.src = n.gen
  BY <1>1 DEF Base, FreshIsOwn, SameLoad
<1> HIDE DEF n, v
<1>4. CASE n.pipe.at = "gate" \/ n.pipe.mode = "hls"
  <2>1. v = n
    BY <1>2, <1>4
  <2>2. Sound(n) /\ n.pipe.at \in {"gate", "next"}
    BY <1>1, <1>3, NotGone DEF Sound, SameLoad
  <2>3. QED
    BY <1>1, <2>1, <2>2 DEF Goes, v
<1>5. CASE ~(n.pipe.at = "gate" \/ n.pipe.mode = "hls") /\ n.pipe.mode = "continuous-live-ts"
  <2>1. v = Load(n) /\ ~w.pipe.paused
    BY <1>1, <1>2, <1>5
  <2>2. /\ Sound(v) /\ SameLoad(v, n) /\ v.pipe.at \in {"gate", "load"} /\ Goes(v)
    BY <1>1, <1>3, <2>1, LoadFacts
  <2>3. QED
    BY <1>1, <2>1, <2>2 DEF SameLoad, v
<1>6. CASE ~(n.pipe.at = "gate" \/ n.pipe.mode = "hls" \/ n.pipe.mode = "continuous-live-ts")
           /\ n.pipe.left = 0
  <2> DEFINE p == Post(n, <<"complete">>)
  <2>1. v = At(p, "none") /\ ~w.pipe.paused
    BY <1>1, <1>2, <1>6
  <2>3. /\ Base(p) /\ p.pipe = n.pipe /\ p.gen = n.gen /\ p.frames = n.frames /\ p.stale = n.stale
        /\ Reports(p)
    <3>1. "complete" \in MessageTypes
      BY DEF MessageTypes
    <3>2. QED
      BY <1>3, <3>1, PostOne
  <2> HIDE DEF p
  <2>4. /\ v \in Worker /\ SameLoad(v, p) /\ v.out = p.out /\ v.frames = p.frames
        /\ v.pipe.at = "none" /\ v.pipe.gate = "none" /\ v.pipe.ioctl = "none"
    BY <1>1, <2>1, <2>3, AtFacts DEF Base
  <2>5. Sound(v)
    BY <1>3, <2>3, <2>4, NotGone DEF Sound, Base, FreshIsOwn, SameLoad
  <2>6. SameLoad(v, w)
    BY <1>1, <2>3, <2>4 DEF SameLoad
  <2>7. Goes(v)
    BY <2>3, <2>4 DEF Goes, Reports
  <2>8. QED
    BY <2>1, <2>4, <2>5, <2>6, <2>7 DEF v
<1>7. CASE ~(n.pipe.at = "gate" \/ n.pipe.mode = "hls" \/ n.pipe.mode = "continuous-live-ts")
           /\ n.pipe.left # 0
  <2> DEFINE m == [n EXCEPT !.pipe.left = @ - 1]
  <2>1. v = Load(m) /\ ~w.pipe.paused
    BY <1>1, <1>2, <1>7
  <2>2. n.pipe \in Pipeline /\ m.pipe = [n.pipe EXCEPT !.left = n.pipe.left - 1]
    BY <1>1 DEF Worker
  <2>3. n.pipe.left - 1 \in 0..ListLength
    BY <1>7, <2>2, Constants DEF Pipeline
  <2>4. /\ m.pipe \in Pipeline /\ m.pipe.ioctl = n.pipe.ioctl /\ m.pipe.src = n.pipe.src
        /\ m.pipe.paused = n.pipe.paused /\ m.pipe.mode = n.pipe.mode
    BY <2>2, <2>3 DEF Pipeline
  <2>5. m \in Worker /\ m.gen = n.gen /\ m.stale = n.stale /\ m.frames = n.frames /\ m.out = n.out
    BY <1>1, <2>4 DEF Worker
  <2> HIDE DEF m
  <2>6. Base(m) /\ FreshIsOwn(m)
    BY <1>3, <2>5 DEF Base, FreshIsOwn
  <2>7. /\ Sound(v) /\ SameLoad(v, m) /\ v.pipe.at \in {"gate", "load"} /\ Goes(v)
    BY <1>1, <1>3, <2>1, <2>4, <2>5, <2>6, LoadFacts
  <2>8. QED
    BY <1>1, <2>1, <2>4, <2>5, <2>7 DEF SameLoad, v
<1>8. QED
  BY <1>4, <1>5, <1>6, <1>7

\* _teardown
LEMMA TeardownFacts ==
    ASSUME NEW w \in Worker
    PROVE  /\ Teardown(w) \in Worker /\ Teardown(w).gen = w.gen /\ Teardown(w).out = w.out
           /\ Teardown(w).frames = w.frames /\ Teardown(w).pipe.at = "none"
           /\ Teardown(w).pipe.ioctl = "none" /\ Teardown(w).pipe.gate = "none"
           /\ Teardown(w).pipe.paused = FALSE
<1> DEFINE v == Teardown(w)
           p == [w.pipe EXCEPT !.at = "none", !.gate = "none", !.ioctl = "none", !.paused = FALSE,
                               !.mode = "static-ts-list", !.known = FALSE]
           st == IF w.pipe.at \in {"init", "body"} THEN w.stale \cup {w.pipe.src} ELSE w.stale
<1>1. w.pipe \in Pipeline /\ w.stale \subseteq Gen
  BY DEF Worker
<1>2. p \in Pipeline /\ p.at = "none" /\ p.ioctl = "none" /\ p.gate = "none" /\ p.paused = FALSE
  BY <1>1 DEF Pipeline
<1>3. st \subseteq Gen
  BY <1>1 DEF Pipeline
<1>4. v = [[w EXCEPT !.stale = st] EXCEPT !.pipe = p]
  BY DEF Teardown, Worker
<1> HIDE DEF v, p, st
<1>5. QED
  BY <1>2, <1>3, <1>4 DEF Worker, v

\* _load
LEMMA LoadSourceFacts ==
    ASSUME NEW w, Base(w), NEW kind \in Kinds
    PROVE  /\ Sound(LoadSource(w, kind)) /\ LoadSource(w, kind).gen = w.gen
           /\ LoadSource(w, kind).pipe.at # "gone" /\ LoadSource(w, kind).pipe.paused = FALSE
           /\ Goes(LoadSource(w, kind))
<1> DEFINE t == Teardown(w)
           len == IF kind = "static-ts-list" THEN ListLength ELSE 0
           u == [t EXCEPT !.pipe.src = w.gen, !.pipe.mode = kind, !.pipe.left = len]
           q == [t.pipe EXCEPT !.src = w.gen, !.mode = kind, !.left = len]
           r == ResetAudio(u)
<1>1. /\ w \in Worker /\ t \in Worker /\ t.gen = w.gen /\ t.out = w.out /\ t.frames = w.frames
      /\ t.pipe.ioctl = "none" /\ t.pipe.paused = FALSE
  BY TeardownFacts DEF Base
<1>2. len \in 0..ListLength /\ kind \in {"hls", "continuous-live-ts", "static-ts-list"}
  BY Constants
<1>3. t.pipe \in Pipeline /\ w.gen \in Gen
  BY <1>1 DEF Worker
<1> HIDE DEF t, len
<1>4. q \in Pipeline /\ q.src = w.gen /\ q.ioctl = "none" /\ q.paused = FALSE
  BY <1>1, <1>2, <1>3 DEF Pipeline
<1>5. u = [t EXCEPT !.pipe = q]
  BY <1>1 DEF Worker
<1> HIDE DEF u, q
<1>6. u \in Worker /\ u.gen = w.gen /\ u.out = w.out /\ u.pipe = q
  BY <1>1, <1>4, <1>5 DEF Worker
<1>7. Base(u)
  BY <1>6 DEF Base
<1>8. /\ Base(r) /\ FreshIsOwn(r) /\ r.pipe = q /\ r.gen = w.gen
  BY <1>6, <1>7, ResetFacts DEF SameLoad
<1>9. LoadSource(w, kind) = NextSegment(r)
  BY DEF LoadSource, r, u, t, len
<1> HIDE DEF r
<1>10. QED
  BY <1>4, <1>8, <1>9, NextFacts DEF SameLoad

LEMMA PauseFacts ==
    ASSUME NEW w, Sound(w), w.pipe # NoPipeline
    PROVE  /\ Sound(PausePipeline(w)) /\ PausePipeline(w).gen = w.gen
           /\ PausePipeline(w).pipe.at = w.pipe.at /\ PausePipeline(w).pipe.paused = TRUE
           /\ PausePipeline(w).out = w.out /\ PausePipeline(w).pipe.at # "gone"
           /\ PausePipeline(w).pipe.ioctl = "connecting" => w.pipe.ioctl = "connecting"
<1> DEFINE v == PausePipeline(w)
           io == IF w.pipe.mode = "continuous-live-ts" /\ w.pipe.ioctl \in {"connecting", "buffering"}
                 THEN "paused" ELSE w.pipe.ioctl
           p == [w.pipe EXCEPT !.paused = TRUE, !.ioctl = io]
<1>1. w \in Worker /\ w.pipe \in Pipeline /\ w.pipe.at # "gone"
  BY DEF Sound, Base, Worker
<1>2. io \in {"none", "connecting", "buffering", "paused", "text"} /\ (io = "none" <=> w.pipe.ioctl = "none")
      /\ (io = "connecting" => w.pipe.ioctl = "connecting")
  BY <1>1 DEF Pipeline
<1>3. v = [w EXCEPT !.pipe = p]
  BY <1>1 DEF PausePipeline, Worker, Pipeline
<1> HIDE DEF io
<1>4. /\ p \in Pipeline /\ p.at = w.pipe.at /\ p.gate = w.pipe.gate /\ p.ioctl = io /\ p.paused = TRUE
      /\ p.src = w.pipe.src
  BY <1>1, <1>2 DEF Pipeline
<1> HIDE DEF v, p
<1>5. v \in Worker /\ v.gen = w.gen /\ v.pipe = p /\ v.frames = w.frames /\ v.out = w.out
  BY <1>1, <1>3, <1>4 DEF Worker
<1>6. Sound(v)
  BY <1>1, <1>2, <1>4, <1>5 DEF Sound, Base, FreshIsOwn
<1>7. QED
  BY <1>1, <1>2, <1>4, <1>5, <1>6 DEF v

LEMMA ResumeFacts ==
    ASSUME NEW w, Sound(w), w.pipe # NoPipeline, NEW flushed \in Flushes
    PROVE  /\ Sound(ResumePipeline(w, flushed)) /\ ResumePipeline(w, flushed).gen = w.gen
           /\ ResumePipeline(w, flushed).pipe.at # "gone" /\ ResumePipeline(w, flushed).pipe.paused = FALSE
           /\ w.pipe.at # "none" => Goes(ResumePipeline(w, flushed))
<1> DEFINE v == ResumePipeline(w, flushed)
           r == [w EXCEPT !.pipe.paused = FALSE]
           q == [w.pipe EXCEPT !.paused = FALSE]
<1>1. w \in Worker /\ w.pipe \in Pipeline /\ w.pipe.at # "gone" /\ w.out \in Seq(Own(w.gen))
  BY DEF Sound, Base, Worker
<1>2. /\ q \in Pipeline /\ q.paused = FALSE /\ q.at = w.pipe.at /\ q.gate = w.pipe.gate
      /\ q.ioctl = w.pipe.ioctl /\ q.src = w.pipe.src
  BY <1>1 DEF Pipeline
<1>3. r = [w EXCEPT !.pipe = q]
  BY <1>1 DEF Worker, Pipeline
<1> HIDE DEF r, q
<1>4. r \in Worker /\ r.gen = w.gen /\ r.pipe = q /\ r.frames = w.frames /\ r.out = w.out
  BY <1>1, <1>2, <1>3 DEF Worker
<1>5. Base(r) /\ FreshIsOwn(r)
  BY <1>1, <1>4 DEF Sound, Base, FreshIsOwn
<1>6. CASE w.pipe.ioctl = "paused"
  <2> DEFINE k == Post(r, flushed)
             c == [k EXCEPT !.pipe.ioctl = "connecting"]
             d == [q EXCEPT !.ioctl = "connecting"]
  <2>1. w.pipe.at = "load" /\ w.pipe.src = w.gen
    BY <1>1, <1>6 DEF Sound, Pipeline
  <2>2. v = ResetAudio(c)
    BY <1>6 DEF ResumePipeline, r
  <2>3. Base(k) /\ k.pipe = q /\ k.gen = w.gen /\ k \in Worker
    BY <1>2, <1>4, <1>5, <2>1, FlushTypes, PostFacts DEF Base
  <2> HIDE DEF k
  <2>4. /\ d \in Pipeline /\ d.paused = FALSE /\ d.at = w.pipe.at /\ d.gate = w.pipe.gate
        /\ d.ioctl = "connecting" /\ d.src = w.pipe.src
    BY <1>2 DEF Pipeline
  <2>5. c = [k EXCEPT !.pipe = d]
    BY <2>3 DEF Worker
  <2> HIDE DEF c, d
  <2>6. c \in Worker /\ c.gen = w.gen /\ c.pipe = d /\ c.out = k.out
    BY <2>3, <2>4, <2>5 DEF Worker
  <2>7. Base(c)
    BY <2>3, <2>6 DEF Base
  <2>8. Base(v) /\ FreshIsOwn(v) /\ v.pipe = d /\ v.gen = w.gen
    BY <2>2, <2>6, <2>7, ResetFacts DEF SameLoad
  <2>9. Sound(v)
    BY <1>1, <1>6, <2>1, <2>4, <2>8 DEF Sound
  <2>10. QED
    BY <2>1, <2>4, <2>8, <2>9 DEF Goes, v
<1>7. CASE w.pipe.ioctl # "paused" /\ w.pipe.at # "gate"
  <2>0. w.pipe.gate = "none"
    BY <1>7 DEF Sound
  <2>1. v = r
    BY <1>7, <2>0 DEF ResumePipeline, r
  <2>2. Sound(r)
    BY <1>1, <1>2, <1>4, <1>5, <1>7 DEF Sound
  <2>3. QED
    BY <1>1, <1>2, <1>4, <2>1, <2>2 DEF Goes, v
<1>8. CASE w.pipe.ioctl # "paused" /\ w.pipe.at = "gate"
  <2>1. w.pipe.ioctl = "none" /\ w.pipe.src = w.gen /\ w.pipe.gate \in {"next", "init", "load"}
    BY <1>1, <1>8 DEF Sound, Pipeline
  <2>2. CASE w.pipe.gate = "next"
    <3>1. v = NextSegment(r)
      BY <1>8, <2>2 DEF ResumePipeline, r
    <3>2. QED
      BY <1>2, <1>4, <1>5, <2>1, <3>1, NextFacts DEF SameLoad, v
  <2>3. CASE w.pipe.gate = "load"
    <3>1. v = Load(r)
      BY <1>8, <2>3 DEF ResumePipeline, r
    <3>2. QED
      BY <1>2, <1>4, <1>5, <2>1, <3>1, LoadFacts DEF SameLoad, v
  <2>4. CASE w.pipe.gate = "init"
    <3>1. v = At(r, "init")
      BY <1>8, <2>4 DEF ResumePipeline, r
    <3>2. /\ v \in Worker /\ SameLoad(v, r) /\ v.out = r.out /\ v.frames = r.frames
          /\ v.pipe.at = "init" /\ v.pipe.gate = "none" /\ v.pipe.ioctl = "none"
      BY <1>2, <1>4, <2>1, <3>1, AtFacts
    <3> HIDE DEF v
    <3>3. Sound(v)
      BY <1>1, <1>2, <1>4, <1>5, <2>1, <3>2 DEF Sound, SameLoad, Base, FreshIsOwn
    <3>4. QED
      BY <1>2, <1>4, <3>2, <3>3 DEF SameLoad, Goes, v
  <2>5. QED
    BY <2>1, <2>2, <2>3, <2>4
<1>9. QED
  BY <1>6, <1>7, <1>8

LEMMA DestroyFacts ==
    ASSUME NEW w, Sound(w)
    PROVE  /\ Sound(DestroyPipeline(w)) /\ DestroyPipeline(w).gen = w.gen
           /\ DestroyPipeline(w).pipe = NoPipeline
<1> DEFINE t == Teardown(w)
           v == DestroyPipeline(w)
<1>1. t \in Worker /\ t.gen = w.gen /\ t.out = w.out
  BY TeardownFacts DEF Sound, Base
<1>2. v = [[t EXCEPT !.pipe = NoPipeline] EXCEPT !.frames = << >>]
  BY DEF DestroyPipeline
<1> HIDE DEF t, v
<1>3. << >> \in Seq([src : Gen, fresh : BOOLEAN])
  OBVIOUS
<1>4. /\ v \in Worker /\ v.gen = w.gen /\ v.pipe = NoPipeline /\ v.frames = << >> /\ v.out = w.out
  BY <1>1, <1>2, <1>3, NoneFacts DEF Worker
<1>5. Sound(v)
  BY <1>4, NoneFacts DEF Sound, Base, FreshIsOwn
<1>6. QED
  BY <1>4, <1>5 DEF v

-----------------------------------------------------------------------------
(* The worker takes a command (the message handler of transmux-worker.ts).   *)

\* A command finds the pipeline it is for; "init" finds none.
Fits(w, c) ==
    /\ c.type = "init" => w.pipe = NoPipeline
    /\ c.type \notin {"init", "reset"} => w.pipe # NoPipeline

LEMMA CommandTypes ==
    ASSUME NEW c \in Command
    PROVE  /\ c.type \in {"pause", "resume", "reset", "init", "start", "load-segments"}
           /\ Loads(c) => c.gen \in Gen
           /\ c.type \in {"start", "load-segments"} => c.kind \in Kinds
BY DEF Command, Loads

LEMMA HandleFacts ==
    ASSUME NEW w, Sound(w), w.out = << >>, NEW c \in Command, Fits(w, c),
           NEW flushed \in Flushes
    PROVE  /\ Sound(Handle(w, c, flushed))
           /\ Handle(w, c, flushed).gen = IF Loads(c) THEN c.gen ELSE w.gen
           /\ Handle(w, c, flushed).pipe # NoPipeline <=> c.type # "reset"
           /\ c.type # "reset" => (Handle(w, c, flushed).pipe.paused <=> c.type = "pause")
           /\ c.type \in {"start", "load-segments"} => Goes(Handle(w, c, flushed))
           /\ c.type \in {"pause", "resume"} /\ w.pipe.at # "none" => Goes(Handle(w, c, flushed))
           /\ c.type = "pause" =>
                /\ Handle(w, c, flushed).pipe.at = w.pipe.at
                /\ Handle(w, c, flushed).pipe.ioctl = "connecting" => w.pipe.ioctl = "connecting"
<1> DEFINE h == Handle(w, c, flushed)
<1>1. /\ c.type \in {"pause", "resume", "reset", "init", "start", "load-segments"}
      /\ Loads(c) => c.gen \in Gen
      /\ c.type \in {"start", "load-segments"} => c.kind \in Kinds
  BY CommandTypes
<1>2. w \in Worker /\ Base(w) /\ w.pipe \in Pipeline
  BY DEF Sound, Base, Worker
<1>3. CASE c.type = "init"
  <2>1. h = [[w EXCEPT !.gen = c.gen] EXCEPT !.pipe = NewPipeline] /\ Loads(c) /\ c.gen \in Gen
    BY <1>1, <1>3 DEF Handle, Loads
  <2>2. w.pipe = NoPipeline /\ w.frames = << >>
    BY <1>3, NoneFacts DEF Fits, Sound
  <2> HIDE DEF h
  <2>3. /\ h \in Worker /\ h.gen = c.gen /\ h.pipe = NewPipeline /\ h.frames = << >> /\ h.out = w.out
    BY <1>2, <2>1, <2>2, NoneFacts DEF Worker
  <2>4. Sound(h)
    <3>1. << >> \in Seq(Own(h.gen))
      OBVIOUS
    <3>2. QED
      BY <2>3, <3>1, NoneFacts DEF Sound, Base, FreshIsOwn
  <2>5. QED
    BY <1>3, <2>1, <2>3, <2>4, NoneFacts, NotGone DEF h
<1>4. CASE c.type = "reset"
  <2>1. h = IF w.pipe = NoPipeline THEN w ELSE DestroyPipeline(w)
    BY <1>4 DEF Handle
  <2>2. QED
    BY <1>4, <2>1, DestroyFacts DEF h, Loads
<1>5. CASE c.type = "start"
  <2>1. h = LoadSource(w, c.kind)
    BY <1>5 DEF Handle, Fits
  <2>2. QED
    BY <1>1, <1>2, <1>5, <2>1, LoadSourceFacts, NotGone DEF h, Loads
<1>6. CASE c.type = "load-segments"
  <2> DEFINE g == [w EXCEPT !.gen = c.gen]
  <2>1. h = LoadSource(g, c.kind) /\ Loads(c) /\ c.gen \in Gen
    BY <1>1, <1>6 DEF Handle, Fits, Loads
  <2>2. g \in Worker /\ g.gen = c.gen /\ g.out = << >>
    BY <1>2, <2>1 DEF Worker
  <2>3. << >> \in Seq(Own(g.gen))
    OBVIOUS
  <2> HIDE DEF g
  <2>4. Base(g)
    BY <2>2, <2>3 DEF Base
  <2>5. QED
    BY <1>1, <1>6, <2>1, <2>2, <2>4, LoadSourceFacts, NotGone DEF h
<1>7. CASE c.type = "pause"
  <2>1. h = PausePipeline(w)
    BY <1>7 DEF Handle, Fits
  <2>2. /\ Sound(h) /\ h.gen = w.gen /\ h.pipe.at = w.pipe.at /\ h.pipe.paused = TRUE
        /\ h.pipe.at # "gone"
        /\ h.pipe.ioctl = "connecting" => w.pipe.ioctl = "connecting"
    BY <1>7, <2>1, PauseFacts DEF Fits
  <2> HIDE DEF h
  <2>3. QED
    BY <1>7, <2>2, NotGone DEF h, Loads, Goes
<1>8. CASE c.type = "resume"
  <2>1. h = ResumePipeline(w, flushed)
    BY <1>8 DEF Handle, Fits
  <2>2. QED
    BY <1>8, <2>1, ResumeFacts, NotGone DEF h, Loads, Fits
<1>9. QED
  BY <1>1, <1>3, <1>4, <1>5, <1>6, <1>7, <1>8

-----------------------------------------------------------------------------
(* The tasks of the worker.                                                  *)

LEMMA WorkerIsSound == SessionInv => Sound(wk) /\ wk.out = << >>
<1> SUFFICES ASSUME SessionInv PROVE Sound(wk) /\ wk.out = << >>
  OBVIOUS
<1>1. << >> \in Seq(Message) /\ << >> \in Seq(Own(wk.gen))
  OBVIOUS
<1>2. wk \in Worker /\ wk.out = << >>
  BY <1>1 DEF SessionInv, TypeOK, Worker
<1>3. QED
  BY <1>1, <1>2 DEF SessionInv, TypeOK, Addressed, NothingHeldBack, Sound, Base, FreshIsOwn

\* What a task leaves behind.
LEMMA WorkFacts ==
    ASSUME SessionInv, NEW next, Sound(next), Work(next)
    PROVE  /\ wk' \in [gen : Gen, pipe : Pipeline, stale : SUBSET Gen,
                       frames : Seq([src : Gen, fresh : BOOLEAN]), out : {<< >>}]
           /\ wk'.gen = next.gen /\ wk'.pipe = next.pipe /\ wk'.frames = next.frames
           /\ events' \in Seq(Message)
           /\ \A i \in 1..Len(events) : i \in 1..Len(events') /\ events'[i] = events[i]
           /\ \A i \in 1..Len(events') :
                (i \in 1..Len(events) /\ events'[i] = events[i]) \/ events'[i] \in Own(next.gen)
           /\ Reports(next) => \E i \in 1..Len(events') :
                events'[i].gen = next.gen /\ events'[i].type \in {"complete", "error"}
           /\ next.out = << >> => events' = events
<1>1. next \in Worker /\ next.out \in Seq(Own(next.gen)) /\ next.out \in Seq(Message)
  BY DEF Sound, Base, Worker
<1>2. events \in Seq(Message) /\ events' = events \o next.out /\ wk' = [next EXCEPT !.out = << >>]
  BY DEF SessionInv, TypeOK, Work
<1>3. /\ wk' \in [gen : Gen, pipe : Pipeline, stale : SUBSET Gen,
                  frames : Seq([src : Gen, fresh : BOOLEAN]), out : {<< >>}]
      /\ wk'.gen = next.gen /\ wk'.pipe = next.pipe /\ wk'.frames = next.frames
  BY <1>1, <1>2 DEF Worker
<1> DEFINE out == next.out
<1>4. /\ events' \in Seq(Message)
      /\ \A i \in 1..Len(events) : i \in 1..Len(events') /\ events'[i] = events[i]
      /\ \A i \in 1..Len(out) : Len(events) + i \in 1..Len(events') /\ events'[Len(events) + i] = out[i]
      /\ \A i \in 1..Len(events') : \/ i \in 1..Len(events)
                                    \/ i - Len(events) \in 1..Len(out) /\ Len(events) + (i - Len(events)) = i
  <2>1. out \in Seq(Message) /\ events' = events \o out
    BY <1>1, <1>2
  <2> HIDE DEF out
  <2>2. QED
    BY <1>2, <2>1, Joined
<1>5. \A i \in 1..Len(out) : out[i] \in Own(next.gen)
  BY <1>1, ElementOfSeq
<1>6. ASSUME NEW i \in 1..Len(events')
      PROVE  (i \in 1..Len(events) /\ events'[i] = events[i]) \/ events'[i] \in Own(next.gen)
  <2>1. CASE i \in 1..Len(events)
    BY <1>4, <2>1
  <2>2. CASE i - Len(events) \in 1..Len(out) /\ Len(events) + (i - Len(events)) = i
    <3> DEFINE j == i - Len(events)
    <3>1. j \in 1..Len(out) /\ Len(events) + j = i
      BY <2>2
    <3> HIDE DEF j, out
    <3>2. events'[i] = out[j]
      BY <1>4, <3>1
    <3>3. QED
      BY <1>5, <3>1, <3>2
  <2>3. QED
    BY <1>4, <2>1, <2>2
<1>7. ASSUME Reports(next)
      PROVE  \E i \in 1..Len(events') :
                events'[i].gen = next.gen /\ events'[i].type \in {"complete", "error"}
  <2>1. PICK i \in 1..Len(out) : out[i].type \in {"complete", "error"}
    BY <1>7 DEF Reports
  <2>2. out[i].gen = next.gen
    BY <1>5 DEF Own
  <2> HIDE DEF out
  <2>3. QED
    BY <1>4, <2>1, <2>2
<1>8. next.out = << >> => events' = events
  BY <1>2, ConcatEmptySeq
<1>9. QED
  BY <1>3, <1>4, <1>6, <1>7, <1>8

\* What PausedIsQuiet says of a step.
QuietStep ==
    wk.pipe.at # "gone" /\ wk'.pipe.at # "gone" /\ wk.pipe.paused /\ wk'.pipe.paused
        => \/ wk'.pipe.at \in {"none", "gate"}
           \/ wk.pipe.at = "init" /\ wk'.pipe.at = "body"
           \/ wk'.pipe.at = wk.pipe.at /\ (wk'.pipe.ioctl = "connecting" => wk.pipe.ioctl = "connecting")

\* A task of the network, the decoder or a source: it works on the load the
\* worker has, when that comes to its end it says so, and it starts nothing
\* while the pipeline is paused.
Task(next) ==
    /\ Sound(next) /\ next.gen = wk.gen /\ next.pipe.paused = wk.pipe.paused
    /\ next.pipe.at = "gone" <=> wk.pipe.at = "gone"
    /\ Goes(next) \/ next.pipe.at = wk.pipe.at
    /\ wk.pipe.at # "gone" \/ next.out = << >>
    /\ wk.pipe.paused =>
         \/ next.pipe.at \in {"none", "gate"}
         \/ wk.pipe.at = "init" /\ next.pipe.at = "body"
         \/ next.pipe.at = wk.pipe.at /\ (next.pipe.ioctl = "connecting" => wk.pipe.ioctl = "connecting")

LEMMA TaskStep ==
    ASSUME SessionInv, NEW next, Task(next), InWorker(next)
    PROVE  SessionInv' /\ QuietStep
<1>0. /\ Sound(next) /\ next.gen = wk.gen /\ next.pipe.paused = wk.pipe.paused
      /\ next.pipe.at = "gone" <=> wk.pipe.at = "gone"
      /\ Goes(next) \/ next.pipe.at = wk.pipe.at
      /\ wk.pipe.at # "gone" \/ next.out = << >>
  BY DEF Task
<1>1. /\ wk' \in [gen : Gen, pipe : Pipeline, stale : SUBSET Gen,
                  frames : Seq([src : Gen, fresh : BOOLEAN]), out : {<< >>}]
      /\ wk'.gen = next.gen /\ wk'.pipe = next.pipe /\ wk'.frames = next.frames
      /\ events' \in Seq(Message)
      /\ \A i \in 1..Len(events) : i \in 1..Len(events') /\ events'[i] = events[i]
      /\ \A i \in 1..Len(events') :
           (i \in 1..Len(events) /\ events'[i] = events[i]) \/ events'[i] \in Own(wk.gen)
      /\ Reports(next) => \E i \in 1..Len(events') :
           events'[i].gen = wk.gen /\ events'[i].type \in {"complete", "error"}
      /\ next.out = << >> => events' = events
      /\ UNCHANGED <<page, commands>>
  BY <1>0, WorkFacts DEF InWorker
<1>2. next.pipe = NoPipeline <=> wk.pipe = NoPipeline
  BY <1>0, WorkerIsSound, NoneFacts DEF Sound
<1>3. page.gen \in Nat /\ wk.gen \in Nat /\ wk.gen <= page.gen
  BY Constants DEF SessionInv, TypeOK, Controller, Gen, QueueOrdered
<1>4. TypeOK'
  BY <1>0, <1>1 DEF SessionInv, TypeOK, Sound
<1>5. Addressed'
  <2>1. \A i \in 1..Len(events') : events'[i].src = events'[i].gen /\ events'[i].gen <= page.gen
    BY <1>0, <1>1, <1>3 DEF SessionInv, Addressed, Own
  <2>2. QED
    BY <1>0, <1>1, <2>1 DEF SessionInv, Addressed, Sound, FreshIsOwn
<1>6. NothingYet'
  <2>1. page.gen = 0 => events' = << >> /\ wk'.pipe = NoPipeline
    BY <1>0, <1>1, <1>2, NoneFacts DEF SessionInv, NothingYet
  <2>2. ASSUME page.mse \in {"none", "opening"}, NEW i \in 1..Len(events') PROVE events'[i].gen < page.gen
    <3>1. CASE page.gen = 0
      <4>1. events' = events
        BY <1>0, <1>1, <3>1, NoneFacts DEF SessionInv, NothingYet
      <4>2. QED
        BY <2>2, <4>1 DEF SessionInv, NothingYet
    <3>2. CASE page.gen # 0
      BY <1>0, <1>1, <2>2, <3>2 DEF SessionInv, NothingYet, Own
    <3>3. QED
      BY <3>1, <3>2
  <2>3. QED
    BY <1>0, <1>1, <2>1, <2>2 DEF SessionInv, NothingYet
<1>7. QueueOrdered'
  BY <1>0, <1>1, <1>2 DEF SessionInv, QueueOrdered, ExistsAfter, Loads
<1>8. PauseAgrees'
  BY <1>0, <1>1 DEF SessionInv, PauseAgrees
<1>9. NothingHeldBack'
  BY <1>0, <1>1 DEF Sound, NothingHeldBack
<1>10. LoadUnderWay'
  <2>1. Reported => Reported'
    BY <1>0, <1>1 DEF Reported
  <2>2. Reports(next) /\ wk.gen = page.gen => Reported'
    BY <1>0, <1>1 DEF Reported
  <2>3. QED
    BY <1>0, <1>1, <2>1, <2>2 DEF SessionInv, LoadUnderWay, Goes, Loads
<1>11. QuietStep
  BY <1>1 DEF Task, QuietStep
<1>12. QED
  BY <1>4, <1>5, <1>6, <1>7, <1>8, <1>9, <1>10, <1>11 DEF SessionInv

\* The first command finds what it is for, and the rest moves up.
LEMMA CommandFacts ==
    ASSUME SessionInv, commands # << >>
    PROVE  /\ Head(commands) \in Command /\ Head(commands) = commands[1] /\ Fits(wk, Head(commands))
           /\ Tail(commands) \in Seq(Command) /\ Len(Tail(commands)) = Len(commands) - 1
           /\ Len(commands) \in Nat \ {0}
           /\ \A i \in 1..Len(Tail(commands)) :
                i + 1 \in 1..Len(commands) /\ Tail(commands)[i] = commands[i + 1]
<1>1. commands \in Seq(Command)
  BY DEF SessionInv, TypeOK
<1>2. /\ Head(commands) \in Command /\ Head(commands) = commands[1]
      /\ Tail(commands) \in Seq(Command) /\ Len(Tail(commands)) = Len(commands) - 1
      /\ Len(commands) \in Nat \ {0}
      /\ \A i \in 1..Len(Tail(commands)) :
           i + 1 \in 1..Len(commands) /\ Tail(commands)[i] = commands[i + 1]
  BY <1>1, Dropped
<1>3. 1 \in 1..Len(commands) /\ 1 - 1 = 0
  BY <1>2
<1>4. /\ commands[1].type = "init" => ~ExistsAfter(0)
      /\ commands[1].type \notin {"init", "reset"} => ExistsAfter(0)
  BY <1>3 DEF SessionInv, QueueOrdered
<1>5. Fits(wk, Head(commands))
  BY <1>2, <1>4 DEF Fits, ExistsAfter
<1>6. QED
  BY <1>2, <1>5

LEMMA CommandStep == ASSUME SessionInv, HandleCommand PROVE SessionInv'
<1> DEFINE c == commands[1]
           L == Len(commands)
<1>0. PICK flushed \in Flushes : Work(Handle(wk, Head(commands), flushed))
  BY DEF HandleCommand
<1> DEFINE h == Handle(wk, c, flushed)
<1>1. commands # << >> /\ Head(commands) = c /\ Work(h) /\ commands' = Tail(commands) /\ page' = page
  BY <1>0, CommandFacts DEF HandleCommand
<1>2. /\ c \in Command /\ Fits(wk, c) /\ commands' \in Seq(Command) /\ L \in Nat \ {0}
      /\ Len(commands') = L - 1
      /\ \A i \in 1..Len(commands') : i + 1 \in 1..L /\ commands'[i] = commands[i + 1]
  BY <1>1, CommandFacts
<1>3. /\ Sound(h)
      /\ h.gen = IF Loads(c) THEN c.gen ELSE wk.gen
      /\ h.pipe # NoPipeline <=> c.type # "reset"
      /\ c.type # "reset" => (h.pipe.paused <=> c.type = "pause")
      /\ c.type \in {"start", "load-segments"} => Goes(h)
      /\ c.type \in {"pause", "resume"} /\ wk.pipe.at # "none" => Goes(h)
  BY <1>2, WorkerIsSound, HandleFacts
<1> HIDE DEF h
<1>4. /\ wk' \in [gen : Gen, pipe : Pipeline, stale : SUBSET Gen,
                  frames : Seq([src : Gen, fresh : BOOLEAN]), out : {<< >>}]
      /\ wk'.gen = h.gen /\ wk'.pipe = h.pipe /\ wk'.frames = h.frames
      /\ events' \in Seq(Message)
      /\ \A i \in 1..Len(events) : i \in 1..Len(events') /\ events'[i] = events[i]
      /\ \A i \in 1..Len(events') :
           (i \in 1..Len(events) /\ events'[i] = events[i]) \/ events'[i] \in Own(h.gen)
      /\ Reports(h) => \E i \in 1..Len(events') :
           events'[i].gen = h.gen /\ events'[i].type \in {"complete", "error"}
  BY <1>1, <1>3, WorkFacts
<1>5. /\ page.gen \in Nat /\ wk.gen \in Nat /\ wk.gen <= page.gen /\ h.gen \in Nat
      /\ 1 \in 1..L /\ page.gen # 0
  BY <1>1, <1>2, <1>4, Constants DEF SessionInv, TypeOK, Controller, Gen, QueueOrdered, NothingYet
<1>6. /\ Loads(c) => wk.gen < c.gen /\ c.gen <= page.gen
      /\ Loads(c) /\ page.mse \in {"none", "opening"} => c.gen < page.gen
      /\ c.type = "reset" => wk.gen < page.gen
      /\ c.type = "init" => 1 < L /\ commands[2].type = "start"
  <2>1. 1 + 1 = 2
    OBVIOUS
  <2>2. QED
    BY <1>5, <2>1 DEF SessionInv, QueueOrdered
<1>7. h.gen <= page.gen /\ (page.mse \in {"none", "opening"} => h.gen < page.gen)
  BY <1>3, <1>5, <1>6 DEF SessionInv, NothingYet
<1>8. TypeOK'
  BY <1>1, <1>2, <1>3, <1>4 DEF SessionInv, TypeOK, Sound
<1>9. Addressed'
  <2>1. \A i \in 1..Len(events') : events'[i].src = events'[i].gen /\ events'[i].gen <= page.gen
    BY <1>4, <1>7 DEF SessionInv, Addressed, Own
  <2>2. QED
    BY <1>1, <1>3, <1>4, <2>1 DEF SessionInv, Addressed, Sound, FreshIsOwn
<1>10. NothingYet'
  <2>1. ASSUME page.mse \in {"none", "opening"}, NEW i \in 1..Len(events') PROVE events'[i].gen < page.gen
    BY <1>4, <1>7, <2>1 DEF SessionInv, NothingYet, Own
  <2>2. QED
    BY <1>1, <1>4, <1>5, <1>7, <2>1 DEF SessionInv, NothingYet
<1>11. ASSUME NEW i \in 0..Len(commands') PROVE ExistsAfter(i)' <=> ExistsAfter(i + 1)
  <2>1. CASE i = 0
    BY <1>3, <1>4, <2>1 DEF ExistsAfter
  <2>2. CASE i # 0
    <3>1. i \in 1..Len(commands') /\ i + 1 # 0
      BY <1>2, <2>2
    <3>2. commands'[i] = commands[i + 1]
      BY <1>2, <3>1
    <3>3. QED
      BY <2>2, <3>1, <3>2 DEF ExistsAfter
  <2>3. QED
    BY <2>1, <2>2
<1>12. QueueOrdered'
  <2>1. ASSUME NEW i \in 1..Len(commands')
        PROVE  /\ Loads(commands'[i]) =>
                    /\ wk'.gen < commands'[i].gen /\ commands'[i].gen <= page'.gen
                    /\ page'.mse \in {"none", "opening"} => commands'[i].gen < page'.gen
               /\ commands'[i].type = "reset" => wk'.gen < page'.gen
    <3> DEFINE d == commands[i + 1]
    <3>1. i + 1 \in 1..L /\ 1 < i + 1 /\ commands'[i] = d
      BY <1>2
    <3>2. /\ Loads(d) => wk.gen < d.gen /\ d.gen <= page.gen
          /\ Loads(d) /\ page.mse \in {"none", "opening"} => d.gen < page.gen
          /\ d.type = "reset" => wk.gen < page.gen
          /\ Loads(c) /\ Loads(d) => c.gen < d.gen
          /\ Loads(c) /\ d.type = "reset" => c.gen < page.gen
      BY <1>5, <3>1 DEF SessionInv, QueueOrdered
    <3> HIDE DEF d
    <3>3. QED
      BY <1>1, <1>3, <1>4, <3>1, <3>2
  <2>2. ASSUME NEW i \in 1..Len(commands')
        PROVE  /\ commands'[i].type = "init" =>
                    /\ ~ExistsAfter(i - 1)'
                    /\ i < Len(commands') /\ commands'[i + 1].type = "start"
               /\ commands'[i].type \notin {"init", "reset"} => ExistsAfter(i - 1)'
    <3>1. /\ i + 1 \in 1..L /\ commands'[i] = commands[i + 1] /\ i - 1 \in 0..Len(commands')
          /\ (i - 1) + 1 = i /\ (i + 1) - 1 = i /\ (i + 1) + 1 = i + 2
      BY <1>2
    <3>2. ExistsAfter(i - 1)' <=> ExistsAfter(i)
      BY <1>11, <3>1
    <3>3. /\ commands[i + 1].type = "init" =>
               ~ExistsAfter(i) /\ i + 1 < L /\ commands[i + 2].type = "start"
          /\ commands[i + 1].type \notin {"init", "reset"} => ExistsAfter(i)
      BY <3>1 DEF SessionInv, QueueOrdered
    <3>4. i + 1 < L => i + 1 \in 1..Len(commands') /\ i < Len(commands')
      BY <1>2, <3>1
    <3>5. i + 1 < L => commands'[i + 1] = commands[i + 2]
      BY <1>2, <3>1, <3>4
    <3>6. QED
      BY <3>1, <3>2, <3>3, <3>4, <3>5
  <2>3. ASSUME NEW i \in 1..Len(commands'), NEW j \in 1..Len(commands'), i < j, Loads(commands'[i])
        PROVE  /\ Loads(commands'[j]) => commands'[i].gen < commands'[j].gen
               /\ commands'[j].type = "reset" => commands'[i].gen < page'.gen
    <3>1. /\ i + 1 \in 1..L /\ j + 1 \in 1..L /\ i + 1 < j + 1
          /\ commands'[i] = commands[i + 1] /\ commands'[j] = commands[j + 1]
      BY <1>2, <2>3
    <3>2. QED
      BY <1>1, <2>3, <3>1 DEF SessionInv, QueueOrdered
  <2>4. page'.alive => (page'.initialized <=> IF Len(commands') = 0 THEN wk'.pipe # NoPipeline
                                              ELSE commands'[Len(commands')].type # "reset")
    <3>1. page.alive => (page.initialized <=> commands[L].type # "reset")
      BY <1>2 DEF SessionInv, QueueOrdered, ExistsAfter
    <3>2. CASE L = 1
      BY <1>1, <1>2, <1>3, <1>4, <3>1, <3>2
    <3>3. CASE L # 1
      <4>1. Len(commands') \in 1..Len(commands') /\ Len(commands') + 1 = L /\ Len(commands') # 0
        BY <1>2, <3>3
      <4>2. commands'[Len(commands')] = commands[L]
        BY <1>2, <4>1
      <4>3. QED
        BY <1>1, <3>1, <4>1, <4>2
    <3>4. QED
      BY <3>2, <3>3
  <2>5. wk'.gen <= page'.gen
    BY <1>1, <1>4, <1>7
  <2>6. QED
    BY <2>1, <2>2, <2>3, <2>4, <2>5 DEF QueueOrdered, Loads, ExistsAfter
<1>13. PauseAgrees'
  <2> SUFFICES ASSUME page.mse = "open"
               PROVE  (page.watermark \/ page.full) <=>
                        IF commands' = << >> THEN wk'.pipe.paused
                        ELSE commands'[Len(commands')].type = "pause"
    BY <1>1 DEF PauseAgrees
  <2>1. (page.watermark \/ page.full) <=> commands[L].type = "pause"
    BY <1>1 DEF SessionInv, PauseAgrees
  <2>2. CASE L = 1
    <3>1. commands' = << >>
      BY <1>2, <2>2, EmptySeq
    <3>2. c.type # "reset"
      BY <1>5, <2>2 DEF SessionInv, NothingYet, QueueOrdered, ExistsAfter
    <3>3. QED
      BY <1>3, <1>4, <2>1, <2>2, <3>1, <3>2
  <2>3. CASE L # 1
    <3>1. Len(commands') \in 1..Len(commands') /\ Len(commands') + 1 = L /\ Len(commands') # 0
      BY <1>2, <2>3
    <3>2. commands'[Len(commands')] = commands[L] /\ commands' # << >>
      BY <1>2, <3>1
    <3>3. QED
      BY <2>1, <3>2
  <2>4. QED
    BY <2>2, <2>3
<1>14. NothingHeldBack'
  BY <1>3, <1>4 DEF Sound, NothingHeldBack
<1>15. LoadUnderWay'
  <2> SUFFICES ASSUME page.mse = "open"
               PROVE  \/ \E i \in 1..Len(commands') : Loads(commands'[i]) /\ commands'[i].gen = page.gen
                      \/ wk'.gen = page.gen /\ commands' # << >> /\ commands'[1].type = "start"
                      \/ wk'.gen = page.gen /\ (wk'.pipe.at \notin {"none", "gone"} \/ Reported')
    BY <1>1 DEF LoadUnderWay, Loads
  <2>1. Reported => Reported'
    BY <1>1, <1>4 DEF Reported
  <2>2. h.gen = page.gen /\ Goes(h) => wk'.pipe.at \notin {"none", "gone"} \/ Reported'
    BY <1>1, <1>4 DEF Reported, Goes
  <2>3. CASE \E i \in 1..L : Loads(commands[i]) /\ commands[i].gen = page.gen
    <3>1. PICK i \in 1..L : Loads(commands[i]) /\ commands[i].gen = page.gen
      BY <2>3
    <3>2. CASE i = 1
      <4>1. h.gen = page.gen /\ c.type \in {"init", "load-segments"}
        BY <1>3, <3>1, <3>2 DEF Loads
      <4>2. CASE c.type = "init"
        <5>1. 1 \in 1..Len(commands') /\ 1 + 1 = 2 /\ Len(commands') # 0
          BY <1>2, <1>6, <4>2
        <5>2. commands'[1].type = "start" /\ commands' # << >>
          BY <1>2, <1>6, <4>2, <5>1
        <5>3. QED
          BY <1>4, <4>1, <5>2
      <4>3. CASE c.type = "load-segments"
        BY <1>3, <1>4, <2>2, <4>1, <4>3
      <4>4. QED
        BY <4>1, <4>2, <4>3
    <3>3. CASE i # 1
      <4>1. i - 1 \in 1..Len(commands') /\ (i - 1) + 1 = i
        BY <1>2, <3>3
      <4>2. commands'[i - 1] = commands[i]
        BY <1>2, <4>1
      <4>3. QED
        BY <3>1, <4>1, <4>2
    <3>4. QED
      BY <3>2, <3>3
  <2>4. CASE wk.gen = page.gen
    <3>1. c.type \in {"start", "pause", "resume"} /\ h.gen = page.gen
      BY <1>2, <1>3, <1>5, <1>6, <2>4, CommandTypes DEF Loads
    <3>2. wk.pipe.at # "gone"
      BY <1>2, <3>1, WorkerIsSound DEF Fits, Sound
    <3>3. CASE Goes(h)
      BY <1>4, <2>2, <3>1, <3>3
    <3>4. CASE ~Goes(h)
      <4>1. wk.pipe.at = "none" /\ c.type # "start"
        BY <1>3, <3>1, <3>4
      <4>2. Reported \/ \E i \in 1..L : Loads(commands[i]) /\ commands[i].gen = page.gen
        BY <4>1 DEF SessionInv, LoadUnderWay
      <4>3. QED
        BY <1>4, <2>1, <2>3, <3>1, <4>2
    <3>5. QED
      BY <3>3, <3>4
  <2>5. QED
    BY <2>3, <2>4 DEF SessionInv, LoadUnderWay
<1>16. QED
  BY <1>8, <1>9, <1>10, <1>12, <1>13, <1>14, <1>15 DEF SessionInv
-----------------------------------------------------------------------------
(* What the network, the decoder and the segment sources bring.              *)

\* A load loop that stands somewhere works for the worker's load.
LEMMA Running ==
    ASSUME SessionInv, wk.pipe.at \notin {"none", "gone"}
    PROVE  /\ wk \in Worker /\ wk.pipe \in Pipeline /\ Base(wk) /\ FreshIsOwn(wk)
           /\ wk.pipe.src = wk.gen /\ wk.out = << >>
           /\ wk.pipe.at = "load" <=> wk.pipe.ioctl # "none"
           /\ wk.pipe.at = "gate" <=> wk.pipe.gate # "none"
BY WorkerIsSound DEF Sound, Base, Worker

\* The loop ends with a message that says so.
LEMMA EndFacts ==
    ASSUME NEW w, Base(w), FreshIsOwn(w), w.pipe.ioctl = "none", Reports(w)
    PROVE  /\ Sound(At(w, "none")) /\ SameLoad(At(w, "none"), w) /\ Goes(At(w, "none"))
           /\ At(w, "none").pipe.at = "none"
<1> DEFINE v == At(w, "none")
<1>1. /\ v \in Worker /\ SameLoad(v, w) /\ v.out = w.out /\ v.frames = w.frames
      /\ v.pipe.at = "none" /\ v.pipe.gate = "none" /\ v.pipe.ioctl = "none"
  BY AtFacts DEF Base
<1> HIDE DEF v
<1>2. Sound(v)
  BY <1>1 DEF Sound, Base, FreshIsOwn, SameLoad
<1>3. Goes(v)
  BY <1>1 DEF Goes, Reports
<1>4. QED
  BY <1>1, <1>2, <1>3 DEF v

\* The loader's state changes.
Ioctl(w, x) == [w EXCEPT !.pipe.ioctl = x]

LEMMA IoctlFacts ==
    ASSUME NEW w, Base(w), FreshIsOwn(w), NEW x \in {"none", "connecting", "buffering", "text"}
    PROVE  /\ Base(Ioctl(w, x)) /\ FreshIsOwn(Ioctl(w, x)) /\ SameLoad(Ioctl(w, x), w)
           /\ Ioctl(w, x).out = w.out /\ Ioctl(w, x).frames = w.frames
           /\ Ioctl(w, x).pipe.at = w.pipe.at /\ Ioctl(w, x).pipe.gate = w.pipe.gate
           /\ Ioctl(w, x).pipe.ioctl = x
<1> DEFINE v == Ioctl(w, x)
           p == [w.pipe EXCEPT !.ioctl = x]
<1>1. w \in Worker /\ w.pipe \in Pipeline /\ v = [w EXCEPT !.pipe = p]
  BY DEF Base, Worker, Ioctl
<1>2. /\ p \in Pipeline /\ p.at = w.pipe.at /\ p.gate = w.pipe.gate /\ p.ioctl = x
      /\ p.src = w.pipe.src /\ p.paused = w.pipe.paused /\ p.mode = w.pipe.mode
  BY <1>1 DEF Pipeline
<1> HIDE DEF p, v
<1>3. /\ v \in Worker /\ v.gen = w.gen /\ v.stale = w.stale /\ v.frames = w.frames /\ v.out = w.out
      /\ v.pipe = p
  BY <1>1, <1>2 DEF Worker
<1>4. Base(v) /\ FreshIsOwn(v) /\ SameLoad(v, w)
  BY <1>2, <1>3 DEF Base, FreshIsOwn, SameLoad
<1>5. QED
  BY <1>2, <1>3, <1>4 DEF v

LEMMA SourceNextStep ==
    ASSUME SessionInv, NEW newInit \in BOOLEAN, NEW reset \in BOOLEAN, SourceNext(newInit, reset)
    PROVE  SessionInv' /\ QuietStep
<1>1. PICK info \in IF wk.pipe.known THEN {<< >>} ELSE {<<"hls-live">>, <<"hls-vod">>} :
        LET i == Post([wk EXCEPT !.pipe.known = TRUE], info)
            r == IF reset THEN ResetAudio(i) ELSE i
        IN  InWorker(IF newInit THEN Gated(r, "init") ELSE Load(r))
  BY DEF SourceNext
<1> DEFINE k == [wk EXCEPT !.pipe.known = TRUE]
           p == [wk.pipe EXCEPT !.known = TRUE]
           i == Post(k, info)
           r == IF reset THEN ResetAudio(i) ELSE i
           n == IF newInit THEN Gated(r, "init") ELSE Load(r)
<1>2. /\ wk \in Worker /\ wk.pipe \in Pipeline /\ Base(wk) /\ FreshIsOwn(wk) /\ wk.pipe.at = "next"
      /\ wk.pipe.src = wk.gen /\ wk.pipe.ioctl = "none" /\ wk.pipe.gate = "none"
  BY Running DEF SourceNext
<1>3. /\ p \in Pipeline /\ p.ioctl = "none" /\ p.src = wk.pipe.src /\ p.paused = wk.pipe.paused
  BY <1>2 DEF Pipeline
<1>4. k = [wk EXCEPT !.pipe = p]
  BY <1>2 DEF Worker
<1>5. InWorker(n)
  BY <1>1
<1> HIDE DEF p, k
<1>6. k \in Worker /\ k.gen = wk.gen /\ k.frames = wk.frames /\ k.out = wk.out /\ k.pipe = p
  BY <1>2, <1>3, <1>4 DEF Worker
<1>7. Base(k) /\ FreshIsOwn(k)
  BY <1>2, <1>6 DEF Base, FreshIsOwn
<1>8. info \in Seq(MessageTypes)
  BY Listed
<1>9. Base(i) /\ i.pipe = p /\ i.gen = wk.gen /\ i.frames = wk.frames
  BY <1>2, <1>3, <1>6, <1>7, <1>8, PostFacts
<1>10. FreshIsOwn(i)
  BY <1>2, <1>9 DEF FreshIsOwn
<1> HIDE DEF i
<1>11. Base(r) /\ FreshIsOwn(r) /\ r.pipe = p /\ r.gen = wk.gen
  BY <1>9, <1>10, ResetFacts DEF SameLoad
<1> HIDE DEF r
<1>12. CASE newInit
  <2>1. n = Gated(r, "init")
    BY <1>12
  <2>2. /\ n \in Worker /\ SameLoad(n, r) /\ n.out = r.out /\ n.frames = r.frames
        /\ n.pipe.ioctl = "none"
        /\ wk.pipe.paused => n.pipe.at = "gate" /\ n.pipe.gate = "init"
        /\ ~wk.pipe.paused => n.pipe.at = "init" /\ n.pipe.gate = "none"
    BY <1>3, <1>11, <2>1, GatedFacts, AtFacts DEF Base
  <2> HIDE DEF n
  <2>3. Sound(n)
    BY <1>2, <1>3, <1>11, <2>2 DEF Sound, Base, FreshIsOwn, SameLoad
  <2>4. Task(n)
    BY <1>2, <1>3, <1>11, <2>2, <2>3 DEF Task, SameLoad, Goes
  <2>5. QED
    BY <1>5, <2>4, TaskStep
<1>13. CASE ~newInit
  <2>1. n = Load(r)
    BY <1>13
  <2>2. /\ Sound(n) /\ SameLoad(n, r) /\ n.pipe.at \in {"gate", "load"} /\ Goes(n)
        /\ wk.pipe.paused => n.pipe.at = "gate"
    BY <1>2, <1>3, <1>11, <2>1, LoadFacts
  <2> HIDE DEF n
  <2>3. Task(n)
    BY <1>2, <1>3, <1>11, <2>2 DEF Task, SameLoad
  <2>4. QED
    BY <1>5, <2>3, TaskStep
<1>14. QED
  BY <1>12, <1>13

LEMMA EndsWith ==
    ASSUME NEW s \in Seq(MessageTypes), NEW t \in Seq(MessageTypes), Len(t) = 1, t[1] = "complete"
    PROVE  /\ s \o t \in Seq(MessageTypes)
           /\ \E j \in 1..Len(s \o t) : (s \o t)[j] \in {"complete", "error"}
<1>1. s \o t \in Seq(MessageTypes) /\ Len(s \o t) = Len(s) + Len(t) /\ Len(s) \in Nat
  BY ConcatProperties, LenProperties
<1>2. (s \o t)[Len(s) + 1] = t[1]
  BY ConcatProperties, LenProperties
<1>3. QED
  BY <1>1, <1>2

LEMMA SourceEndsStep == ASSUME SessionInv, SourceEnds PROVE SessionInv' /\ QuietStep
<1>1. PICK flushed \in Flushes : InWorker(At(Post(wk, flushed \o <<"complete">>), "none"))
  BY DEF SourceEnds
<1> DEFINE ts == flushed \o <<"complete">>
           p == Post(wk, ts)
           n == At(p, "none")
<1>2. /\ Base(wk) /\ FreshIsOwn(wk) /\ wk.pipe.at = "next" /\ wk.pipe.src = wk.gen /\ wk.pipe.ioctl = "none"
  BY Running DEF SourceEnds
<1>3. ts \in Seq(MessageTypes) /\ \E j \in 1..Len(ts) : ts[j] \in {"complete", "error"}
  <2> DEFINE end == <<"complete">>
  <2>1. /\ flushed \in Seq(MessageTypes) /\ end \in Seq(MessageTypes) /\ Len(end) = 1
        /\ end[1] = "complete" /\ ts = flushed \o end
    BY Listed, FlushTypes
  <2> HIDE DEF end, ts
  <2>2. QED
    BY <2>1, EndsWith
<1> HIDE DEF ts
<1>4. Base(p) /\ p.pipe = wk.pipe /\ p.gen = wk.gen /\ p.frames = wk.frames /\ Reports(p)
  BY <1>2, <1>3, PostFacts
<1> HIDE DEF p
<1>5. Sound(n) /\ SameLoad(n, p) /\ Goes(n) /\ n.pipe.at = "none"
  BY <1>2, <1>4, EndFacts DEF FreshIsOwn
<1>6. InWorker(n)
  BY <1>1 DEF p, ts
<1> HIDE DEF n
<1>7. Task(n)
  BY <1>2, <1>4, <1>5 DEF Task, SameLoad
<1>8. QED
  BY <1>6, <1>7, TaskStep

\* A load that fails: the source gives up, or the request for an init segment
\* or for a segment does.
LEMMA FailStep ==
    ASSUME SessionInv, wk.pipe.at \in {"next", "init", "body", "load"}, NEW v, InWorker(At(v, "none")),
           \/ v = Post(wk, <<"error">>) /\ wk.pipe.ioctl = "none"
           \/ v = Ioctl(Post(wk, <<"error">>), "none")
    PROVE  SessionInv' /\ QuietStep
<1> DEFINE p == Post(wk, <<"error">>)
           n == At(v, "none")
<1>1. Base(wk) /\ FreshIsOwn(wk) /\ wk.pipe.src = wk.gen
  BY Running
<1>2. Base(p) /\ p.pipe = wk.pipe /\ p.gen = wk.gen /\ p.frames = wk.frames /\ Reports(p)
  BY <1>1, Listed, PostOne
<1>3. FreshIsOwn(p) /\ ((v = p /\ wk.pipe.ioctl = "none") \/ v = Ioctl(p, "none"))
  BY <1>1, <1>2 DEF FreshIsOwn
<1> HIDE DEF p
<1>4. /\ Base(v) /\ FreshIsOwn(v) /\ SameLoad(v, p) /\ v.out = p.out /\ v.pipe.ioctl = "none"
  BY <1>2, <1>3, IoctlFacts DEF SameLoad
<1>5. Sound(n) /\ SameLoad(n, v) /\ Goes(n) /\ n.pipe.at = "none"
  BY <1>2, <1>4, EndFacts DEF Reports
<1>6. InWorker(n)
  OBVIOUS
<1> HIDE DEF n
<1>7. Task(n)
  BY <1>2, <1>4, <1>5 DEF Task, SameLoad
<1>8. QED
  BY <1>6, <1>7, TaskStep

LEMMA FailuresStep ==
    ASSUME SessionInv, SourceFails \/ InitFails \/ LoaderUnsupported \/ LoaderFails
    PROVE  SessionInv' /\ QuietStep
<1> DEFINE p == Post(wk, <<"error">>)
<1>1. CASE SourceFails \/ InitFails
  <2>1. wk.pipe.at \in {"next", "init", "body"} /\ InWorker(At(p, "none"))
    BY <1>1 DEF SourceFails, InitFails
  <2>2. wk.pipe.ioctl = "none"
    BY <2>1, Running
  <2>3. QED
    BY <2>1, <2>2, FailStep
<1>2. CASE LoaderUnsupported \/ LoaderFails
  <2>1. wk.pipe.at = "load" /\ InWorker(At(Ioctl(p, "none"), "none"))
    BY <1>2 DEF LoaderUnsupported, LoaderFails, Reading, Ioctl
  <2>2. QED
    BY <2>1, FailStep
<1>3. QED
  BY <1>1, <1>2

LEMMA InitAnsweredStep == ASSUME SessionInv, InitAnswered PROVE SessionInv' /\ QuietStep
<1> DEFINE n == [wk EXCEPT !.pipe.at = "body"]
           q == [wk.pipe EXCEPT !.at = "body"]
<1>1. /\ Base(wk) /\ FreshIsOwn(wk) /\ wk.pipe.src = wk.gen /\ wk.pipe.at = "init"
      /\ wk.pipe.ioctl = "none" /\ wk.pipe.gate = "none" /\ Sound(wk) /\ wk \in Worker
      /\ wk.pipe \in Pipeline /\ wk.out = << >>
  BY Running, WorkerIsSound DEF InitAnswered, Base, Worker
<1>2. /\ q \in Pipeline /\ q.at = "body" /\ q.gate = "none" /\ q.ioctl = "none"
      /\ q.src = wk.pipe.src /\ q.paused = wk.pipe.paused
  BY <1>1 DEF Pipeline
<1>3. n = [wk EXCEPT !.pipe = q] /\ InWorker(n)
  BY <1>1 DEF InitAnswered, Worker, Pipeline
<1> HIDE DEF n, q
<1>4. /\ n \in Worker /\ n.gen = wk.gen /\ n.pipe = q /\ n.frames = wk.frames /\ n.out = wk.out
  BY <1>1, <1>2, <1>3 DEF Worker
<1>5. Sound(n)
  BY <1>1, <1>2, <1>4, NotGone DEF Sound, Base, FreshIsOwn
<1>6. Task(n)
  BY <1>1, <1>2, <1>4, <1>5 DEF Task, Goes
<1>7. QED
  BY <1>3, <1>6, TaskStep

LEMMA InitArrivesStep == ASSUME SessionInv, InitArrives PROVE SessionInv' /\ QuietStep
<1> DEFINE p == Post(wk, <<"init">>)
           n == Load(p)
<1>1. /\ Base(wk) /\ FreshIsOwn(wk) /\ wk.pipe.src = wk.gen /\ wk.pipe.at = "body" /\ wk.pipe.ioctl = "none"
  BY Running DEF InitArrives
<1>2. Base(p) /\ p.pipe = wk.pipe /\ p.gen = wk.gen /\ p.frames = wk.frames
  BY <1>1, Listed, PostOne
<1>3. FreshIsOwn(p)
  BY <1>1, <1>2 DEF FreshIsOwn
<1>4. InWorker(n)
  BY DEF InitArrives
<1> HIDE DEF p
<1>5. /\ Sound(n) /\ SameLoad(n, p) /\ n.pipe.at \in {"gate", "load"} /\ Goes(n)
      /\ p.pipe.paused => n.pipe.at = "gate"
  BY <1>1, <1>2, <1>3, LoadFacts
<1> HIDE DEF n
<1>6. Task(n)
  BY <1>1, <1>2, <1>5 DEF Task, SameLoad
<1>7. QED
  BY <1>4, <1>6, TaskStep

LEMMA StaleInitStep == ASSUME SessionInv, NEW src, StaleInit(src) PROVE SessionInv' /\ QuietStep
<1> DEFINE n == [wk EXCEPT !.stale = @ \ {src}]
<1>1. Sound(wk) /\ wk \in Worker /\ wk.out = << >>
  BY WorkerIsSound DEF Sound, Base
<1>2. /\ n \in Worker /\ n.gen = wk.gen /\ n.pipe = wk.pipe /\ n.frames = wk.frames /\ n.out = << >>
  BY <1>1 DEF Worker
<1>3. InWorker(n)
  BY DEF StaleInit
<1> HIDE DEF n
<1>4. Sound(n)
  BY <1>1, <1>2 DEF Sound, Base, FreshIsOwn
<1>5. Task(n)
  BY <1>2, <1>4 DEF Task
<1>6. QED
  BY <1>3, <1>5, TaskStep

LEMMA PlaylistStep == ASSUME SessionInv, LoaderPlaylist PROVE SessionInv' /\ QuietStep
<1> DEFINE n == Ioctl(wk, "text")
<1>1. /\ Base(wk) /\ FreshIsOwn(wk) /\ wk.pipe.src = wk.gen /\ wk.pipe.at = "load"
      /\ wk.pipe.gate = "none" /\ Sound(wk)
  BY Running, WorkerIsSound DEF LoaderPlaylist
<1>2. /\ Base(n) /\ FreshIsOwn(n) /\ SameLoad(n, wk) /\ n.out = wk.out
      /\ n.pipe.at = "load" /\ n.pipe.gate = "none" /\ n.pipe.ioctl = "text"
  BY <1>1, IoctlFacts
<1>3. InWorker(n)
  BY DEF LoaderPlaylist, Ioctl
<1> HIDE DEF n
<1>4. Sound(n)
  BY <1>1, <1>2 DEF Sound, SameLoad
<1>5. Task(n)
  BY <1>1, <1>2, <1>4 DEF Task, SameLoad, Goes
<1>6. QED
  BY <1>3, <1>5, TaskStep

LEMMA TextStep == ASSUME SessionInv, LoaderText PROVE SessionInv' /\ QuietStep
<1> DEFINE q == [wk.pipe EXCEPT !.ioctl = "none", !.mode = "hls", !.known = FALSE]
           h == [wk EXCEPT !.pipe.ioctl = "none", !.pipe.mode = "hls", !.pipe.known = FALSE]
           n == NextSegment(h)
<1>1. /\ wk \in Worker /\ Base(wk) /\ FreshIsOwn(wk) /\ wk.pipe.src = wk.gen /\ wk.pipe.at = "load"
      /\ wk.pipe \in Pipeline
  BY Running DEF LoaderText
<1>2. q \in Pipeline /\ q.ioctl = "none" /\ q.src = wk.pipe.src /\ q.paused = wk.pipe.paused
  BY <1>1 DEF Pipeline
<1>3. h = [wk EXCEPT !.pipe = q]
  BY <1>1 DEF Worker, Pipeline
<1>4. InWorker(n)
  BY DEF LoaderText
<1> HIDE DEF q, h
<1>5. h \in Worker /\ h.gen = wk.gen /\ h.pipe = q /\ h.frames = wk.frames /\ h.out = wk.out
  BY <1>1, <1>2, <1>3 DEF Worker
<1>6. Base(h) /\ FreshIsOwn(h)
  BY <1>1, <1>5 DEF Base, FreshIsOwn
<1>7. /\ Sound(n) /\ SameLoad(n, h) /\ n.pipe.at # "gone" /\ Goes(n)
      /\ h.pipe.paused => n.pipe.at = "gate"
  BY <1>1, <1>2, <1>5, <1>6, NextFacts
<1> HIDE DEF n
<1>8. Task(n)
  BY <1>1, <1>2, <1>5, <1>7 DEF Task, SameLoad
<1>9. QED
  BY <1>4, <1>8, TaskStep

LEMMA ChunkStep ==
    ASSUME SessionInv, NEW posts \in Posts, LoaderChunk(posts) PROVE SessionInv' /\ QuietStep
<1> DEFINE b == Ioctl(wk, "buffering")
           n == Post(b, posts)
<1>1. /\ Base(wk) /\ FreshIsOwn(wk) /\ wk.pipe.src = wk.gen /\ wk.pipe.at = "load"
      /\ wk.pipe.gate = "none" /\ Sound(wk)
  BY Running, WorkerIsSound DEF LoaderChunk, Reading
<1>2. /\ Base(b) /\ FreshIsOwn(b) /\ SameLoad(b, wk)
      /\ b.pipe.at = "load" /\ b.pipe.gate = "none" /\ b.pipe.ioctl = "buffering"
  BY <1>1, IoctlFacts
<1>3. InWorker(n)
  BY DEF LoaderChunk, Ioctl
<1>4. posts \in Seq(MessageTypes)
  BY Listed DEF Posts
<1> HIDE DEF b
<1>5. Base(n) /\ n.pipe = b.pipe /\ n.gen = b.gen /\ n.frames = b.frames
  BY <1>1, <1>2, <1>4, PostFacts DEF SameLoad
<1> HIDE DEF n
<1>6. Sound(n)
  BY <1>1, <1>2, <1>5 DEF Sound, SameLoad, FreshIsOwn
<1>7. Task(n)
  BY <1>1, <1>2, <1>5, <1>6 DEF Task, SameLoad, Goes
<1>8. QED
  BY <1>3, <1>7, TaskStep

LEMMA DoneStep == ASSUME SessionInv, LoaderDone PROVE SessionInv' /\ QuietStep
<1> DEFINE b == Ioctl(wk, "none")
<1>1. PICK flushed \in Flushes :
        LET d == Post(b, flushed)
        IN  InWorker(NextSegment(IF wk.pipe.mode = "hls" THEN d ELSE ResetAudio(d)))
  BY DEF LoaderDone, Ioctl
<1> DEFINE d == Post(b, flushed)
           r == IF wk.pipe.mode = "hls" THEN d ELSE ResetAudio(d)
           n == NextSegment(r)
<1>2. /\ Base(wk) /\ FreshIsOwn(wk) /\ wk.pipe.src = wk.gen /\ wk.pipe.at = "load"
  BY Running DEF LoaderDone, Reading
<1>3. InWorker(n)
  BY <1>1
<1>4. Base(b) /\ FreshIsOwn(b) /\ SameLoad(b, wk) /\ b.pipe.ioctl = "none"
  BY <1>2, IoctlFacts
<1>5. flushed \in Seq(MessageTypes)
  BY FlushTypes
<1> HIDE DEF b
<1>6. Base(d) /\ d.pipe = b.pipe /\ d.gen = b.gen /\ d.frames = b.frames
  BY <1>2, <1>4, <1>5, PostFacts DEF SameLoad
<1>7. FreshIsOwn(d)
  BY <1>4, <1>6 DEF FreshIsOwn
<1> HIDE DEF d
<1>8. Base(r) /\ FreshIsOwn(r) /\ r.pipe = b.pipe /\ r.gen = b.gen
  BY <1>6, <1>7, ResetFacts DEF SameLoad
<1> HIDE DEF r
<1>9. /\ Sound(n) /\ SameLoad(n, r) /\ n.pipe.at # "gone" /\ Goes(n)
      /\ r.pipe.paused => n.pipe.at = "gate"
  BY <1>2, <1>4, <1>8, NextFacts DEF SameLoad
<1> HIDE DEF n
<1>10. Task(n)
  BY <1>2, <1>4, <1>8, <1>9 DEF Task, SameLoad
<1>11. QED
  BY <1>3, <1>10, TaskStep

LEMMA AudioFrameStep == ASSUME SessionInv, AudioFrame PROVE SessionInv' /\ QuietStep
<1> DEFINE Frame == [src : Gen, fresh : BOOLEAN]
           f == [src |-> wk.pipe.src, fresh |-> TRUE]
           b == Ioctl(wk, "buffering")
           n == [b EXCEPT !.frames = Append(wk.frames, f)]
<1>1. /\ Base(wk) /\ FreshIsOwn(wk) /\ wk.pipe.src = wk.gen /\ wk.pipe.at = "load"
      /\ wk.pipe.gate = "none" /\ Sound(wk) /\ wk \in Worker
  BY Running, WorkerIsSound DEF AudioFrame, Reading
<1>2. /\ Base(b) /\ SameLoad(b, wk) /\ b.frames = wk.frames
      /\ b.pipe.at = "load" /\ b.pipe.gate = "none" /\ b.pipe.ioctl = "buffering"
  BY <1>1, IoctlFacts
<1>3. InWorker(n)
  BY <1>1 DEF AudioFrame, Ioctl, Worker
<1>4. wk.frames \in Seq(Frame) /\ f \in Frame /\ f.src = wk.gen
  BY <1>1 DEF Worker
<1> HIDE DEF f, b
<1>5. /\ Append(wk.frames, f) \in Seq(Frame) /\ Len(Append(wk.frames, f)) = Len(wk.frames) + 1
      /\ \A i \in 1..Len(wk.frames) : Append(wk.frames, f)[i] = wk.frames[i]
      /\ Append(wk.frames, f)[Len(wk.frames) + 1] = f /\ Len(wk.frames) \in Nat
  BY <1>4, AppendProperties, LenProperties
<1>6. /\ n \in Worker /\ n.frames = Append(wk.frames, f) /\ n.gen = wk.gen /\ n.pipe = b.pipe
      /\ n.out = b.out
  BY <1>2, <1>5 DEF Base, Worker, SameLoad
<1> HIDE DEF n
<1>7. FreshIsOwn(n)
  <2> SUFFICES ASSUME NEW i \in 1..Len(n.frames), n.frames[i].fresh PROVE n.frames[i].src = n.gen
    BY DEF FreshIsOwn
  <2>1. CASE i = Len(wk.frames) + 1
    BY <1>4, <1>5, <1>6, <2>1
  <2>2. CASE i # Len(wk.frames) + 1
    <3>1. i \in 1..Len(wk.frames)
      BY <1>5, <1>6, <2>2
    <3>2. QED
      BY <1>1, <1>5, <1>6, <3>1 DEF FreshIsOwn
  <2>3. QED
    BY <2>1, <2>2
<1>8. Sound(n)
  BY <1>1, <1>2, <1>6, <1>7 DEF Sound, Base, SameLoad
<1>9. Task(n)
  BY <1>1, <1>2, <1>6, <1>8 DEF Task, SameLoad, Goes
<1>10. QED
  BY <1>3, <1>9, TaskStep

LEMMA AudioDecodedStep == ASSUME SessionInv, AudioDecoded PROVE SessionInv' /\ QuietStep
<1> DEFINE Frame == [src : Gen, fresh : BOOLEAN]
           f == Head(wk.frames)
           d == [wk EXCEPT !.frames = Tail(@)]
           e == <<[type |-> "pcm", gen |-> wk.gen, src |-> f.src]>>
           n == IF f.fresh THEN [d EXCEPT !.out = e] ELSE d
<1>1. Base(wk) /\ FreshIsOwn(wk) /\ wk \in Worker /\ Sound(wk) /\ wk.out = << >>
  BY WorkerIsSound DEF Sound, Base
<1>2. wk.frames # << >> /\ InWorker(n) /\ wk.frames \in Seq(Frame) /\ wk.gen \in Gen
  BY <1>1 DEF AudioDecoded, Worker
<1>3. /\ Tail(wk.frames) \in Seq(Frame) /\ Len(wk.frames) \in Nat \ {0} /\ f \in Frame /\ f = wk.frames[1]
      /\ \A i \in 1..Len(Tail(wk.frames)) : i + 1 \in 1..Len(wk.frames) /\ Tail(wk.frames)[i] = wk.frames[i + 1]
  BY <1>2, Dropped
<1> HIDE DEF f
<1>4. /\ d \in Worker /\ d.frames = Tail(wk.frames) /\ d.gen = wk.gen /\ d.pipe = wk.pipe /\ d.out = << >>
  BY <1>1, <1>3 DEF Worker
<1>5. f.fresh => f.src = wk.gen
  <2>1. 1 \in 1..Len(wk.frames)
    BY <1>3
  <2>2. QED
    BY <1>1, <1>3, <2>1 DEF FreshIsOwn
<1>6. f.fresh => e \in Seq(Own(wk.gen)) /\ e \in Seq(Message)
  <2> SUFFICES ASSUME f.fresh PROVE e \in Seq(Own(wk.gen)) /\ e \in Seq(Message)
    OBVIOUS
  <2> DEFINE m == [type |-> "pcm", gen |-> wk.gen, src |-> f.src]
  <2>1. m \in Own(wk.gen) /\ m \in Message
    BY <1>2, <1>5, Listed DEF Own, Message
  <2>2. e = <<m>>
    OBVIOUS
  <2> HIDE DEF m, e
  <2>3. QED
    BY <2>1, <2>2
<1>7. << >> \in Seq(Own(wk.gen))
  OBVIOUS
<1> HIDE DEF d, e
<1>8. /\ n \in Worker /\ n.frames = Tail(wk.frames) /\ n.gen = wk.gen /\ n.pipe = wk.pipe
      /\ n.out \in Seq(Own(wk.gen))
  BY <1>4, <1>6, <1>7 DEF Worker
<1> HIDE DEF n
<1>9. FreshIsOwn(n)
  BY <1>1, <1>3, <1>8 DEF FreshIsOwn
<1>10. wk.pipe.at # "gone"
  BY <1>1, <1>2 DEF Sound
<1>11. Sound(n)
  BY <1>1, <1>8, <1>9, <1>10 DEF Sound, Base
<1>12. Task(n)
  BY <1>8, <1>10, <1>11 DEF Task
<1>13. QED
  BY <1>2, <1>12, TaskStep

LEMMA NetworkStep == ASSUME SessionInv, Network PROVE SessionInv' /\ QuietStep
BY SourceNextStep, SourceEndsStep, FailuresStep, InitAnsweredStep, InitArrivesStep, StaleInitStep, PlaylistStep, TextStep,
   ChunkStep, DoneStep, AudioFrameStep, AudioDecodedStep DEF Network
-----------------------------------------------------------------------------
(* The commands on the way, as the page adds to them.                        *)

\* QueueOrdered and its parts for a queue q, a worker w and a page p.
Exists(q, w, i) == IF i = 0 THEN w.pipe # NoPipeline ELSE q[i].type # "reset"

Entry(q, w, p, i) ==
    /\ Loads(q[i]) =>
         /\ w.gen < q[i].gen /\ q[i].gen <= p.gen
         /\ p.mse \in {"none", "opening"} => q[i].gen < p.gen
    /\ q[i].type = "reset" => w.gen < p.gen
    /\ q[i].type = "init" => ~Exists(q, w, i - 1)
    /\ q[i].type \notin {"init", "reset"} => Exists(q, w, i - 1)

Before(q, p, i, j) ==
    i < j /\ Loads(q[i]) => /\ Loads(q[j]) => q[i].gen < q[j].gen
                            /\ q[j].type = "reset" => q[i].gen < p.gen

Queued(q, w, p) ==
    /\ w.gen <= p.gen
    /\ \A i \in 1..Len(q) : Entry(q, w, p, i)
    /\ \A i, j \in 1..Len(q) : Before(q, p, i, j)
    /\ p.alive => (p.initialized <=> Exists(q, w, Len(q)))

Starts(q) == \A i \in 1..Len(q) : q[i].type = "init" => i < Len(q) /\ q[i + 1].type = "start"

LEMMA QueueParts ==
    /\ QueueOrdered <=> Queued(commands, wk, page) /\ Starts(commands)
    /\ QueueOrdered' <=> Queued(commands', wk', page') /\ Starts(commands')
<1>1. QueueOrdered <=> Queued(commands, wk, page) /\ Starts(commands)
  BY DEF QueueOrdered, Queued, Starts, Entry, Before, Exists, ExistsAfter, Loads
<1>2. QueueOrdered' <=> Queued(commands', wk', page') /\ Starts(commands')
  BY DEF QueueOrdered, Queued, Starts, Entry, Before, Exists, ExistsAfter, Loads
<1>3. QED
  BY <1>1, <1>2

\* A command at the end.
LEMMA Sent ==
    ASSUME NEW S, NEW q \in Seq(S), NEW c \in S
    PROVE  /\ q \o <<c>> \in Seq(S) /\ Len(q) \in Nat /\ Len(q \o <<c>>) = Len(q) + 1
           /\ (q \o <<c>>)[Len(q) + 1] = c
           /\ \A i \in 1..Len(q) : (q \o <<c>>)[i] = q[i]
<1>1. <<c>> \in Seq(S) /\ Len(<<c>>) = 1 /\ <<c>>[1] = c /\ Len(q) \in Nat
  BY LenProperties
<1>2. /\ q \o <<c>> \in Seq(S) /\ Len(q \o <<c>>) = Len(q) + Len(<<c>>)
      /\ \A i \in 1..(Len(q) + Len(<<c>>)) :
           (q \o <<c>>)[i] = IF i <= Len(q) THEN q[i] ELSE <<c>>[i - Len(q)]
  BY <1>1, ConcatProperties, Zenon
<1> DEFINE r == q \o <<c>>
           one == <<c>>
<1>3. one \in Seq(S) /\ Len(one) = 1 /\ one[1] = c
  BY <1>1
<1>4. /\ r \in Seq(S) /\ Len(r) = Len(q) + Len(one)
      /\ \A i \in 1..(Len(q) + Len(one)) : r[i] = IF i <= Len(q) THEN q[i] ELSE one[i - Len(q)]
  BY <1>2
<1> HIDE DEF r, one
<1>5. /\ r \in Seq(S) /\ Len(r) = Len(q) + 1 /\ \A i \in 1..Len(q) : r[i] = q[i]
  BY <1>1, <1>3, <1>4
<1>6. r[Len(q) + 1] = c
  <2>1. Len(q) + 1 \in 1..(Len(q) + Len(one)) /\ ~(Len(q) + 1 <= Len(q)) /\ (Len(q) + 1) - Len(q) = 1
    BY <1>1, <1>3
  <2>2. QED
    BY <1>3, <1>4, <2>1
<1>7. QED
  BY <1>1, <1>5, <1>6 DEF r

\* The page moves on to p2: its load number does not go back, and is a new one
\* when its media source is not open.
Onward(p, p2) ==
    /\ p.gen \in Nat /\ p2.gen \in Nat /\ p.gen <= p2.gen
    /\ p2.mse \in {"none", "opening"} => p.mse \in {"none", "opening"} \/ p.gen < p2.gen

LEMMA QueueKeep ==
    ASSUME NEW q \in Seq(Command), NEW w, NEW p, NEW p2, Queued(q, w, p), Onward(p, p2), w.gen \in Nat,
           p2.alive => p.alive, p2.initialized = p.initialized
    PROVE  Queued(q, w, p2)
<1>1. \A i \in 1..Len(q) : Loads(q[i]) => q[i].gen \in Nat
  <2>1. \A i \in 1..Len(q) : q[i] \in Command
    BY ElementOfSeq
  <2>2. QED
    BY <2>1, CommandTypes, Constants DEF Gen
<1>2. ASSUME NEW i \in 1..Len(q) PROVE Entry(q, w, p2, i)
  BY <1>1 DEF Queued, Entry, Onward
<1>3. ASSUME NEW i \in 1..Len(q), NEW j \in 1..Len(q) PROVE Before(q, p2, i, j)
  BY <1>1 DEF Queued, Before, Onward
<1>4. QED
  BY <1>2, <1>3 DEF Queued, Onward

LEMMA QueueSend ==
    ASSUME NEW q \in Seq(Command), NEW w, NEW p, NEW p2, NEW c \in Command, Queued(q, w, p),
           Onward(p, p2), w.gen \in Nat,
           Loads(c) => /\ c.gen = p2.gen /\ w.gen < p2.gen /\ p2.mse = "open"
                       /\ \A i \in 1..Len(q) : Loads(q[i]) => q[i].gen < p2.gen,
           c.type = "reset" => p.gen < p2.gen,
           c.type = "init" => ~Exists(q, w, Len(q)),
           c.type \notin {"init", "reset"} => Exists(q, w, Len(q)),
           p2.alive => (p2.initialized <=> c.type # "reset")
    PROVE  Queued(q \o <<c>>, w, p2)
<1> DEFINE r == q \o <<c>>
           n == Len(q)
<1>1. /\ r \in Seq(Command) /\ n \in Nat /\ Len(r) = n + 1 /\ r[n + 1] = c
      /\ \A i \in 1..n : r[i] = q[i]
  BY Sent
<1> HIDE DEF r
<1>2. \A i \in 1..n : Loads(q[i]) => q[i].gen \in Nat /\ q[i].gen <= p.gen
  <2>1. \A i \in 1..n : q[i] \in Command
    BY ElementOfSeq
  <2>2. QED
    BY <2>1, CommandTypes, Constants DEF Gen, Queued, Entry
<1>3. ASSUME NEW i \in 0..n PROVE Exists(r, w, i) <=> Exists(q, w, i)
  BY <1>1 DEF Exists
<1>4. ASSUME NEW i \in 1..n PROVE Entry(r, w, p2, i)
  <2>1. i - 1 \in 0..n /\ r[i] = q[i]
    BY <1>1
  <2>2. Exists(r, w, i - 1) <=> Exists(q, w, i - 1)
    BY <1>3, <2>1
  <2>3. Entry(q, w, p, i)
    BY DEF Queued
  <2>4. QED
    BY <1>2, <2>1, <2>2, <2>3 DEF Entry, Onward, Queued
<1>5. Entry(r, w, p2, n + 1)
  <2>1. n \in 0..n /\ (n + 1) - 1 = n
    BY <1>1
  <2>2. Exists(r, w, n) <=> Exists(q, w, n)
    BY <1>3, <2>1
  <2>3. w.gen <= p.gen
    BY DEF Queued
  <2>4. QED
    BY <1>1, <2>1, <2>2, <2>3 DEF Entry, Onward
<1>6. ASSUME NEW i \in 1..(n + 1), NEW j \in 1..(n + 1) PROVE Before(r, p2, i, j)
  <2>1. CASE i \in 1..n /\ j \in 1..n
    <3>1. Before(q, p, i, j) /\ r[i] = q[i] /\ r[j] = q[j]
      BY <1>1, <2>1 DEF Queued
    <3>2. QED
      BY <1>2, <2>1, <3>1 DEF Before, Onward
  <2>2. CASE i \in 1..n /\ j = n + 1
    <3>1. r[i] = q[i] /\ r[j] = c
      BY <1>1, <2>2
    <3>2. QED
      BY <1>2, <2>2, <3>1 DEF Before, Onward
  <2>3. CASE i = n + 1
    <3>1. ~(i < j)
      BY <1>1, <2>3
    <3>2. QED
      BY <3>1 DEF Before
  <2>4. QED
    BY <1>1, <2>1, <2>2, <2>3
<1>7. \A i \in 1..Len(r) : Entry(r, w, p2, i)
  <2> SUFFICES ASSUME NEW i \in 1..Len(r) PROVE Entry(r, w, p2, i)
    OBVIOUS
  <2>1. i \in 1..n \/ i = n + 1
    BY <1>1
  <2>2. QED
    BY <1>4, <1>5, <2>1
<1>8. p2.alive => (p2.initialized <=> Exists(r, w, Len(r)))
  BY <1>1 DEF Exists
<1>9. Queued(r, w, p2)
  BY <1>1, <1>6, <1>7, <1>8 DEF Queued, Onward
<1>10. QED
  BY <1>9 DEF r

LEMMA StartsSend ==
    ASSUME NEW q \in Seq(Command), NEW c \in Command, Starts(q), c.type # "init"
    PROVE  Starts(q \o <<c>>)
<1> DEFINE r == q \o <<c>>
           n == Len(q)
<1>1. /\ r \in Seq(Command) /\ n \in Nat /\ Len(r) = n + 1 /\ r[n + 1] = c
      /\ \A i \in 1..n : r[i] = q[i]
  BY Sent
<1> HIDE DEF r
<1>2. ASSUME NEW i \in 1..Len(r), r[i].type = "init" PROVE i < Len(r) /\ r[i + 1].type = "start"
  <2>1. i \in 1..n /\ r[i] = q[i]
    BY <1>1, <1>2
  <2>2. i < n /\ q[i + 1].type = "start" /\ i + 1 \in 1..n
    BY <1>1, <1>2, <2>1 DEF Starts
  <2>3. QED
    BY <1>1, <2>2
<1>3. QED
  BY <1>2 DEF Starts, r

LEMMA StartsTwo ==
    ASSUME NEW q \in Seq(Command), NEW c \in Command, NEW d \in Command, Starts(q), d.type = "start"
    PROVE  Starts((q \o <<c>>) \o <<d>>)
<1> DEFINE r == q \o <<c>>
           s == r \o <<d>>
           n == Len(q)
<1>1. /\ r \in Seq(Command) /\ n \in Nat /\ Len(r) = n + 1 /\ \A i \in 1..n : r[i] = q[i]
  BY Sent
<1> HIDE DEF r
<1>2. /\ Len(s) = n + 2 /\ s[n + 2] = d /\ \A i \in 1..(n + 1) : s[i] = r[i]
  <2>1. /\ Len(s) = Len(r) + 1 /\ s[Len(r) + 1] = d /\ \A i \in 1..Len(r) : s[i] = r[i]
    BY <1>1, Sent
  <2>2. Len(r) + 1 = n + 2
    BY <1>1
  <2> HIDE DEF s
  <2>3. QED
    BY <1>1, <2>1, <2>2
<1> HIDE DEF s
<1>3. ASSUME NEW i \in 1..Len(s), s[i].type = "init" PROVE i < Len(s) /\ s[i + 1].type = "start"
  <2>1. CASE i \in 1..n
    <3>1. i \in 1..(n + 1) /\ s[i] = q[i]
      BY <1>1, <1>2, <2>1
    <3>2. i < n /\ q[i + 1].type = "start" /\ i + 1 \in 1..n /\ i + 1 \in 1..(n + 1)
      BY <1>1, <1>3, <2>1, <3>1 DEF Starts
    <3>3. QED
      BY <1>1, <1>2, <3>2
  <2>2. CASE i = n + 1
    BY <1>1, <1>2, <2>2
  <2>3. CASE i = n + 2
    BY <1>2, <1>3, <2>3
  <2>4. QED
    BY <1>1, <1>2, <2>1, <2>2, <2>3
<1>4. QED
  BY <1>3 DEF Starts, s, r
-----------------------------------------------------------------------------
(* The page.                                                                 *)

\* Nothing else happens in the worker.
LEMMA StillIsQuiet == ASSUME wk' = wk PROVE QuietStep
BY DEF QuietStep

\* A signal to the worker: pause or resume.
Signal(t) == [type |-> t]

LEMMA SignalFacts ==
    ASSUME NEW t \in {"pause", "resume", "reset"}
    PROVE  Signal(t) \in Command /\ Signal(t).type = t /\ ~Loads(Signal(t))
<1>1. Signal(t) \in [type : {"pause", "resume", "reset"}] /\ Signal(t).type = t
  BY DEF Signal
<1>2. QED
  BY <1>1 DEF Command, Loads

\* The page stays with its load: it takes an event, or notes something, and may
\* signal the worker while its media source is there.
Stays ==
    /\ page' \in Controller /\ wk' = wk
    /\ page'.gen = page.gen /\ page'.alive = page.alive /\ page'.initialized = page.initialized
    /\ page'.pending = page.pending
    /\ page'.mse = page.mse \/ (page.mse = "open" /\ page'.mse = "closed")
    /\ page.mse \in {"none", "opening"} => ~page'.throttle /\ ~page'.watermark /\ ~page'.full
    /\ \A i \in 1..Len(page'.pcm) : page'.pcm[i].src = page'.pcm[i].gen
    /\ page.answered => page'.answered

Takes ==
    \/ events' = events
    \/ /\ events # << >> /\ events' = Tail(events)
       /\ Head(events).gen = page.gen /\ Head(events).type \in {"complete", "error"} => page'.answered

Signals ==
    \/ /\ commands' = commands
       /\ page'.mse = "open" => ((page'.watermark \/ page'.full) <=> (page.watermark \/ page.full))
    \/ \E t \in {"pause", "resume"} :
         /\ page.mse \in {"open", "closed"} /\ commands' = commands \o <<Signal(t)>>
         /\ page'.mse = "open" => ((page'.watermark \/ page'.full) <=> t = "pause")

LEMMA StaysStep == ASSUME SessionInv, Stays, Takes, Signals PROVE SessionInv' /\ QuietStep
<1>1. /\ page \in Controller /\ commands \in Seq(Command) /\ events \in Seq(Message)
      /\ wk.gen \in Nat /\ page.gen \in Nat /\ page'.gen = page.gen /\ wk' = wk
  BY Constants DEF SessionInv, TypeOK, Controller, Gen, Stays
<1>2. /\ events' \in Seq(Message)
      /\ events = << >> => events' = << >>
      /\ \A i \in 1..Len(events') : \E j \in 1..Len(events) : events'[i] = events[j]
  <2>1. CASE events' = events
    BY <1>1, <2>1
  <2>2. CASE events # << >> /\ events' = Tail(events)
    <3>1. /\ events' \in Seq(Message)
          /\ \A i \in 1..Len(events') : i + 1 \in 1..Len(events) /\ events'[i] = events[i + 1]
      BY <1>1, <2>2, Dropped
    <3>2. QED
      BY <2>2, <3>1
  <2>3. QED
    BY <2>1, <2>2 DEF Takes
<1>3. Onward(page, page')
  BY <1>1 DEF Onward, Stays
<1>4. Queued(commands, wk, page) /\ Starts(commands)
  BY QueueParts DEF SessionInv
<1>5. Reported => Reported'
  <2> SUFFICES ASSUME Reported PROVE Reported'
    OBVIOUS
  <2>1. CASE page.answered \/ events' = events
    BY <1>1, <2>1 DEF Reported, Stays
  <2>2. CASE ~page.answered /\ events # << >> /\ events' = Tail(events)
    <3>1. PICK i \in 1..Len(events) : events[i].gen = page.gen /\ events[i].type \in {"complete", "error"}
      BY <2>2 DEF Reported
    <3>2. /\ Len(events') = Len(events) - 1 /\ Len(events) \in Nat \ {0} /\ Head(events) = events[1]
          /\ \A k \in 1..Len(events') : events'[k] = events[k + 1]
      BY <1>1, <2>2, Dropped
    <3>3. CASE i = 1
      <4>1. page'.answered \/ events' = events
        BY <3>1, <3>2, <3>3 DEF Takes
      <4>2. QED
        BY <1>1, <3>1, <4>1 DEF Reported
    <3>4. CASE i # 1
      <4>1. i - 1 \in 1..Len(events') /\ (i - 1) + 1 = i
        BY <3>2, <3>4
      <4>2. events'[i - 1] = events[i]
        BY <3>2, <4>1
      <4>3. QED
        BY <1>1, <3>1, <4>1, <4>2 DEF Reported
    <3>5. QED
      BY <3>3, <3>4
  <2>3. QED
    BY <2>1, <2>2 DEF Takes
<1>6. Addressed'
  <2>1. \A i \in 1..Len(events') : events'[i].src = events'[i].gen /\ events'[i].gen <= page.gen
    BY <1>2 DEF SessionInv, Addressed
  <2>2. QED
    BY <1>1, <2>1 DEF SessionInv, Addressed, Stays
<1>7. NothingHeldBack'
  BY <1>1 DEF SessionInv, NothingHeldBack
<1>8. NothingYet' \/ commands' # commands
  <2>1. \A i \in 1..Len(events') : page.mse \in {"none", "opening"} => events'[i].gen < page.gen
    BY <1>2 DEF SessionInv, NothingYet
  <2>2. QED
    BY <1>1, <1>2, <2>1 DEF SessionInv, NothingYet, Stays
<1>9. NothingYet' \/ page.mse \notin {"open", "closed"}
  <2>1. page.mse \in {"open", "closed"} => page.gen # 0 /\ page'.mse \in {"open", "closed"}
    BY DEF SessionInv, NothingYet, Stays
  <2>2. QED
    BY <1>1, <2>1 DEF SessionInv, NothingYet, Stays
<1>10. CASE /\ commands' = commands
            /\ page'.mse = "open" => ((page'.watermark \/ page'.full) <=> (page.watermark \/ page.full))
  <2>1. Queued(commands, wk, page')
    BY <1>1, <1>3, <1>4, QueueKeep DEF Stays
  <2>2. QueueOrdered'
    BY <1>1, <1>4, <1>10, <2>1, QueueParts
  <2>3. TypeOK'
    BY <1>1, <1>2, <1>10 DEF SessionInv, TypeOK, Stays
  <2>4. PauseAgrees'
    BY <1>1, <1>10 DEF SessionInv, PauseAgrees, Stays
  <2>5. LoadUnderWay'
    BY <1>1, <1>5, <1>10 DEF SessionInv, LoadUnderWay, Stays, Loads
  <2>6. QED
    BY <1>1, <1>6, <1>7, <1>8, <1>10, <2>2, <2>3, <2>4, <2>5, StillIsQuiet DEF SessionInv
<1>11. ASSUME NEW t \in {"pause", "resume"}, page.mse \in {"open", "closed"},
              commands' = commands \o <<Signal(t)>>,
              page'.mse = "open" => ((page'.watermark \/ page'.full) <=> t = "pause")
       PROVE  SessionInv' /\ QuietStep
  <2> DEFINE c == Signal(t)
  <2>1. c \in Command /\ c.type = t /\ ~Loads(c) /\ page.alive /\ page.initialized
    BY <1>11, SignalFacts DEF SessionInv, NothingYet
  <2>2. /\ commands' \in Seq(Command) /\ Len(commands) \in Nat /\ Len(commands') = Len(commands) + 1
        /\ commands'[Len(commands) + 1] = c
        /\ \A i \in 1..Len(commands) : commands'[i] = commands[i]
    BY <1>1, <1>11, <2>1, Sent
  <2> HIDE DEF c
  <2>3. Exists(commands, wk, Len(commands))
    BY <1>4, <2>1 DEF Queued
  <2>4. Queued(commands \o <<c>>, wk, page')
    BY <1>1, <1>3, <1>4, <2>1, <2>3, QueueSend DEF Stays
  <2>5. Starts(commands \o <<c>>)
    BY <1>1, <1>4, <2>1, StartsSend
  <2>6. QueueOrdered'
    BY <1>1, <1>11, <2>4, <2>5, QueueParts DEF c
  <2>7. TypeOK'
    BY <1>1, <1>2, <2>2 DEF SessionInv, TypeOK, Stays
  <2>8. PauseAgrees'
    <3>1. commands' # << >> /\ commands'[Len(commands')].type = t
      BY <2>1, <2>2
    <3>2. QED
      BY <1>11, <3>1 DEF PauseAgrees
  <2>9. LoadUnderWay'
    <3>1. ASSUME NEW i \in 1..Len(commands)
          PROVE  i \in 1..Len(commands') /\ commands'[i] = commands[i]
      BY <2>2
    <3>2. commands # << >> => 1 \in 1..Len(commands) /\ commands' # << >>
      BY <1>1, <2>2, EmptySeq
    <3>3. QED
      BY <1>1, <1>5, <3>1, <3>2 DEF SessionInv, LoadUnderWay, Stays, Loads
  <2>10. QED
    BY <1>1, <1>6, <1>7, <1>9, <1>11, <2>6, <2>7, <2>8, <2>9, StillIsQuiet DEF SessionInv
<1>12. QED
  BY <1>10, <1>11 DEF Signals
\* The page with something noted that is no reason to pause.
Near(s) ==
    /\ s \in Controller
    /\ s.gen = page.gen /\ s.alive = page.alive /\ s.initialized = page.initialized
    /\ s.pending = page.pending /\ s.mse = page.mse
    /\ s.watermark = page.watermark /\ s.full = page.full
    /\ page.mse \in {"none", "opening"} => s.throttle = page.throttle
    /\ \A i \in 1..Len(s.pcm) : s.pcm[i].src = s.pcm[i].gen
    /\ page.answered => s.answered

LEMMA PageIsNear == SessionInv => Near(page)
BY DEF SessionInv, TypeOK, Addressed, Near

LEMMA NearStays ==
    ASSUME SessionInv, NEW s, Near(s), page' = s, wk' = wk, commands' = commands
    PROVE  Stays /\ Signals
<1>1. Stays
  BY DEF Near, Stays, SessionInv, NothingYet
<1>2. QED
  BY <1>1 DEF Near, Signals

\* updateFetchBackpressure: no signal without a media source, since no reason
\* to pause is on record then.
LEMMA BackpressureStays ==
    ASSUME SessionInv, NEW s, Near(s), NEW ahead, ApplyBackpressure(s, ahead), wk' = wk
    PROVE  Stays /\ Signals
<1> DEFINE b == Backpressure(s, ahead)
<1>1. /\ page' = b.s /\ commands' = (IF b.s.alive THEN commands \o b.cs ELSE commands)
      /\ commands \in Seq(Command) /\ s \in Controller
  BY DEF ApplyBackpressure, Send, SessionInv, TypeOK, Near
<1>2. CASE (s.watermark \/ s.full) /\ ahead = "low"
  <2> DEFINE u == [s EXCEPT !.watermark = FALSE, !.full = FALSE]
  <2>1. b = [s |-> u, cs |-> <<Signal("resume")>>]
    BY <1>2 DEF Backpressure, Signal
  <2>2. /\ u \in Controller /\ u.gen = s.gen /\ u.alive = s.alive /\ u.initialized = s.initialized
        /\ u.pending = s.pending /\ u.mse = s.mse /\ u.watermark = FALSE /\ u.full = FALSE
        /\ u.throttle = s.throttle /\ u.pcm = s.pcm /\ u.answered = s.answered
    BY <1>1 DEF Controller
  <2> HIDE DEF u
  <2>3. page' = u /\ commands' = IF u.alive THEN commands \o <<Signal("resume")>> ELSE commands
    BY <1>1, <2>1
  <2>4. page.mse \in {"open", "closed"} /\ page.alive
    BY <1>1, <1>2 DEF Near, SessionInv, NothingYet, Controller
  <2>5. Stays
    BY <2>2, <2>3, <2>4 DEF Near, Stays
  <2>6. Signals
    BY <2>2, <2>3, <2>4 DEF Near, Signals
  <2>7. QED
    BY <2>5, <2>6
<1>3. CASE ~(s.watermark \/ s.full) /\ s.throttle /\ ahead = "high"
  <2> DEFINE u == [s EXCEPT !.watermark = TRUE]
  <2>1. b = [s |-> u, cs |-> <<Signal("pause")>>]
    BY <1>3 DEF Backpressure, Signal
  <2>2. /\ u \in Controller /\ u.gen = s.gen /\ u.alive = s.alive /\ u.initialized = s.initialized
        /\ u.pending = s.pending /\ u.mse = s.mse /\ u.watermark = TRUE
        /\ u.throttle = s.throttle /\ u.pcm = s.pcm /\ u.answered = s.answered
    BY <1>1 DEF Controller
  <2> HIDE DEF u
  <2>3. page' = u /\ commands' = IF u.alive THEN commands \o <<Signal("pause")>> ELSE commands
    BY <1>1, <2>1
  <2>4. page.mse \in {"open", "closed"} /\ page.alive
    BY <1>1, <1>3 DEF Near, SessionInv, NothingYet, Controller
  <2>5. Stays
    BY <2>2, <2>3, <2>4 DEF Near, Stays
  <2>6. Signals
    BY <2>2, <2>3, <2>4 DEF Near, Signals
  <2>7. QED
    BY <2>5, <2>6
<1>4. CASE /\ ~((s.watermark \/ s.full) /\ ahead = "low")
           /\ ~(~(s.watermark \/ s.full) /\ s.throttle /\ ahead = "high")
  <2>1. b = [s |-> s, cs |-> << >>]
    BY <1>4 DEF Backpressure
  <2>2. page' = s /\ commands' = IF s.alive THEN commands \o << >> ELSE commands
    BY <1>1, <2>1
  <2>3. commands' = commands
    BY <1>1, <2>2, ConcatEmptySeq
  <2>4. QED
    BY <2>2, <2>3, NearStays
<1>5. QED
  BY <1>2, <1>3, <1>4

LEMMA ReportedStep ==
    ASSUME SessionInv, NEW ahead, BufferReported(ahead) PROVE SessionInv' /\ QuietStep
<1>1. ApplyBackpressure(page, ahead) /\ wk' = wk /\ events' = events
  BY DEF BufferReported
<1>2. Stays /\ Signals
  BY <1>1, PageIsNear, BackpressureStays
<1>3. QED
  BY <1>1, <1>2, StaysStep DEF Takes

\* A page with fields changed by a signal of its own.
LEMMA FullStep == ASSUME SessionInv, BufferFull PROVE SessionInv' /\ QuietStep
<1> DEFINE u == [page EXCEPT !.full = TRUE]
<1>1. /\ page.mse = "open" /\ page' = u /\ wk' = wk /\ events' = events /\ page \in Controller
      /\ commands' = (IF page.alive THEN commands \o <<Signal("pause")>> ELSE commands)
  BY DEF BufferFull, Send, Signal, SessionInv, TypeOK
<1>2. /\ u \in Controller /\ u.gen = page.gen /\ u.alive = page.alive /\ u.initialized = page.initialized
      /\ u.pending = page.pending /\ u.mse = page.mse /\ u.full = TRUE /\ u.pcm = page.pcm
      /\ u.answered = page.answered
  BY <1>1 DEF Controller
<1> HIDE DEF u
<1>3. page.alive
  BY <1>1 DEF SessionInv, NothingYet
<1>4. Stays
  BY <1>1, <1>2 DEF Stays, SessionInv, Addressed
<1>5. Signals
  BY <1>1, <1>2, <1>3 DEF Signals
<1>6. QED
  BY <1>1, <1>4, <1>5, StaysStep DEF Takes

LEMMA CloseStep ==
    ASSUME SessionInv, NEW visible \in BOOLEAN, SourceClose(visible) PROVE SessionInv' /\ QuietStep
<1> DEFINE a == page.answered \/ visible
           u == [page EXCEPT !.mse = "closed", !.answered = a]
<1>1. /\ page.mse = "open" /\ page' = u /\ wk' = wk /\ events' = events /\ page \in Controller
      /\ commands' = (IF page.alive THEN commands \o <<Signal("pause")>> ELSE commands)
  BY DEF SourceClose, Send, Signal, SessionInv, TypeOK
<1>2. a \in BOOLEAN /\ (page.answered => a)
  BY <1>1 DEF Controller
<1> HIDE DEF a
<1>3. /\ u \in Controller /\ u.gen = page.gen /\ u.alive = page.alive /\ u.initialized = page.initialized
      /\ u.pending = page.pending /\ u.mse = "closed" /\ u.pcm = page.pcm /\ u.answered = a
  BY <1>1, <1>2 DEF Controller
<1> HIDE DEF u
<1>4. page.alive
  BY <1>1 DEF SessionInv, NothingYet
<1>5. Stays
  BY <1>1, <1>2, <1>3 DEF Stays, SessionInv, Addressed
<1>6. Signals
  BY <1>1, <1>3, <1>4 DEF Signals
<1>7. QED
  BY <1>1, <1>5, <1>6, StaysStep DEF Takes

LEMMA StreamingStep ==
    ASSUME SessionInv, NEW ahead, StartStreaming(ahead) PROVE SessionInv' /\ QuietStep
<1>1. page.mse = "open" /\ wk' = wk /\ events' = events
  BY DEF StartStreaming
<1>2. CASE page.watermark \/ page.full
  <2>1. ApplyBackpressure(page, ahead)
    BY <1>2 DEF StartStreaming
  <2>2. Stays /\ Signals
    BY <1>1, <2>1, PageIsNear, BackpressureStays
  <2>3. QED
    BY <1>1, <2>2, StaysStep DEF Takes
<1>3. CASE ~(page.watermark \/ page.full)
  <2>1. page' = page /\ page.alive /\ commands' = commands \o <<Signal("resume")>>
    BY <1>1, <1>3 DEF StartStreaming, Send, Signal, SessionInv, NothingYet
  <2>2. Stays
    BY <1>1, <2>1 DEF Stays, SessionInv, TypeOK, Addressed
  <2>3. Signals
    BY <1>1, <1>3, <2>1 DEF Signals
  <2>4. QED
    BY <1>1, <2>2, <2>3, StaysStep DEF Takes
<1>4. QED
  BY <1>2, <1>3

LEMMA FeedStep == ASSUME SessionInv, FeedPcm PROVE SessionInv' /\ QuietStep
<1> DEFINE Pcm == [gen : Gen, src : Gen]
           f == Head(page.pcm)
           ap == IF f.gen = page.gen THEN page.appended \cup {f.src} ELSE page.appended
           u == [page EXCEPT !.pcm = Tail(page.pcm), !.appended = ap]
<1>1. /\ page.pcm # << >> /\ page' = u /\ wk' = wk /\ events' = events /\ commands' = commands
      /\ page \in Controller /\ page.pcm \in Seq(Pcm)
  BY DEF FeedPcm, SessionInv, TypeOK, Controller
<1>2. /\ Tail(page.pcm) \in Seq(Pcm) /\ f \in Pcm
      /\ \A i \in 1..Len(Tail(page.pcm)) : i + 1 \in 1..Len(page.pcm) /\ Tail(page.pcm)[i] = page.pcm[i + 1]
  BY <1>1, Dropped
<1>3. ap \subseteq Gen
  BY <1>1, <1>2 DEF Controller
<1> HIDE DEF f, ap
<1>4. /\ u \in Controller /\ u.gen = page.gen /\ u.alive = page.alive /\ u.initialized = page.initialized
      /\ u.pending = page.pending /\ u.mse = page.mse /\ u.watermark = page.watermark
      /\ u.full = page.full /\ u.throttle = page.throttle /\ u.pcm = Tail(page.pcm)
      /\ u.answered = page.answered
  BY <1>1, <1>2, <1>3 DEF Controller
<1> HIDE DEF u
<1>5. Near(u)
  BY <1>1, <1>2, <1>4 DEF Near, SessionInv, Addressed
<1>6. QED
  BY <1>1, <1>5, NearStays, StaysStep DEF Takes
\* An event of the current load finds its media source, and is made for it.
LEMMA EventFacts ==
    ASSUME SessionInv, events # << >>
    PROVE  /\ Head(events) \in Message
           /\ Head(events).src = Head(events).gen
           /\ Head(events).gen = page.gen => page.mse \notin {"none", "opening"}
<1>1. events \in Seq(Message) /\ page.gen \in Nat
  BY Constants DEF SessionInv, TypeOK, Controller, Gen
<1>2. Head(events) \in Message /\ Head(events) = events[1] /\ Len(events) \in Nat \ {0}
  BY <1>1, Dropped
<1>3. 1 \in 1..Len(events)
  BY <1>2
<1>4. events[1].src = events[1].gen /\ (page.mse \in {"none", "opening"} => events[1].gen < page.gen)
  BY <1>3 DEF SessionInv, Addressed, NothingYet
<1>5. QED
  BY <1>1, <1>2, <1>4

\* The batched init segments go to the media source.
Flushed == [page EXCEPT !.appended = @ \cup page.pendingInits, !.pendingInits = {}]

LEMMA FlushedFacts ==
    ASSUME SessionInv
    PROVE  /\ Flushed \in Controller
           /\ Flushed.gen = page.gen /\ Flushed.alive = page.alive /\ Flushed.initialized = page.initialized
           /\ Flushed.pending = page.pending /\ Flushed.mse = page.mse /\ Flushed.watermark = page.watermark
           /\ Flushed.full = page.full /\ Flushed.throttle = page.throttle /\ Flushed.pcm = page.pcm
           /\ Flushed.answered = page.answered
           /\ Flushed.appended = page.appended \cup page.pendingInits /\ Flushed.pendingInits = {}
<1>1. page \in Controller
  BY DEF SessionInv, TypeOK
<1>2. page.appended \cup page.pendingInits \subseteq Gen
  BY <1>1 DEF Controller
<1>3. QED
  BY <1>1, <1>2 DEF Controller, Flushed

\* The page after an event of its load.
Noted(msg) ==
    CASE msg.type = "init"  -> [page EXCEPT !.pendingInits = @ \cup {msg.src}]
      [] msg.type = "media" -> [Flushed EXCEPT !.appended = @ \cup {msg.src}]
      [] msg.type = "pcm"   -> [Flushed EXCEPT !.pcm = Append(@, [gen |-> msg.gen, src |-> msg.src])]
      [] msg.type \in {"complete", "error"} -> [Flushed EXCEPT !.answered = TRUE]

LEMMA NotedFacts ==
    ASSUME SessionInv, NEW msg \in Message, msg.src = msg.gen, msg.gen = page.gen,
           msg.type \notin {"hls-live", "hls-vod"}, page.mse \notin {"none", "opening"}
    PROVE  /\ Near(Noted(msg)) /\ (msg.type \in {"complete", "error"} => Noted(msg).answered)
           /\ NoStaleData => Noted(msg).appended \cup Noted(msg).pendingInits \subseteq {page.gen}
<1> DEFINE m == Noted(msg)
<1>1. page \in Controller /\ page.gen \in Gen /\ msg.gen \in Gen /\ msg.type \in MessageTypes
  BY DEF SessionInv, TypeOK, Controller, Message
<1>2. \A i \in 1..Len(page.pcm) : page.pcm[i].src = page.pcm[i].gen
  BY DEF SessionInv, Addressed
<1>3. CASE msg.type = "init"
  <2>1. m = [page EXCEPT !.pendingInits = page.pendingInits \cup {msg.src}]
    BY <1>3 DEF Noted
  <2>2. page.pendingInits \cup {msg.src} \subseteq Gen
    BY <1>1 DEF Controller
  <2> HIDE DEF m
  <2>3. /\ m \in Controller /\ m.gen = page.gen /\ m.alive = page.alive
        /\ m.initialized = page.initialized /\ m.pending = page.pending /\ m.mse = page.mse
        /\ m.watermark = page.watermark /\ m.full = page.full /\ m.pcm = page.pcm
        /\ m.answered = page.answered
        /\ m.appended = page.appended /\ m.pendingInits = page.pendingInits \cup {msg.src}
    BY <1>1, <2>1, <2>2 DEF Controller
  <2>4. QED
    BY <1>2, <1>3, <2>3 DEF Near, NoStaleData, m
<1>4. CASE msg.type = "media"
  <2>1. m = [Flushed EXCEPT !.appended = Flushed.appended \cup {msg.src}]
    BY <1>4 DEF Noted
  <2>2. Flushed.appended \cup {msg.src} \subseteq Gen
    BY <1>1, FlushedFacts DEF Controller
  <2> HIDE DEF m
  <2>3. /\ m \in Controller /\ m.gen = page.gen /\ m.alive = page.alive
        /\ m.initialized = page.initialized /\ m.pending = page.pending /\ m.mse = page.mse
        /\ m.watermark = page.watermark /\ m.full = page.full /\ m.pcm = page.pcm
        /\ m.answered = page.answered
        /\ m.appended = page.appended \cup page.pendingInits \cup {msg.src} /\ m.pendingInits = {}
    BY <2>1, <2>2, FlushedFacts DEF Controller
  <2>4. QED
    BY <1>2, <1>4, <2>3 DEF Near, NoStaleData, m
<1>5. CASE msg.type = "pcm"
  <2> DEFINE f == [gen |-> msg.gen, src |-> msg.src]
             Pcm == [gen : Gen, src : Gen]
             q == Append(page.pcm, f)
  <2>1. m = [Flushed EXCEPT !.pcm = q]
    BY <1>5, FlushedFacts DEF Noted
  <2>2. page.pcm \in Seq(Pcm) /\ f \in Pcm /\ f.src = f.gen
    BY <1>1 DEF Controller
  <2> HIDE DEF m, f
  <2>3. /\ q \in Seq(Pcm) /\ Len(q) = Len(page.pcm) + 1 /\ q[Len(page.pcm) + 1] = f
        /\ \A i \in 1..Len(page.pcm) : q[i] = page.pcm[i]
        /\ Len(page.pcm) \in Nat
    BY <2>2, AppendProperties, LenProperties
  <2> HIDE DEF q
  <2>4. \A i \in 1..Len(q) : q[i].src = q[i].gen
    <3> SUFFICES ASSUME NEW i \in 1..Len(q) PROVE q[i].src = q[i].gen
      OBVIOUS
    <3>1. i \in 1..Len(page.pcm) \/ i = Len(page.pcm) + 1
      BY <2>3
    <3>2. QED
      BY <1>2, <2>2, <2>3, <3>1
  <2>5. /\ m \in Controller /\ m.gen = page.gen /\ m.alive = page.alive
        /\ m.initialized = page.initialized /\ m.pending = page.pending /\ m.mse = page.mse
        /\ m.watermark = page.watermark /\ m.full = page.full /\ m.pcm = q
        /\ m.answered = page.answered
        /\ m.appended = page.appended \cup page.pendingInits /\ m.pendingInits = {}
    BY <2>1, <2>3, FlushedFacts DEF Controller
  <2>6. QED
    BY <1>5, <2>4, <2>5 DEF Near, NoStaleData, m
<1>6. CASE msg.type \in {"complete", "error"}
  <2>1. m = [Flushed EXCEPT !.answered = TRUE]
    BY <1>6 DEF Noted
  <2> HIDE DEF m
  <2>2. /\ m \in Controller /\ m.gen = page.gen /\ m.alive = page.alive
        /\ m.initialized = page.initialized /\ m.pending = page.pending /\ m.mse = page.mse
        /\ m.watermark = page.watermark /\ m.full = page.full /\ m.pcm = page.pcm
        /\ m.answered = TRUE
        /\ m.appended = page.appended \cup page.pendingInits /\ m.pendingInits = {}
    BY <2>1, FlushedFacts DEF Controller
  <2>3. QED
    BY <1>2, <1>6, <2>2 DEF Near, NoStaleData, m
<1>7. QED
  BY <1>1, <1>3, <1>4, <1>5, <1>6 DEF MessageTypes

\* handleWorkerMessage: an event of another load is dropped; of the current one,
\* the kind of playlist, or what Noted says.
LEMMA MessageCases ==
    ASSUME SessionInv, NEW ahead, HandleMessage(ahead)
    PROVE  /\ events # << >> /\ events' = Tail(events) /\ wk' = wk
           /\ \/ Head(events).gen # page.gen /\ page' = page /\ commands' = commands
              \/ /\ Head(events).gen = page.gen /\ Head(events).type = "hls-live"
                 /\ page' = Flushed /\ commands' = commands
              \/ /\ Head(events).gen = page.gen /\ Head(events).type = "hls-vod"
                 /\ ApplyBackpressure([Flushed EXCEPT !.throttle = TRUE], ahead)
              \/ /\ Head(events).gen = page.gen /\ Head(events).type \notin {"hls-live", "hls-vod"}
                 /\ page' = Noted(Head(events)) /\ commands' = commands
BY DEF HandleMessage, Flushed, Noted

LEMMA MessageStep ==
    ASSUME SessionInv, NEW ahead, HandleMessage(ahead) PROVE SessionInv' /\ QuietStep
<1> DEFINE msg == Head(events)
<1>1. events # << >> /\ events' = Tail(events) /\ wk' = wk
  BY MessageCases
<1>2. /\ msg \in Message /\ msg.src = msg.gen
      /\ msg.gen = page.gen => page.mse \notin {"none", "opening"}
  BY <1>1, EventFacts
<1> HIDE DEF msg
<1>3. CASE msg.gen # page.gen /\ page' = page /\ commands' = commands
  <2>1. Stays /\ Signals
    BY <1>1, <1>3, PageIsNear, NearStays
  <2>2. Takes
    BY <1>1, <1>3 DEF Takes, msg
  <2>3. QED
    BY <2>1, <2>2, StaysStep
<1>4. CASE msg.gen = page.gen /\ msg.type = "hls-live" /\ page' = Flushed /\ commands' = commands
  <2>1. Near(Flushed)
    BY FlushedFacts DEF Near, SessionInv, Addressed
  <2>2. Stays /\ Signals
    BY <1>1, <1>4, <2>1, NearStays
  <2>3. Takes
    BY <1>1, <1>4 DEF Takes, msg
  <2>4. QED
    BY <2>2, <2>3, StaysStep
<1>5. CASE /\ msg.gen = page.gen /\ msg.type = "hls-vod"
           /\ ApplyBackpressure([Flushed EXCEPT !.throttle = TRUE], ahead)
  <2> DEFINE s == [Flushed EXCEPT !.throttle = TRUE]
  <2>1. /\ s \in Controller /\ s.gen = page.gen /\ s.alive = page.alive
        /\ s.initialized = page.initialized /\ s.pending = page.pending /\ s.mse = page.mse
        /\ s.watermark = page.watermark /\ s.full = page.full /\ s.pcm = page.pcm
        /\ s.answered = page.answered
    BY FlushedFacts DEF Controller
  <2>2. ApplyBackpressure(s, ahead)
    BY <1>5
  <2> HIDE DEF s
  <2>3. Near(s)
    BY <1>2, <1>5, <2>1 DEF Near, SessionInv, Addressed
  <2>4. Stays /\ Signals
    BY <1>1, <2>2, <2>3, BackpressureStays
  <2>5. Takes
    BY <1>1, <1>5 DEF Takes, msg
  <2>6. QED
    BY <2>4, <2>5, StaysStep
<1>6. CASE /\ msg.gen = page.gen /\ msg.type \notin {"hls-live", "hls-vod"}
           /\ page' = Noted(msg) /\ commands' = commands
  <2>1. Near(Noted(msg)) /\ (msg.type \in {"complete", "error"} => Noted(msg).answered)
    BY <1>2, <1>6, NotedFacts
  <2>2. Stays /\ Signals
    BY <1>1, <1>6, <2>1, NearStays
  <2>3. Takes
    BY <1>1, <1>6, <2>1 DEF Takes, msg
  <2>4. QED
    BY <2>2, <2>3, StaysStep
<1>7. QED
  BY <1>3, <1>4, <1>5, <1>6, MessageCases DEF msg
\* A new load number (loadSegments, suspend, destroy): the media source is gone,
\* nobody has heard of the load, and every event on the way is of an older one.
Renews ==
    /\ page' \in Controller /\ page'.gen = page.gen + 1
    /\ page'.mse \in {"none", "opening"} /\ page'.pcm = page.pcm
    /\ ~page'.throttle /\ ~page'.watermark /\ ~page'.full
    /\ page'.mse = "opening" => page'.alive /\ page'.pending \in Kinds
    /\ page'.appended = {} /\ page'.pendingInits = {}

LEMMA FreshFacts ==
    ASSUME SessionInv, page.gen < MaxGen
    PROVE  LET f == Fresh(page) IN
           /\ f \in Controller /\ f.gen = page.gen + 1 /\ f.pcm = page.pcm
           /\ ~f.throttle /\ ~f.watermark /\ ~f.full /\ f.appended = {} /\ f.pendingInits = {}
           /\ f.alive = page.alive /\ f.initialized = page.initialized
<1>1. page \in Controller /\ page.gen + 1 \in Gen
  BY Constants DEF SessionInv, TypeOK, Controller, Gen
<1>2. QED
  BY <1>1 DEF Fresh, Controller

LEMMA SuspendedFacts ==
    ASSUME SessionInv, page.gen < MaxGen
    PROVE  LET f == Suspended(page) IN
           /\ f \in Controller /\ f.gen = page.gen + 1 /\ f.pcm = page.pcm
           /\ ~f.throttle /\ ~f.watermark /\ ~f.full /\ f.appended = {} /\ f.pendingInits = {}
           /\ f.alive = page.alive /\ f.initialized = FALSE /\ f.mse = "none"
<1> DEFINE g == Fresh(page)
<1>1. /\ g \in Controller /\ g.gen = page.gen + 1 /\ g.pcm = page.pcm
      /\ ~g.throttle /\ ~g.watermark /\ ~g.full /\ g.appended = {} /\ g.pendingInits = {}
      /\ g.alive = page.alive /\ Suspended(page) = [g EXCEPT !.pending = "none", !.mse = "none", !.initialized = FALSE]
  BY FreshFacts DEF Suspended
<1> HIDE DEF g
<1>2. QED
  BY <1>1 DEF Controller

\* What of SessionInv a new load number keeps when the worker is left alone.
LEMMA RenewFacts ==
    ASSUME SessionInv, Renews, wk' = wk, events' = events
    PROVE  /\ Addressed' /\ NothingYet' /\ PauseAgrees' /\ NothingHeldBack' /\ LoadUnderWay' /\ QuietStep
           /\ Onward(page, page') /\ page.gen \in Nat /\ wk.gen \in Nat /\ wk.gen < page'.gen
<1>1. page.gen \in Nat /\ wk.gen \in Nat /\ page'.gen = page.gen + 1 /\ wk.gen <= page.gen /\ page'.gen # 0
  BY Constants DEF SessionInv, TypeOK, Controller, Gen, QueueOrdered, Renews
<1>2. \A i \in 1..Len(events) : events[i].gen \in Nat /\ events[i].gen <= page.gen
  <2>1. \A i \in 1..Len(events) : events[i] \in Message
    BY ElementOfSeq DEF SessionInv, TypeOK
  <2>2. QED
    BY <2>1, Constants DEF SessionInv, Addressed, Message, Gen
<1>3. Addressed'
  BY <1>1, <1>2 DEF SessionInv, Addressed, Renews
<1>4. NothingYet'
  <2>1. /\ \A i \in 1..Len(events') : events'[i].gen < page'.gen
        /\ wk'.gen < page'.gen /\ page'.gen > 0
    BY <1>1, <1>2
  <2>2. QED
    BY <1>1, <2>1 DEF NothingYet, Renews
<1>5. PauseAgrees' /\ LoadUnderWay'
  BY DEF PauseAgrees, LoadUnderWay, Renews
<1>6. NothingHeldBack'
  BY DEF SessionInv, NothingHeldBack
<1>7. Onward(page, page') /\ wk.gen < page'.gen
  BY <1>1 DEF Onward
<1>8. QED
  BY <1>1, <1>3, <1>4, <1>5, <1>6, <1>7, StillIsQuiet

LEMMA LoadSegmentsStep ==
    ASSUME SessionInv, NEW kind \in Kinds, LoadSegments(kind)
    PROVE  SessionInv' /\ QuietStep /\ NoStaleData'
<1> DEFINE g == Fresh(page)
<1>1. /\ page.alive /\ page.gen < MaxGen /\ page' = [g EXCEPT !.pending = kind, !.mse = "opening"]
      /\ commands' = commands /\ wk' = wk /\ events' = events
  BY DEF LoadSegments
<1>2. /\ g \in Controller /\ g.gen = page.gen + 1 /\ g.pcm = page.pcm
      /\ ~g.throttle /\ ~g.watermark /\ ~g.full /\ g.appended = {} /\ g.pendingInits = {}
      /\ g.alive = page.alive /\ g.initialized = page.initialized
  BY <1>1, FreshFacts
<1> HIDE DEF g
<1>3. Renews /\ page'.alive = page.alive /\ page'.initialized = page.initialized
  BY <1>1, <1>2 DEF Renews, Controller
<1>4. /\ Addressed' /\ NothingYet' /\ PauseAgrees' /\ NothingHeldBack' /\ LoadUnderWay' /\ QuietStep
      /\ Onward(page, page') /\ page.gen \in Nat /\ wk.gen \in Nat
  BY <1>1, <1>3, RenewFacts
<1>5. QueueOrdered'
  <2>1. Queued(commands, wk, page) /\ Starts(commands) /\ commands \in Seq(Command)
    BY QueueParts DEF SessionInv, TypeOK
  <2>2. Queued(commands, wk, page')
    BY <1>3, <1>4, <2>1, QueueKeep
  <2>3. QED
    BY <1>1, <2>1, <2>2, QueueParts
<1>6. TypeOK'
  BY <1>1, <1>3 DEF SessionInv, TypeOK, Renews
<1>7. NoStaleData'
  BY <1>3 DEF NoStaleData, Renews
<1>8. QED
  BY <1>4, <1>5, <1>6, <1>7 DEF SessionInv

LEMMA SuspendStep == ASSUME SessionInv, Suspend PROVE SessionInv' /\ QuietStep /\ NoStaleData'
<1> DEFINE c == Signal("reset")
<1>1. /\ page.alive /\ page.gen < MaxGen /\ page' = Suspended(page) /\ wk' = wk /\ events' = events
      /\ commands' = commands \o <<c>>
  BY DEF Suspend, Send, Signal
<1>2. Renews /\ page'.initialized = FALSE
  BY <1>1, SuspendedFacts DEF Renews
<1>3. /\ Addressed' /\ NothingYet' /\ PauseAgrees' /\ NothingHeldBack' /\ LoadUnderWay' /\ QuietStep
      /\ Onward(page, page') /\ page.gen \in Nat /\ wk.gen \in Nat /\ wk.gen < page'.gen
  BY <1>1, <1>2, RenewFacts
<1>4. c \in Command /\ c.type = "reset" /\ ~Loads(c)
  BY SignalFacts
<1> HIDE DEF c
<1>5. Queued(commands, wk, page) /\ Starts(commands) /\ commands \in Seq(Command)
  BY QueueParts DEF SessionInv, TypeOK
<1>6. page.gen < page'.gen
  BY <1>2, <1>3 DEF Renews
<1>7. Queued(commands \o <<c>>, wk, page')
  BY <1>2, <1>3, <1>4, <1>5, <1>6, QueueSend
<1>8. Starts(commands \o <<c>>)
  BY <1>4, <1>5, StartsSend
<1>9. QueueOrdered'
  BY <1>1, <1>7, <1>8, QueueParts
<1>10. TypeOK'
  <2>1. commands' \in Seq(Command)
    BY <1>1, <1>4, <1>5, Sent
  <2>2. QED
    BY <1>1, <1>2, <2>1 DEF SessionInv, TypeOK, Renews
<1>11. NoStaleData'
  BY <1>2 DEF NoStaleData, Renews
<1>12. QED
  BY <1>3, <1>9, <1>10, <1>11 DEF SessionInv

LEMMA DestroyStep == ASSUME SessionInv, Destroy PROVE SessionInv' /\ QuietStep /\ NoStaleData'
<1> DEFINE s == Suspended(page)
           v == [wk EXCEPT !.pipe = NoPipeline, !.frames = << >>, !.stale = {}]
<1>1. /\ page.gen < MaxGen /\ page' = [s EXCEPT !.alive = FALSE]
      /\ commands' = << >> /\ wk' = v /\ events' = events
  BY DEF Destroy
<1>2. /\ s \in Controller /\ s.gen = page.gen + 1 /\ s.pcm = page.pcm
      /\ ~s.throttle /\ ~s.watermark /\ ~s.full /\ s.appended = {} /\ s.pendingInits = {}
      /\ s.initialized = FALSE /\ s.mse = "none"
  BY <1>1, SuspendedFacts
<1> HIDE DEF s
<1>3. /\ page' \in Controller /\ page'.gen = page.gen + 1 /\ page'.pcm = page.pcm /\ ~page'.alive
      /\ ~page'.throttle /\ ~page'.watermark /\ ~page'.full /\ page'.appended = {}
      /\ page'.pendingInits = {} /\ page'.mse = "none"
  BY <1>1, <1>2 DEF Controller
<1>4. /\ v \in [gen : Gen, pipe : Pipeline, stale : SUBSET Gen,
                frames : Seq([src : Gen, fresh : BOOLEAN]), out : {<< >>}]
      /\ v.gen = wk.gen /\ v.pipe = NoPipeline /\ v.frames = << >>
  <2>1. << >> \in Seq([src : Gen, fresh : BOOLEAN]) /\ {} \subseteq Gen
    OBVIOUS
  <2>2. QED
    BY <2>1, NoneFacts DEF SessionInv, TypeOK
<1> HIDE DEF v
<1>5. page.gen \in Nat /\ wk.gen \in Nat /\ wk.gen <= page.gen
  BY Constants DEF SessionInv, TypeOK, Controller, Gen, QueueOrdered
<1>6. \A i \in 1..Len(events') : events'[i].gen <= page'.gen /\ events'[i].gen < page'.gen
  <2>1. \A i \in 1..Len(events) : events[i] \in Message
    BY ElementOfSeq DEF SessionInv, TypeOK
  <2>2. QED
    BY <1>1, <1>3, <1>5, <2>1, Constants DEF SessionInv, Addressed, Message, Gen
<1>7. Len(commands') = 0 /\ commands' \in Seq(Command) /\ Len(wk'.frames) = 0
  BY <1>1, <1>4
<1>8. TypeOK'
  BY <1>1, <1>3, <1>4, <1>7, NoneFacts DEF SessionInv, TypeOK
<1>9. Addressed'
  BY <1>1, <1>3, <1>4, <1>6, <1>7, NoneFacts DEF SessionInv, Addressed
<1>10. NothingYet'
  <2>1. wk'.gen < page'.gen /\ page'.gen # 0
    BY <1>1, <1>3, <1>4, <1>5
  <2>2. QED
    BY <1>3, <1>6, <2>1 DEF NothingYet
<1>11. QueueOrdered'
  <2>1. wk'.gen <= page'.gen
    BY <1>1, <1>3, <1>4, <1>5
  <2>2. QED
    BY <1>3, <1>7, <2>1 DEF QueueOrdered
<1>12. PauseAgrees' /\ LoadUnderWay' /\ NothingHeldBack' /\ NoStaleData'
  BY <1>1, <1>3, <1>4 DEF PauseAgrees, LoadUnderWay, NothingHeldBack, NoStaleData
<1>13. QuietStep
  BY <1>1, <1>4, NoneFacts DEF QuietStep
<1>14. QED
  BY <1>8, <1>9, <1>10, <1>11, <1>12, <1>13 DEF SessionInv
\* loadInWorker: the worker hears of the load, with a pipeline or to make one.
LEMMA OpenStep == ASSUME SessionInv, SourceOpen PROVE SessionInv' /\ QuietStep
<1>1. /\ page.mse = "opening" /\ wk' = wk /\ events' = events
      /\ page' = [page EXCEPT !.mse = "open", !.pending = "none", !.initialized = TRUE]
  BY DEF SourceOpen
<1>2. /\ page.alive /\ page.pending \in Kinds /\ page.gen # 0 /\ ~page.throttle /\ ~page.watermark /\ ~page.full
      /\ wk.gen < page.gen
      /\ page \in Controller /\ page.gen \in Gen /\ page.gen \in Nat /\ wk.gen \in Nat
      /\ commands \in Seq(Command) /\ events \in Seq(Message)
  BY <1>1, Constants DEF SessionInv, TypeOK, Controller, NothingYet, Gen
<1>3. /\ page' \in Controller /\ page'.gen = page.gen /\ page'.mse = "open" /\ page'.initialized = TRUE
      /\ page'.alive = page.alive /\ page'.pcm = page.pcm
      /\ ~page'.throttle /\ ~page'.watermark /\ ~page'.full
  BY <1>1, <1>2 DEF Controller
<1>4. Onward(page, page')
  BY <1>2, <1>3 DEF Onward
<1>5. Queued(commands, wk, page) /\ Starts(commands)
  BY QueueParts DEF SessionInv
<1>6. \A i \in 1..Len(commands) : Loads(commands[i]) => commands[i].gen < page'.gen
  BY <1>1, <1>3, <1>5 DEF Queued, Entry
<1>7. Addressed' /\ NothingHeldBack' /\ NothingYet' /\ QuietStep
  <2>1. Addressed' /\ NothingHeldBack'
    BY <1>1, <1>3 DEF SessionInv, Addressed, NothingHeldBack
  <2>2. NothingYet'
    BY <1>1, <1>2, <1>3 DEF NothingYet
  <2>3. QED
    BY <1>1, <2>1, <2>2, StillIsQuiet
\* With what follows the new commands are in order, the last is no signal, and
\* one of them is the load.
<1>8. ASSUME commands' \in Seq(Command), Queued(commands', wk, page'), Starts(commands'),
             commands' # << >>, commands'[Len(commands')].type # "pause",
             \E i \in 1..Len(commands') : Loads(commands'[i]) /\ commands'[i].gen = page.gen
      PROVE  SessionInv'
  <2>1. QueueOrdered'
    BY <1>1, <1>8, QueueParts
  <2>2. TypeOK'
    BY <1>1, <1>3, <1>8 DEF SessionInv, TypeOK
  <2>3. PauseAgrees'
    BY <1>3, <1>8 DEF PauseAgrees
  <2>4. LoadUnderWay'
    BY <1>3, <1>8 DEF LoadUnderWay, Loads
  <2>5. QED
    BY <1>7, <2>1, <2>2, <2>3, <2>4 DEF SessionInv
<1>9. CASE page.initialized
  <2> DEFINE c == [type |-> "load-segments", gen |-> page.gen, kind |-> page.pending]
  <2>1. commands' = commands \o <<c>>
    BY <1>2, <1>9 DEF SourceOpen, Send
  <2>2. c \in Command /\ c.type = "load-segments" /\ c.gen = page.gen /\ Loads(c)
    BY <1>2 DEF Command, Loads
  <2> HIDE DEF c
  <2>3. /\ commands' \in Seq(Command) /\ Len(commands) \in Nat /\ Len(commands') = Len(commands) + 1
        /\ commands'[Len(commands) + 1] = c
    BY <1>2, <2>1, <2>2, Sent
  <2>4. Exists(commands, wk, Len(commands))
    BY <1>2, <1>5, <1>9 DEF Queued
  <2>5. Queued(commands \o <<c>>, wk, page')
    BY <1>2, <1>3, <1>4, <1>5, <1>6, <2>2, <2>4, QueueSend
  <2>6. Starts(commands \o <<c>>)
    BY <1>2, <1>5, <2>2, StartsSend
  <2>7. commands' # << >> /\ Len(commands') \in 1..Len(commands') /\ commands'[Len(commands')] = c
    BY <2>3
  <2>8. QED
    BY <1>7, <1>8, <2>1, <2>2, <2>3, <2>5, <2>6, <2>7
<1>10. CASE ~page.initialized
  <2> DEFINE c == [type |-> "init", gen |-> page.gen]
             d == [type |-> "start", kind |-> page.pending]
             mid == commands \o <<c>>
  <2>1. commands' = commands \o <<c, d>>
    BY <1>2, <1>10 DEF SourceOpen, Send
  <2>2. /\ c \in Command /\ c.type = "init" /\ c.gen = page.gen /\ Loads(c)
        /\ d \in Command /\ d.type = "start" /\ ~Loads(d)
    BY <1>2 DEF Command, Loads
  <2> HIDE DEF c, d
  <2>3. /\ mid \in Seq(Command) /\ Len(commands) \in Nat /\ Len(mid) = Len(commands) + 1
        /\ mid[Len(commands) + 1] = c
    BY <1>2, <2>2, Sent
  <2>4. commands' = mid \o <<d>>
    <3>1. <<c>> \in Seq(Command) /\ <<d>> \in Seq(Command) /\ <<c>> \o <<d>> = <<c, d>>
      BY <2>2, Pair
    <3>2. (commands \o <<c>>) \o <<d>> = commands \o (<<c>> \o <<d>>)
      BY <1>2, <3>1, ConcatAssociative
    <3>3. QED
      BY <2>1, <3>1, <3>2, Zenon
  <2>5. ~Exists(commands, wk, Len(commands))
    BY <1>2, <1>5, <1>10 DEF Queued
  <2>6. Queued(mid, wk, page')
    BY <1>2, <1>3, <1>4, <1>5, <1>6, <2>2, <2>5, QueueSend
  <2>7. Starts(mid \o <<d>>)
    BY <1>2, <1>5, <2>2, StartsTwo
  <2> HIDE DEF mid
  <2>8. /\ commands' \in Seq(Command) /\ Len(commands') = Len(mid) + 1 /\ commands'[Len(mid) + 1] = d
        /\ \A i \in 1..Len(mid) : commands'[i] = mid[i]
    BY <2>2, <2>3, <2>4, Sent
  <2>9. Exists(mid, wk, Len(mid)) /\ Onward(page', page')
    BY <1>2, <1>3, <2>2, <2>3 DEF Exists, Onward
  <2>10. Queued(mid \o <<d>>, wk, page')
    BY <1>2, <1>3, <2>2, <2>3, <2>6, <2>9, QueueSend
  <2>11. Len(mid) \in 1..Len(commands') /\ Len(mid) \in 1..Len(mid) /\ commands'[Len(mid)] = c
    BY <2>3, <2>8
  <2>12. commands' # << >> /\ commands'[Len(commands')] = d
    BY <2>3, <2>8
  <2>13. QED
    BY <1>7, <1>8, <2>2, <2>4, <2>7, <2>8, <2>10, <2>11, <2>12
<1>11. QED
  BY <1>9, <1>10

LEMMA PageStep == ASSUME SessionInv, Page PROVE SessionInv' /\ QuietStep
BY LoadSegmentsStep, OpenStep, SuspendStep, DestroyStep, FeedStep, FullStep, MessageStep, ReportedStep,
   StreamingStep, CloseStep DEF Page
-----------------------------------------------------------------------------
(* The session.                                                              *)

LEMMA SessionStarts == Init => SessionInv /\ NoStaleData
<1> SUFFICES ASSUME Init PROVE SessionInv /\ NoStaleData
  OBVIOUS
<1>1. 0 \in Gen /\ << >> \in Seq([gen : Gen, src : Gen]) /\ << >> \in Seq(Command)
      /\ << >> \in Seq(Message) /\ << >> \in Seq([src : Gen, fresh : BOOLEAN])
  BY Constants DEF Gen
<1>2. /\ page \in Controller /\ page.gen = 0 /\ page.mse = "none" /\ page.initialized = FALSE
      /\ page.pcm = << >> /\ ~page.throttle /\ ~page.watermark /\ ~page.full
      /\ page.appended = {} /\ page.pendingInits = {}
  BY <1>1 DEF Init, Controller
<1>3. /\ wk \in [gen : Gen, pipe : Pipeline, stale : SUBSET Gen,
                 frames : Seq([src : Gen, fresh : BOOLEAN]), out : {<< >>}]
      /\ wk.gen = 0 /\ wk.pipe = NoPipeline /\ wk.frames = << >>
  BY <1>1, NoneFacts DEF Init
<1>4. commands = << >> /\ events = << >> /\ Len(commands) = 0 /\ Len(events) = 0
      /\ Len(page.pcm) = 0 /\ Len(wk.frames) = 0
  BY <1>2, <1>3 DEF Init
<1>5. TypeOK
  BY <1>1, <1>2, <1>3, <1>4, NoneFacts DEF TypeOK
<1>6. Addressed /\ NothingHeldBack
  BY <1>3, <1>4, NoneFacts DEF Addressed, NothingHeldBack
<1>7. NothingYet
  BY <1>2, <1>3, <1>4 DEF NothingYet
<1>8. QueueOrdered
  BY <1>2, <1>3, <1>4 DEF QueueOrdered, ExistsAfter
<1>9. PauseAgrees /\ LoadUnderWay /\ NoStaleData
  BY <1>2 DEF PauseAgrees, LoadUnderWay, NoStaleData
<1>10. QED
  BY <1>5, <1>6, <1>7, <1>8, <1>9 DEF SessionInv

\* A command that leaves a paused pipeline paused is another pause.
LEMMA CommandIsQuiet == ASSUME SessionInv, HandleCommand PROVE QuietStep
<1> DEFINE c == Head(commands)
<1>0. PICK flushed \in Flushes : Work(Handle(wk, c, flushed))
  BY DEF HandleCommand
<1> DEFINE h == Handle(wk, c, flushed)
<1>1. commands # << >> /\ Work(h)
  BY <1>0 DEF HandleCommand
<1>2. c \in Command /\ Fits(wk, c)
  BY <1>1, CommandFacts
<1>3. /\ Sound(h) /\ (h.pipe # NoPipeline <=> c.type # "reset")
      /\ c.type # "reset" => (h.pipe.paused <=> c.type = "pause")
      /\ c.type = "pause" => /\ h.pipe.at = wk.pipe.at
                             /\ h.pipe.ioctl = "connecting" => wk.pipe.ioctl = "connecting"
  BY <1>2, WorkerIsSound, HandleFacts
<1> HIDE DEF h
<1>4. wk'.pipe = h.pipe
  BY <1>1, <1>3, WorkFacts
<1>5. QED
  BY <1>3, <1>4, NoneFacts DEF QuietStep

LEMMA SessionStep ==
    ASSUME SessionInv, [Next]_vars PROVE SessionInv' /\ QuietStep
<1>1. CASE Page
  BY <1>1, PageStep
<1>2. CASE HandleCommand
  BY <1>2, CommandStep, CommandIsQuiet
<1>3. CASE Network
  BY <1>3, NetworkStep
<1>4. CASE UNCHANGED vars
  <2>1. page' = page /\ commands' = commands /\ wk' = wk /\ events' = events
    BY <1>4 DEF vars
  <2>2. Stays /\ Signals /\ Takes
    BY <2>1, PageIsNear, NearStays DEF Takes
  <2>3. QED
    BY <2>2, StaysStep
<1>5. QED
  BY <1>1, <1>2, <1>3, <1>4 DEF Next

\* The invariant of the session: see SessionInv.
THEOREM SessionInvariant == Spec => []SessionInv
<1>1. Init => SessionInv
  BY SessionStarts
<1>2. SessionInv /\ [Next]_vars => SessionInv'
  BY SessionStep
<1>3. QED
  BY <1>1, <1>2, PTL DEF Spec

\* A load loop never ends in silence (pipeline.ts: every way out of the loop
\* posts "complete" or "error", for the load it was working on).
THEOREM NoSilentEnd == Spec => []EndIsReported
<1>1. SessionInv => EndIsReported
  <2> SUFFICES ASSUME SessionInv, commands = << >>, page.mse = "open", wk.pipe.at \in {"none", "gone"}
               PROVE  Reported
    BY DEF EndIsReported
  <2>1. Len(commands) = 0
    OBVIOUS
  <2>2. QED
    BY <2>1 DEF SessionInv, LoadUnderWay
<1>2. QED
  BY <1>1, SessionInvariant, PTL

\* A paused pipeline starts no request (_waitIfPaused in front of every request
\* of the loop, and the cut of a live stream).
THEOREM PauseHolds == Spec => PausedIsQuiet
<1>1. SessionInv /\ [Next]_vars =>
        [wk.pipe.at # "gone" /\ wk'.pipe.at # "gone" /\ wk.pipe.paused /\ wk'.pipe.paused
          => \/ wk'.pipe.at \in {"none", "gate"}
             \/ wk.pipe.at = "init" /\ wk'.pipe.at = "body"
             \/ wk'.pipe.at = wk.pipe.at
                /\ (wk'.pipe.ioctl = "connecting" => wk.pipe.ioctl = "connecting")]_vars
  BY SessionStep DEF QuietStep
<1>2. QED
  BY <1>1, SessionInvariant, PTL DEF Spec, PausedIsQuiet

-----------------------------------------------------------------------------
(* What reaches the media source.                                            *)

Kept == page'.gen = page.gen /\ page'.appended = page.appended /\ page'.pendingInits = page.pendingInits

LEMMA BackpressureKeeps ==
    ASSUME NEW s \in Controller, NEW ahead, ApplyBackpressure(s, ahead)
    PROVE  page'.gen = s.gen /\ page'.appended = s.appended /\ page'.pendingInits = s.pendingInits
<1> DEFINE b == Backpressure(s, ahead)
<1>1. page' = b.s
  BY DEF ApplyBackpressure
<1>2. b.s \in {s, [s EXCEPT !.watermark = FALSE, !.full = FALSE], [s EXCEPT !.watermark = TRUE]}
  BY DEF Backpressure
<1> HIDE DEF b
<1>3. QED
  BY <1>1, <1>2 DEF Controller

LEMMA WorkerKeeps == ASSUME HandleCommand \/ Network PROVE Kept
<1>1. page' = page
  BY DEF HandleCommand, Network, InWorker, SourceNext, SourceEnds, SourceFails, InitAnswered, InitArrives, InitFails,
         StaleInit, LoaderPlaylist, LoaderText, LoaderUnsupported, LoaderFails, LoaderDone, LoaderChunk,
         AudioFrame, AudioDecoded
<1>2. QED
  BY <1>1 DEF Kept

LEMMA StaleStep == ASSUME SessionInv, NoStaleData, [Next]_vars PROVE NoStaleData'
<1>0. page \in Controller
  BY DEF SessionInv, TypeOK
<1>1. ASSUME Kept PROVE NoStaleData'
  BY <1>1 DEF Kept, NoStaleData
<1>2. CASE \E kind \in Kinds : LoadSegments(kind)
  BY <1>2, LoadSegmentsStep
<1>3. CASE Suspend \/ Destroy
  BY <1>3, SuspendStep, DestroyStep
<1>4. CASE SourceOpen \/ BufferFull \/ \E visible \in BOOLEAN : SourceClose(visible)
  <2>1. Kept
    BY <1>0, <1>4 DEF SourceOpen, BufferFull, SourceClose, Kept, Controller
  <2>2. QED
    BY <1>1, <2>1
<1>5. CASE \E ahead \in Levels : BufferReported(ahead) \/ StartStreaming(ahead)
  <2>1. PICK ahead \in Levels : ApplyBackpressure(page, ahead) \/ page' = page
    BY <1>5 DEF BufferReported, StartStreaming
  <2>2. Kept
    BY <1>0, <2>1, BackpressureKeeps DEF Kept
  <2>3. QED
    BY <1>1, <2>2
<1>6. CASE FeedPcm
  <2> DEFINE f == Head(page.pcm)
  <2>1. /\ page'.gen = page.gen /\ page'.pendingInits = page.pendingInits /\ page.pcm # << >>
        /\ page'.appended = IF f.gen = page.gen THEN page.appended \cup {f.src} ELSE page.appended
    BY <1>0, <1>6 DEF FeedPcm, Controller
  <2>2. f = page.pcm[1] /\ Len(page.pcm) \in Nat \ {0}
    BY <1>0, <2>1, Dropped DEF Controller
  <2> HIDE DEF f
  <2>3. 1 \in 1..Len(page.pcm)
    BY <2>2
  <2>4. f.src = f.gen
    BY <2>2, <2>3 DEF SessionInv, Addressed
  <2>5. QED
    BY <2>1, <2>4 DEF NoStaleData
<1>7. ASSUME NEW ahead \in Levels, HandleMessage(ahead) PROVE NoStaleData'
  <2> DEFINE msg == Head(events)
             s == [Flushed EXCEPT !.throttle = TRUE]
  <2>1. /\ msg \in Message /\ msg.src = msg.gen
        /\ msg.gen = page.gen => page.mse \notin {"none", "opening"}
    BY <1>7, MessageCases, EventFacts
  <2>2. CASE page' = page
    BY <1>1, <2>2 DEF Kept
  <2>3. CASE page' = Flushed
    BY <2>3, FlushedFacts DEF NoStaleData
  <2>4. CASE ApplyBackpressure(s, ahead)
    <3>1. s \in Controller /\ s.gen = page.gen /\ s.pendingInits = {}
          /\ s.appended = page.appended \cup page.pendingInits
      BY FlushedFacts DEF Controller
    <3> HIDE DEF s
    <3>2. QED
      BY <2>4, <3>1, BackpressureKeeps DEF NoStaleData
  <2>5. CASE msg.gen = page.gen /\ msg.type \notin {"hls-live", "hls-vod"} /\ page' = Noted(msg)
    <3> HIDE DEF msg
    <3>1. /\ Near(Noted(msg))
          /\ Noted(msg).appended \cup Noted(msg).pendingInits \subseteq {page.gen}
      BY <2>1, <2>5, NotedFacts
    <3>2. QED
      BY <2>5, <3>1 DEF NoStaleData, Near
  <2>6. QED
    BY <1>7, <2>2, <2>3, <2>4, <2>5, MessageCases
<1>8. CASE HandleCommand \/ Network
  BY <1>1, <1>8, WorkerKeeps
<1>9. CASE UNCHANGED vars
  BY <1>1, <1>9 DEF vars, Kept
<1>10. QED
  BY <1>2, <1>3, <1>4, <1>5, <1>6, <1>7, <1>8, <1>9 DEF Next, Page

\* Nothing of a superseded load reaches the media source or the audio player of
\* another (handleWorkerMessage looks at the stamp, and the stamp is right).
THEOREM NothingStaleIsPlayed == Spec => []NoStaleData
<1>1. Init => NoStaleData
  BY SessionStarts
<1>2. SessionInv /\ NoStaleData /\ [Next]_vars => NoStaleData'
  BY StaleStep
<1>3. QED
  BY <1>1, <1>2, SessionInvariant, PTL DEF Spec
=============================================================================
