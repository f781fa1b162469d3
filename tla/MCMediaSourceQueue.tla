---------------------- MODULE MCMediaSourceQueue ----------------------
EXTENDS MediaSourceQueue

I(t, c) == [type |-> "init", track |-> t, codec |-> c]
M(t, u) == [type |-> "media", track |-> t, unit |-> u]
Info(vod) == [type |-> "info", vod |-> vod]
Complete == [type |-> "complete"]

\* A recording: more than a SourceBuffer holds, then the end.
Recording ==
    <<Info(TRUE), I("video", "c1"), I("audio", "c1"),
      M("video", 0), M("audio", 0), M("video", 1), M("audio", 1),
      M("video", 2), M("audio", 2), M("video", 3), M("audio", 3), Complete>>

\* A live playlist that jumps ahead on the timeline, without an end.
Live ==
    <<Info(FALSE), I("video", "c1"), I("audio", "c1"), M("video", 0), M("audio", 0), M("video", 1),
      M("audio", 1), M("video", 5), M("audio", 5), M("video", 6), M("audio", 6)>>

\* The video changes its codec, the audio is refused.
Change ==
    <<I("video", "c1"), I("audio", "c0"), M("video", 0), M("video", 1),
      I("video", "c2"), M("video", 2), Complete>>

MCScripts == {Recording, Live, Change}
=============================================================================
