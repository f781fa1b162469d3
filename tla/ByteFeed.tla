----------------------------- MODULE ByteFeed -------------------------------
(* What a stream loader promises its consumer (io/fetch-loader.ts as used by *)
(* worker/pipeline.ts): every cycle of the stream is a new run of bytes from *)
(* position 0, the consumer takes the bytes of a cycle in order, each once,  *)
(* is told the true position of each, and hears of one outcome, after which  *)
(* it is left alone.                                                         *)
EXTENDS Naturals, Sequences

CONSTANTS
    Outcomes,   \* how a load may end
    MaxSize     \* bound: bytes of a cycle

VARIABLES
    cycle,      \* the request the consumer takes its bytes from
    taken,      \* what it has taken of it: the position it was told, the byte
    outcome     \* "none" until the end is reported

feedVars == <<cycle, taken, outcome>>

\* The next n bytes of cycle c after the ones in seq.
Following(c, seq, n) ==
    [i \in 1..n |-> [at |-> Len(seq) + i - 1, byte |-> <<c, Len(seq) + i - 1>>]]

Init ==
    /\ cycle = 1
    /\ taken = << >>
    /\ outcome = "none"

\* The consumer takes some bytes; the last of them may come with the end.
Take ==
    /\ outcome = "none"
    /\ \E n \in 0..MaxSize : taken' = taken \o Following(cycle, taken, n)
    /\ outcome' \in Outcomes \cup {"none"}
    /\ UNCHANGED cycle

\* The stream starts over.
Restart ==
    /\ outcome = "none"
    /\ cycle' = cycle + 1
    /\ taken' = << >>
    /\ UNCHANGED outcome

Next == Take \/ Restart

Spec == Init /\ [][Next]_feedVars
=============================================================================
