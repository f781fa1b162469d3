------------------------ MODULE MulticastSourceProofs ------------------------
(***************************************************************************)
(* Proofs about a source of multicast.c with any number of viewers, each   *)
(* with a reorder ring of its own next to that of the source.  What one    *)
(* packet makes of a ring is proved in RtpReorderProofs.                   *)
(*                                                                         *)
(*   - RegistryInv follows from the inductive SourceIInv: the types of what*)
(*     is delivered (Supplied), and lists without repetition that agree    *)
(*     with the roles of the sessions (Registered);                        *)
(*   - HandoffIntact needs Flow besides: for every viewer a position with  *)
(*     all its client got before it and all the rest in its ring, or still *)
(*     on the wire (InFlow); of a viewer of the batches that is said as it *)
(*     will be when the batch is handed out, with the source's ring for its*)
(*     own (Effective), and of the source's ring as if a viewer had been   *)
(*     watching it since it joined (Watcher), which is what a viewer takes *)
(*     over when it is promoted.                                           *)
(***************************************************************************)
EXTENDS RtpReorderProofs, MulticastSource

USE RingAssumption

-----------------------------------------------------------------------------
(* A source with its viewers.                                              *)

LEMMA StepByStep ==
    ASSUME NEW n \in Nat, NEW good, 0 \in good,
           \A k \in 1..n : k - 1 \in good => k \in good
    PROVE  \A k \in 0..n : k \in good
<1> DEFINE bad == {k \in 0..n : k \notin good}
<1> SUFFICES ASSUME bad # {} PROVE FALSE
  OBVIOUS
<1>1. bad \subseteq Nat
  OBVIOUS
<1>2. PICK k \in bad : \A j \in bad : k <= j
  <2> HIDE DEF bad
  <2> QED
    BY <1>1, LeastNat
<1>3. k \in 0..n /\ k \notin good /\ k # 0
  BY <1>2
<1>4. k \in 1..n /\ k - 1 \in 0..n /\ ~(k <= k - 1)
  BY <1>3
<1>5. k - 1 \notin good
  BY <1>3, <1>4
<1> QED
  BY <1>2, <1>4, <1>5

\* f is what n steps F, each from A to A, make of x.
Runs(f, n, A, x, F) ==
    f \in [0..n -> A] /\ f[0] = x /\ \A k \in 1..n : f[k] = F[k][f[k - 1]]

LEMMA RunsExist ==
    ASSUME NEW A, NEW n \in Nat, NEW x \in A, NEW F \in [1..n -> [A -> A]]
    PROVE  \E f : Runs(f, n, A, x, F)
<1> DEFINE Goes(f, i) == f[0] = x /\ \A k \in 1..i : f[k] = F[k][f[k - 1]]
           good == {i \in 0..n : \E f \in [0..i -> A] : Goes(f, i)}
<1>1. 0 \in good
  <2> DEFINE f == [k \in 0..0 |-> x]
  <2>1. f \in [0..0 -> A] /\ Goes(f, 0)
    OBVIOUS
  <2> HIDE DEF f
  <2> QED
    BY <2>1
<1>2. ASSUME NEW i \in 1..n, i - 1 \in good PROVE i \in good
  <2>1. PICK f \in [0..(i - 1) -> A] : Goes(f, i - 1)
    BY <1>2
  <2> DEFINE g == [k \in 0..i |-> IF k = i THEN F[i][f[i - 1]] ELSE f[k]]
  <2>2. i - 1 \in 0..(i - 1) /\ f[i - 1] \in A /\ 0 \in 0..(i - 1) /\ 0 \in 0..i
    OBVIOUS
  <2>3. F[i][f[i - 1]] \in A
    BY <2>2
  <2>4. g \in [0..i -> A] /\ g[0] = x
    BY <2>1, <2>2, <2>3
  <2>5. ASSUME NEW k \in 1..i PROVE g[k] = F[k][g[k - 1]]
    <3>1. k - 1 \in 0..i /\ k - 1 # i /\ g[k - 1] = f[k - 1]
      OBVIOUS
    <3>2. CASE k = i
      BY <3>1, <3>2
    <3>3. CASE k # i
      <4>1. k \in 1..(i - 1) /\ g[k] = f[k]
        BY <3>3
      <4> QED
        BY <2>1, <3>1, <4>1
    <3> QED
      BY <3>2, <3>3
  <2> HIDE DEF g
  <2> QED
    BY <2>4, <2>5
<1>3. n \in good
  <2> HIDE DEF good
  <2>1. n \in 0..n
    OBVIOUS
  <2> QED
    BY <1>1, <1>2, <2>1, StepByStep
<1>4. \E f \in [0..n -> A] : Goes(f, n)
  <2> HIDE DEF Goes
  <2> QED
    BY <1>3
<1> QED
  BY <1>4 DEF Runs

\* A list without repetitions.
Distinct(s) == \A j, k \in 1..Len(s) : s[j] = s[k] => j = k

LEMMA DistinctCount ==
    ASSUME NEW S, NEW s \in Seq(S), Distinct(s)
    PROVE  IsFiniteSet(Range(s)) /\ Cardinality(Range(s)) = Len(s)
<1> DEFINE n == Len(s)
           R == Range(s)
<1>1. n \in Nat /\ DOMAIN s = 1..n
  OBVIOUS
<1>2. R = {s[k] : k \in 1..n}
  BY <1>1 DEF Range
<1>3. s \in Bijection(1..n, R)
  <2>1. s \in [1..n -> R]
    BY <1>1, <1>2
  <2>2. \A j, k \in 1..n : s[j] = s[k] => j = k
    BY DEF Distinct
  <2>3. \A p \in R : \E k \in 1..n : s[k] = p
    BY <1>2
  <2> HIDE DEF R, n
  <2>4. s \in Injection(1..n, R)
    BY ONLY <2>1, <2>2 DEF Injection, IsInjective
  <2>5. s \in Surjection(1..n, R)
    BY ONLY <2>1, <2>3 DEF Surjection
  <2> QED
    BY <2>4, <2>5 DEF Bijection
<1>4. IsFiniteSet(1..n) /\ Cardinality(1..n) = n
  <2> HIDE DEF n, R
  <2>1. 1 \in Int /\ n \in Int /\ (IF 1 > n THEN 0 ELSE n - 1 + 1) = n
    BY <1>1
  <2> QED
    BY <2>1, FS_Interval
<1> HIDE DEF n, R
<1>5. ExistsBijection(1..n, R)
  BY <1>3 DEF ExistsBijection
<1> QED
  BY <1>4, <1>5, FS_Bijection DEF n, R

LEMMA WithoutIs ==
    ASSUME NEW S, NEW list \in Seq(S), NEW gone
    PROVE  /\ Without(list, gone) \in Seq(S)
           /\ Range(Without(list, gone)) = Range(list) \ gone
           /\ Distinct(list) => Distinct(Without(list, gone))
<1> DEFINE n == Len(list)
           kept == CHOOSE f : f = [k \in 0..n |->
                       IF k = 0 THEN << >>
                       ELSE IF list[k] \in gone THEN f[k - 1] ELSE Append(f[k - 1], list[k])]
           F == [k \in 1..n |-> [s \in Seq(S) |->
                       IF list[k] \in gone THEN s ELSE Append(s, list[k])]]
           none == << >>
<1>0. n \in Nat /\ \A k \in 1..n : list[k] \in S
  OBVIOUS
<1>1. Without(list, gone) = kept[n]
  BY DEF Without
<1>2. F \in [1..n -> [Seq(S) -> Seq(S)]] /\ none \in Seq(S)
  BY <1>0
<1> HIDE DEF n
<1>3. PICK g : Runs(g, n, Seq(S), none, F)
  <2> HIDE DEF F, none
  <2> QED
    BY <1>0, <1>2, RunsExist
<1>4. g \in [0..n -> Seq(S)] /\ g[0] = none /\ \A k \in 1..n : g[k] = F[k][g[k - 1]]
  BY <1>3 DEF Runs
<1>5. g = [k \in 0..n |->
              IF k = 0 THEN << >>
              ELSE IF list[k] \in gone THEN g[k - 1] ELSE Append(g[k - 1], list[k])]
  <2>1. ASSUME NEW k \in 1..n
        PROVE  g[k] = IF list[k] \in gone THEN g[k - 1] ELSE Append(g[k - 1], list[k])
    <3>1. k - 1 \in 0..n /\ g[k - 1] \in Seq(S)
      BY <1>0, <1>4
    <3> QED
      BY <1>4, <3>1
  <2>2. \A k \in 0..n : k = 0 \/ k \in 1..n
    BY <1>0
  <2> HIDE DEF F
  <2>3. \A k \in 0..n : g[k] = IF k = 0 THEN << >>
                              ELSE IF list[k] \in gone THEN g[k - 1] ELSE Append(g[k - 1], list[k])
    BY ONLY <1>4, <2>1, <2>2 DEF none
  <2>4. g = [k \in 0..n |-> g[k]]
    BY <1>4
  <2> QED
    BY ONLY <2>3, <2>4
<1>6. kept = [k \in 0..n |->
                 IF k = 0 THEN << >>
                 ELSE IF list[k] \in gone THEN kept[k - 1] ELSE Append(kept[k - 1], list[k])]
  BY <1>5
<1> HIDE DEF kept, F, none
<1>6a. \A k \in 0..n : kept[k] = IF k = 0 THEN << >>
                                ELSE IF list[k] \in gone THEN kept[k - 1] ELSE Append(kept[k - 1], list[k])
  BY <1>6
<1> DEFINE Right(s, k) == /\ s \in Seq(S)
                          /\ \A p : p \in Range(s) <=> p \notin gone /\ \E j \in 1..k : list[j] = p
                          /\ Distinct(list) => Distinct(s)
           good == {k \in 0..n : Right(kept[k], k)}
<1>7. 0 \in good
  <2>1. kept[0] = << >>
    BY <1>0, <1>6a
  <2>2. Right(<< >>, 0)
    BY DEF Range, Distinct
  <2> HIDE DEF Right
  <2> QED
    BY <1>0, <2>1, <2>2
<1>8. ASSUME NEW k \in 1..n, k - 1 \in good PROVE k \in good
  <2> DEFINE s == kept[k - 1]
             p == list[k]
  <2>1. s \in Seq(S) /\ p \in S /\ k \in 0..n /\ Right(s, k - 1)
    BY <1>0, <1>8
  <2>2. kept[k] = IF p \in gone THEN s ELSE Append(s, p)
    BY <1>0, <1>6a, <2>1
  <2>3. \A q : (\E j \in 1..k : list[j] = q) <=> (\E j \in 1..(k - 1) : list[j] = q) \/ q = p
    BY <1>0
  <2>4. Distinct(list) => ~\E j \in 1..(k - 1) : list[j] = p
    <3>1. ASSUME Distinct(list), NEW j \in 1..(k - 1), list[j] = p PROVE FALSE
      <4>1. j \in 1..n /\ k \in 1..n /\ j # k
        BY <1>0
      <4> QED
        BY <3>1, <4>1 DEF Distinct, n
    <3> QED
      BY <3>1
  <2> HIDE DEF s, p
  <2>5. CASE p \in gone
    BY <2>1, <2>2, <2>3, <2>5
  <2>6. CASE p \notin gone
    <3> DEFINE t == Append(s, p)
    <3>1. /\ t \in Seq(S) /\ Len(s) \in Nat /\ Len(t) = Len(s) + 1 /\ DOMAIN t = 1..Len(t)
          /\ DOMAIN s = 1..Len(s) /\ t[Len(s) + 1] = p /\ \A j \in 1..Len(s) : t[j] = s[j]
      BY <2>1
    <3> HIDE DEF t
    <3>2. \A q : q \in Range(t) <=> q \in Range(s) \/ q = p
      BY <3>1 DEF Range
    <3>3. ASSUME Distinct(list) PROVE Distinct(t)
      <4>1. Distinct(s) /\ p \notin Range(s)
        BY <2>1, <2>4, <3>3
      <4>2. \A j \in 1..Len(s) : s[j] # p
        BY <3>1, <4>1 DEF Range
      <4> QED
        BY <3>1, <4>1, <4>2 DEF Distinct
    <3> QED
      BY <2>1, <2>2, <2>3, <2>6, <3>1, <3>2, <3>3 DEF t
  <2> QED
    BY <2>5, <2>6
<1>9. n \in good
  <2> HIDE DEF good
  <2>1. n \in 0..n
    BY <1>0
  <2> QED
    BY <1>0, <1>7, <1>8, <2>1, StepByStep
<1>10. Right(kept[n], n)
  BY <1>9
<1>11. Range(list) = {list[j] : j \in 1..n}
  BY DEF Range, n
<1>12. Range(kept[n]) = Range(list) \ gone
  BY <1>10, <1>11
<1> QED
  BY <1>1, <1>10, <1>12

LEMMA ReverseIs ==
    ASSUME NEW S, NEW s \in Seq(S)
    PROVE  /\ SeqExt!Reverse(s) \in Seq(S) /\ Range(SeqExt!Reverse(s)) = Range(s)
           /\ Distinct(s) => Distinct(SeqExt!Reverse(s))
<1> DEFINE m == Len(s)
           r == [i \in 1..m |-> s[(m - i) + 1]]
<1>1. SeqExt!Reverse(s) = r
  BY DEF SeqExt!Reverse
<1>2. m \in Nat /\ DOMAIN s = 1..m
  OBVIOUS
<1>3. \A i \in 1..m : (m - i) + 1 \in 1..m /\ (m - ((m - i) + 1)) + 1 = i
  BY <1>2
<1>4. /\ r \in Seq(S) /\ Len(r) = m /\ DOMAIN r = 1..m
      /\ \A i \in 1..m : r[i] = s[(m - i) + 1]
  BY <1>2, <1>3
<1> HIDE DEF r, m
<1>5. Range(r) = Range(s)
  <2>1. ASSUME NEW q \in Range(s) PROVE q \in Range(r)
    <3>1. PICK j \in 1..m : s[j] = q
      BY <1>2 DEF Range
    <3>2. (m - j) + 1 \in 1..m /\ r[(m - j) + 1] = q
      BY <1>3, <1>4, <3>1
    <3> QED
      BY <1>4, <3>2 DEF Range
  <2>2. ASSUME NEW q \in Range(r) PROVE q \in Range(s)
    <3>1. PICK j \in 1..m : r[j] = q
      BY <1>4, <2>2 DEF Range
    <3>2. (m - j) + 1 \in 1..m /\ s[(m - j) + 1] = q
      BY <1>3, <1>4, <3>1
    <3> QED
      BY <1>2, <3>2 DEF Range
  <2> QED
    BY <2>1, <2>2
<1>6. ASSUME Distinct(s) PROVE Distinct(r)
  <2>1. ASSUME NEW j \in 1..m, NEW k \in 1..m, r[j] = r[k] PROVE j = k
    <3>1. \A a, b \in 1..m : s[a] = s[b] => a = b
      BY <1>6 DEF Distinct, m
    <3>2. /\ (m - j) + 1 \in 1..m /\ (m - k) + 1 \in 1..m
          /\ s[(m - j) + 1] = s[(m - k) + 1]
      BY <1>3, <1>4, <2>1
    <3>3. (m - j) + 1 = (m - k) + 1
      BY ONLY <3>1, <3>2
    <3> QED
      BY <1>2, <3>3
  <2> QED
    BY <1>4, <2>1 DEF Distinct
<1> QED
  BY <1>1, <1>4, <1>5, <1>6

LEMMA JoinedIs ==
    ASSUME NEW S, NEW s \in Seq(S), NEW t \in Seq(S)
    PROVE  /\ s \o t \in Seq(S) /\ Range(s \o t) = Range(s) \cup Range(t)
           /\ Distinct(s) /\ Distinct(t) /\ Range(s) \cap Range(t) = {} => Distinct(s \o t)
<1> DEFINE m == Len(s)
           n == Len(t)
           u == s \o t
<1>1. m \in Nat /\ n \in Nat /\ DOMAIN s = 1..m /\ DOMAIN t = 1..n
  OBVIOUS
<1>2. /\ u \in Seq(S) /\ Len(u) = m + n /\ DOMAIN u = 1..(m + n)
      /\ \A i \in 1..m : u[i] = s[i]
      /\ \A i \in 1..n : u[m + i] = t[i]
  OBVIOUS
<1> HIDE DEF u
<1>3. \A k \in 1..(m + n) : k > m => k - m \in 1..n /\ u[k] = t[k - m]
  BY <1>1, <1>2
<1>4. \A k \in 1..(m + n) : ~(k > m) => k \in 1..m /\ u[k] = s[k]
  BY <1>1, <1>2
<1> HIDE DEF m, n
<1>5. Range(u) = Range(s) \cup Range(t)
  <2>1. ASSUME NEW q \in Range(s) PROVE q \in Range(u)
    <3>1. PICK j \in 1..m : s[j] = q
      BY <1>1 DEF Range
    <3>2. j \in 1..(m + n) /\ u[j] = q
      BY <1>1, <1>2, <3>1
    <3> QED
      BY <1>2, <3>2 DEF Range
  <2>2. ASSUME NEW q \in Range(t) PROVE q \in Range(u)
    <3>1. PICK j \in 1..n : t[j] = q
      BY <1>1 DEF Range
    <3>2. m + j \in 1..(m + n) /\ u[m + j] = q
      BY <1>1, <1>2, <3>1
    <3> QED
      BY <1>2, <3>2 DEF Range
  <2>3. ASSUME NEW q \in Range(u) PROVE q \in Range(s) \cup Range(t)
    <3>1. PICK k \in 1..(m + n) : u[k] = q
      BY <1>2, <2>3 DEF Range
    <3> QED
      BY <1>1, <1>3, <1>4, <3>1 DEF Range
  <2> QED
    BY <2>1, <2>2, <2>3
<1>6. ASSUME Distinct(s), Distinct(t), Range(s) \cap Range(t) = {} PROVE Distinct(u)
  <2>1. /\ \A j, k \in 1..m : s[j] = s[k] => j = k
        /\ \A j, k \in 1..n : t[j] = t[k] => j = k
    BY <1>6 DEF Distinct, m, n
  <2>2. \A j \in 1..m, k \in 1..n : s[j] # t[k]
    BY <1>1, <1>6 DEF Range
  <2>3. ASSUME NEW j \in 1..(m + n), NEW k \in 1..(m + n), u[j] = u[k] PROVE j = k
    <3>1. CASE j > m /\ k > m
      <4>1. j - m = k - m
        BY <1>3, <2>1, <2>3, <3>1
      <4> QED
        BY <1>1, <4>1
    <3>2. CASE ~(j > m) /\ ~(k > m)
      BY <1>4, <2>1, <2>3, <3>2
    <3>3. CASE j > m /\ ~(k > m)
      BY <1>3, <1>4, <2>2, <2>3, <3>3
    <3>4. CASE ~(j > m) /\ k > m
      BY <1>3, <1>4, <2>2, <2>3, <3>4
    <3> QED
      BY <3>1, <3>2, <3>3, <3>4
  <2> QED
    BY <1>2, <2>3 DEF Distinct
<1> QED
  BY <1>2, <1>5, <1>6 DEF u

LEMMA PushIs ==
    ASSUME NEW S, NEW s \in Seq(S), NEW v \in S
    PROVE  /\ <<v>> \o s \in Seq(S) /\ Len(<<v>> \o s) = Len(s) + 1 /\ <<v>> \o s # << >>
           /\ Range(<<v>> \o s) = Range(s) \cup {v}
           /\ Distinct(s) /\ v \notin Range(s) => Distinct(<<v>> \o s)
<1> DEFINE t == <<v>>
<1>1. t \in Seq(S) /\ Range(t) = {v} /\ Distinct(t)
  BY DEF Range, Distinct
<1>2. t \o s \in Seq(S) /\ Len(t \o s) = Len(s) + 1 /\ Len(s) \in Nat
  OBVIOUS
<1>3. t \o s # << >>
  BY <1>2
<1> HIDE DEF t
<1>4. /\ Range(t \o s) = Range(t) \cup Range(s)
      /\ Distinct(t) /\ Distinct(s) /\ Range(t) \cap Range(s) = {} => Distinct(t \o s)
  BY <1>1, JoinedIs
<1>5. v \notin Range(s) => Range(t) \cap Range(s) = {}
  BY <1>1
<1> QED
  BY <1>1, <1>2, <1>3, <1>4, <1>5 DEF t

-----------------------------------------------------------------------------
(* The types of what a source hands out.                                   *)

\* A ring between two calls.
Drained == {r \in RingType(Packets) : r.out = << >>}

SessionType ==
    [batched : BOOLEAN, failed : BOOLEAN, fcc : {"none", "REQUESTED", "ACTIVE"},
     snapshot : BOOLEAN, pending : Seq(Packets), ring : Drained, since : Int,
     last : Packets \cup {None}, replayed : BOOLEAN, skipped : BOOLEAN, hurt : BOOLEAN]

\* The part of the source that delivery changes.
Part == [viewer : [Viewers -> SessionType], batch : {s \in Seq(Packets) : Len(s) <= BatchCap}]

\* Nobody changes between batches and packets.
SameRoles(vw, ww) == \A v \in Viewers : ww[v].batched = vw[v].batched

LEMMA SourceConstants ==
    ASSUME SourceAssumption
    PROVE  /\ BatchCap \in Nat \ {0} /\ Packets \subseteq Nat /\ None \notin Packets
           /\ SentFirst \in Nat \ {0} /\ SentLast \in Nat /\ SentFirst <= SentLast
BY DEF SourceAssumption, Packets, None

LEMMA PlayedTyped ==
    ASSUME SourceAssumption, NEW x \in SessionType, NEW packets \in Seq(Packets)
    PROVE  Played(x, packets) \in SessionType /\ Played(x, packets).batched = x.batched
<1> DEFINE all == IF x.last = None THEN packets ELSE <<x.last>> \o packets
           n   == Len(all)
           l   == IF n = 0 THEN None ELSE all[n]
           a   == x.replayed \/ \E k \in 1..(n - 1) : all[k + 1] <= all[k]
           s   == x.skipped \/ \E k \in 1..(n - 1) :
                                   \E p \in (all[k] + 1)..(all[k + 1] - 1) : p > x.since
<1>1. Played(x, packets) = [x EXCEPT !.last = l, !.replayed = a, !.skipped = s]
  BY DEF Played
<1>2. all \in Seq(Packets)
  <2>1. x.last \in Packets \cup {None}
    BY DEF SessionType
  <2> QED
    BY <2>1
<1>3. l \in Packets \cup {None}
  <2> HIDE DEF all
  <2> QED
    BY <1>2
<1>4. a \in BOOLEAN /\ s \in BOOLEAN
  <2> HIDE DEF all, n
  <2>1. x.replayed \in BOOLEAN /\ x.skipped \in BOOLEAN
    BY DEF SessionType
  <2> QED
    BY <2>1
<1> HIDE DEF l, a, s
<1> QED
  BY <1>1, <1>3, <1>4 DEF SessionType

LEMMA FeedOneTyped ==
    ASSUME SourceAssumption, NEW x \in SessionType, NEW i \in Packets
    PROVE  FeedOne(x, i) \in SessionType /\ FeedOne(x, i).batched = x.batched
<1> DEFINE r == InsertPacket(x.ring, i)
           y == [x EXCEPT !.ring = Emptied(r)]
<1>1. FeedOne(x, i) = IF x.snapshot THEN y ELSE Played(y, r.out)
  BY DEF FeedOne, Emptied
<1>2. x.ring \in RingType(Packets) /\ x.ring.out = << >> /\ Packets \subseteq Nat
  BY SourceConstants DEF SessionType, Drained
<1>3. r \in RingType(Packets)
  BY <1>2, InsertTyped
<1> HIDE DEF r
<1>4. Emptied(r) \in RingType(Packets) /\ Emptied(r).out = << >>
  BY <1>2, <1>3, EmptiedIs
<1>5. r.out \in Seq(Packets)
  BY <1>3 DEF RingType
<1>6. Emptied(r) \in Drained
  BY <1>4 DEF Drained
<1>7. y \in SessionType /\ y.batched = x.batched
  BY <1>6 DEF SessionType
<1> HIDE DEF y
<1> QED
  BY <1>1, <1>5, <1>7, PlayedTyped

\* The sessions g that the packets make of x, one after the other.
Fed(g, x, packets) ==
    /\ g[0] = x /\ Feed(x, packets) = g[Len(packets)]
    /\ \A k \in 1..Len(packets) : g[k] = FeedOne(g[k - 1], packets[k])
    /\ \A k \in 0..Len(packets) : g[k] \in SessionType /\ g[k].batched = x.batched

LEMMA FeedIs ==
    ASSUME SourceAssumption, NEW x \in SessionType, NEW packets \in Seq(Packets)
    PROVE  \E g : Fed(g, x, packets)
<1> DEFINE n == Len(packets)
           after == CHOOSE f : f = [k \in 0..n |->
                        IF k = 0 THEN x ELSE FeedOne(f[k - 1], packets[k])]
           F == [k \in 1..n |-> [y \in SessionType |-> FeedOne(y, packets[k])]]
<1>0. n \in Nat /\ \A k \in 1..n : packets[k] \in Packets
  OBVIOUS
<1>1. Feed(x, packets) = after[n]
  BY DEF Feed
<1> HIDE DEF n
<1>2. F \in [1..n -> [SessionType -> SessionType]]
  BY <1>0, FeedOneTyped
<1>3. PICK g : Runs(g, n, SessionType, x, F)
  <2> HIDE DEF F
  <2> QED
    BY <1>0, <1>2, RunsExist
<1>4. g \in [0..n -> SessionType] /\ g[0] = x /\ \A k \in 1..n : g[k] = F[k][g[k - 1]]
  BY <1>3 DEF Runs
<1>5. g = [k \in 0..n |-> IF k = 0 THEN x ELSE FeedOne(g[k - 1], packets[k])]
  <2>1. ASSUME NEW k \in 1..n PROVE g[k] = FeedOne(g[k - 1], packets[k])
    <3>1. k - 1 \in 0..n /\ g[k - 1] \in SessionType
      BY <1>0, <1>4
    <3> QED
      BY <1>4, <3>1
  <2>2. \A k \in 0..n : k = 0 \/ k \in 1..n
    BY <1>0
  <2> HIDE DEF F
  <2>3. \A k \in 0..n : g[k] = IF k = 0 THEN x ELSE FeedOne(g[k - 1], packets[k])
    BY ONLY <1>4, <2>1, <2>2
  <2>4. g = [k \in 0..n |-> g[k]]
    BY <1>4
  <2> QED
    BY ONLY <2>3, <2>4
<1>6. after = [k \in 0..n |-> IF k = 0 THEN x ELSE FeedOne(after[k - 1], packets[k])]
  BY <1>5
<1> HIDE DEF after, F
<1>7. \A k \in 0..n : after[k] = IF k = 0 THEN x ELSE FeedOne(after[k - 1], packets[k])
  BY <1>6
<1> DEFINE good == {k \in 0..n : after[k] \in SessionType /\ after[k].batched = x.batched}
<1>8. 0 \in good
  BY <1>0, <1>7
<1>9. ASSUME NEW k \in 1..n, k - 1 \in good PROVE k \in good
  <2>1. k \in 0..n /\ k # 0 /\ packets[k] \in Packets
    BY <1>0
  <2>2. after[k] = FeedOne(after[k - 1], packets[k])
    BY <1>7, <2>1
  <2> QED
    BY <1>9, <2>1, <2>2, FeedOneTyped
<1>10. \A k \in 0..n : k \in good
  <2> HIDE DEF good
  <2> QED
    BY <1>0, <1>8, <1>9, StepByStep
<1>11. \A k \in 1..n : after[k] = FeedOne(after[k - 1], packets[k])
  <2>1. \A k \in 1..n : k \in 0..n /\ k # 0
    BY <1>0
  <2> QED
    BY <1>7, <2>1
<1>12. after[0] = x
  BY <1>0, <1>7
<1>13. Fed(after, x, packets)
  BY <1>1, <1>10, <1>11, <1>12 DEF Fed, n
<1> QED
  BY <1>13

LEMMA FeedTyped ==
    ASSUME SourceAssumption, NEW x \in SessionType, NEW packets \in Seq(Packets)
    PROVE  Feed(x, packets) \in SessionType /\ Feed(x, packets).batched = x.batched
<1>1. PICK g : Fed(g, x, packets)
  BY FeedIs
<1>2. Len(packets) \in 0..Len(packets)
  OBVIOUS
<1> QED
  BY <1>1, <1>2 DEF Fed

LEMMA DeliverPacketTyped ==
    ASSUME SourceAssumption, NEW x \in SessionType, NEW i \in Packets
    PROVE  DeliverPacket(x, i) \in SessionType /\ DeliverPacket(x, i).batched = x.batched
<1>0. x.failed \in BOOLEAN /\ x.pending \in Seq(Packets)
  BY DEF SessionType
<1>1. CASE x.failed
  BY <1>1 DEF DeliverPacket
<1>2. CASE ~x.failed /\ x.fcc = "REQUESTED"
  <2> DEFINE p == Append(x.pending, i)
  <2>1. p \in Seq(Packets)
    BY <1>0
  <2>2. DeliverPacket(x, i) = [x EXCEPT !.pending = p]
    BY <1>2 DEF DeliverPacket
  <2> HIDE DEF p
  <2> QED
    BY <2>1, <2>2 DEF SessionType
<1>3. CASE ~x.failed /\ x.fcc # "REQUESTED"
  <2> DEFINE e == << >>
             y == [x EXCEPT !.pending = e]
             p == Append(x.pending, i)
  <2>1. p \in Seq(Packets) /\ e \in Seq(Packets)
    BY <1>0
  <2>2. DeliverPacket(x, i) = Feed(y, p)
    BY <1>3 DEF DeliverPacket
  <2> HIDE DEF p, e
  <2>3. y \in SessionType /\ y.batched = x.batched
    BY <2>1 DEF SessionType
  <2> HIDE DEF y
  <2> QED
    BY <2>1, <2>2, <2>3, FeedTyped
<1> QED
  BY <1>0, <1>1, <1>2, <1>3

LEMMA DeliverPrivateTyped ==
    ASSUME SourceAssumption, NEW vw \in [Viewers -> SessionType], NEW i \in Packets, NEW fail
    PROVE  /\ DeliverPrivate(vw, i, fail) \in [Viewers -> SessionType]
           /\ SameRoles(vw, DeliverPrivate(vw, i, fail))
<1> DEFINE ww == DeliverPrivate(vw, i, fail)
<1>1. ww = [v \in Viewers |-> ww[v]]
  BY DEF DeliverPrivate
<1>2. ASSUME NEW v \in Viewers PROVE ww[v] \in SessionType /\ ww[v].batched = vw[v].batched
  <2>1. vw[v] \in SessionType
    OBVIOUS
  <2>2. \/ ww[v] = vw[v]
        \/ ww[v] = [vw[v] EXCEPT !.hurt = TRUE]
        \/ ww[v] = DeliverPacket(vw[v], i)
    BY DEF DeliverPrivate
  <2>3. /\ [vw[v] EXCEPT !.hurt = TRUE] \in SessionType
        /\ [vw[v] EXCEPT !.hurt = TRUE].batched = vw[v].batched
    BY <2>1 DEF SessionType
  <2> HIDE DEF ww
  <2> QED
    BY <2>1, <2>2, <2>3, DeliverPacketTyped
<1> HIDE DEF ww
<1>3. ww \in [Viewers -> SessionType] /\ SameRoles(vw, ww)
  BY <1>1, <1>2 DEF SameRoles
<1> QED
  BY <1>3 DEF ww

\* What Part says of m.
LEMMA PartIs ==
    ASSUME NEW vw \in [Viewers -> SessionType], NEW s \in Seq(Packets), Len(s) <= BatchCap
    PROVE  [viewer |-> vw, batch |-> s] \in Part
BY DEF Part

LEMMA PartFields ==
    ASSUME NEW m \in Part
    PROVE  /\ m.viewer \in [Viewers -> SessionType] /\ m.batch \in Seq(Packets)
           /\ Len(m.batch) <= BatchCap /\ Len(m.batch) \in Nat
           /\ m = [viewer |-> m.viewer, batch |-> m.batch]
BY DEF Part

LEMMA FanoutTyped ==
    ASSUME SourceAssumption, NEW m \in Part, NEW packets \in Seq(Packets), NEW fail
    PROVE  /\ Fanout(m, packets, fail) \in Part /\ Fanout(m, packets, fail).batch = m.batch
           /\ SameRoles(m.viewer, Fanout(m, packets, fail).viewer)
<1> DEFINE lacks(x) == [x EXCEPT !.failed = TRUE, !.hurt = TRUE]
           ww == [v \in Viewers |->
                     IF ~Attached(v) \/ ~m.viewer[v].batched \/ m.viewer[v].failed THEN m.viewer[v]
                     ELSE IF v \in fail /\ refs > 1 THEN lacks(m.viewer[v])
                     ELSE Played(m.viewer[v], packets)]
<1>1. Fanout(m, packets, fail) = [m EXCEPT !.viewer = ww]
  BY DEF Fanout
<1>2. ASSUME NEW v \in Viewers
      PROVE  ww[v] \in SessionType /\ ww[v].batched = m.viewer[v].batched
  <2>1. m.viewer[v] \in SessionType
    BY PartFields
  <2>2. ww[v] = m.viewer[v] \/ ww[v] = lacks(m.viewer[v]) \/ ww[v] = Played(m.viewer[v], packets)
    OBVIOUS
  <2>3. lacks(m.viewer[v]) \in SessionType /\ lacks(m.viewer[v]).batched = m.viewer[v].batched
    BY <2>1 DEF SessionType
  <2> HIDE DEF ww, lacks
  <2> QED
    BY <2>1, <2>2, <2>3, PlayedTyped
<1>3. ww \in [Viewers -> SessionType] /\ SameRoles(m.viewer, ww)
  <2>1. ww = [v \in Viewers |-> ww[v]]
    OBVIOUS
  <2> HIDE DEF ww
  <2> QED
    BY <1>2, <2>1 DEF SameRoles
<1> HIDE DEF ww
<1>4. Fanout(m, packets, fail) = [viewer |-> ww, batch |-> m.batch]
  BY <1>1, PartFields
<1> QED
  BY <1>3, <1>4, PartIs, PartFields

LEMMA BatchFlushed ==
    ASSUME SourceAssumption, NEW m \in Part, NEW fail
    PROVE  /\ FlushBatch(m, fail) \in Part /\ FlushBatch(m, fail).batch = << >>
           /\ SameRoles(m.viewer, FlushBatch(m, fail).viewer)
<1>1. m.batch \in Seq(Packets) /\ m.viewer \in [Viewers -> SessionType]
  BY PartFields
<1>2. CASE m.batch = << >>
  BY <1>2 DEF FlushBatch, SameRoles
<1>3. CASE m.batch # << >>
  <2> DEFINE f == Fanout(m, m.batch, fail)
             e == << >>
  <2>1. f \in Part /\ SameRoles(m.viewer, f.viewer)
    BY <1>1, FanoutTyped
  <2>2. FlushBatch(m, fail) = [f EXCEPT !.batch = e]
    BY <1>3 DEF FlushBatch
  <2>3. e \in Seq(Packets) /\ Len(e) <= BatchCap
    BY SourceConstants
  <2> HIDE DEF f, e
  <2>4. FlushBatch(m, fail) = [viewer |-> f.viewer, batch |-> e]
    BY <2>1, <2>2, PartFields
  <2>5. f.viewer \in [Viewers -> SessionType]
    BY <2>1, PartFields
  <2>6. FlushBatch(m, fail) \in Part
    BY ONLY <2>3, <2>4, <2>5, PartIs
  <2>7. FlushBatch(m, fail).batch = e /\ FlushBatch(m, fail).viewer = f.viewer
    BY <2>4
  <2> QED
    BY <2>1, <2>6, <2>7 DEF e
<1> QED
  BY <1>2, <1>3

LEMMA AppendPacketTyped ==
    ASSUME SourceAssumption, NEW m \in Part, NEW i \in Packets, NEW fail, NEW noBatch
    PROVE  /\ AppendPacket(m, i, fail, noBatch) \in Part
           /\ SameRoles(m.viewer, AppendPacket(m, i, fail, noBatch).viewer)
<1> DEFINE f == IF Len(m.batch) = BatchCap THEN FlushBatch(m, fail) ELSE m
           s == Append(f.batch, i)
           a == [f EXCEPT !.batch = s]
           one == <<i>>
<1>1. AppendPacket(m, i, fail, noBatch) =
          IF clients = 0 THEN m
          ELSE IF f.batch = << >> /\ noBatch THEN Fanout(f, one, fail)
          ELSE IF Exact /\ Len(a.batch) = BatchCap THEN FlushBatch(a, fail) ELSE a
  BY DEF AppendPacket
<1>2. f \in Part /\ SameRoles(m.viewer, f.viewer) /\ Len(f.batch) < BatchCap
  <2>1. CASE Len(m.batch) = BatchCap
    <3>1. f \in Part /\ SameRoles(m.viewer, f.viewer) /\ f.batch = << >>
      BY <2>1, BatchFlushed
    <3> HIDE DEF f
    <3> QED
      BY <3>1, SourceConstants
  <2>2. CASE Len(m.batch) # BatchCap
    BY <2>2, SourceConstants, PartFields DEF SameRoles
  <2> QED
    BY <2>1, <2>2
<1> HIDE DEF f
<1>3. s \in Seq(Packets) /\ Len(s) <= BatchCap /\ one \in Seq(Packets)
  BY <1>2, SourceConstants, PartFields
<1> HIDE DEF s, one
<1>4. a = [viewer |-> f.viewer, batch |-> s]
  BY <1>2, PartFields
<1> HIDE DEF a
<1>5. a \in Part /\ a.viewer = f.viewer
  BY <1>2, <1>3, <1>4, PartIs, PartFields
<1>6. Fanout(f, one, fail) \in Part /\ SameRoles(f.viewer, Fanout(f, one, fail).viewer)
  BY <1>2, <1>3, FanoutTyped
<1>7. FlushBatch(a, fail) \in Part /\ SameRoles(a.viewer, FlushBatch(a, fail).viewer)
  BY <1>5, BatchFlushed
<1> QED
  BY <1>1, <1>2, <1>5, <1>6, <1>7 DEF SameRoles

\* The same for the packets that go into the batch.
Added(g, m, packets, fail, noBatch) ==
    /\ g[0] = m /\ AppendPackets(m, packets, fail, noBatch) = g[Len(packets)]
    /\ \A k \in 1..Len(packets) : g[k] = AppendPacket(g[k - 1], packets[k], fail, noBatch)
    /\ \A k \in 0..Len(packets) : g[k] \in Part /\ SameRoles(m.viewer, g[k].viewer)

LEMMA AppendPacketsIs ==
    ASSUME SourceAssumption, NEW m \in Part, NEW packets \in Seq(Packets), NEW fail, NEW noBatch
    PROVE  \E g : Added(g, m, packets, fail, noBatch)
<1> DEFINE n == Len(packets)
           Step(y, k) == AppendPacket(y, packets[k], fail, noBatch)
           after == CHOOSE f : f = [k \in 0..n |-> IF k = 0 THEN m ELSE Step(f[k - 1], k)]
           F == [k \in 1..n |-> [y \in Part |-> Step(y, k)]]
<1>0. n \in Nat /\ \A k \in 1..n : packets[k] \in Packets
  OBVIOUS
<1>1. AppendPackets(m, packets, fail, noBatch) = after[n]
  BY DEF AppendPackets
<1> HIDE DEF n
<1>2. \A k \in 1..n, y \in Part : Step(y, k) \in Part /\ SameRoles(y.viewer, Step(y, k).viewer)
  BY <1>0, AppendPacketTyped
<1> HIDE DEF Step
<1>3. F \in [1..n -> [Part -> Part]]
  BY <1>2
<1>4. PICK g : Runs(g, n, Part, m, F)
  <2> HIDE DEF F
  <2> QED
    BY <1>0, <1>3, RunsExist
<1>5. g \in [0..n -> Part] /\ g[0] = m /\ \A k \in 1..n : g[k] = F[k][g[k - 1]]
  BY <1>4 DEF Runs
<1>6. g = [k \in 0..n |-> IF k = 0 THEN m ELSE Step(g[k - 1], k)]
  <2>1. ASSUME NEW k \in 1..n PROVE g[k] = Step(g[k - 1], k)
    <3>1. k - 1 \in 0..n /\ g[k - 1] \in Part
      BY <1>0, <1>5
    <3> QED
      BY <1>5, <3>1
  <2>2. \A k \in 0..n : k = 0 \/ k \in 1..n
    BY <1>0
  <2> HIDE DEF F
  <2>3. \A k \in 0..n : g[k] = IF k = 0 THEN m ELSE Step(g[k - 1], k)
    BY ONLY <1>5, <2>1, <2>2
  <2>4. g = [k \in 0..n |-> g[k]]
    BY <1>5
  <2> QED
    BY ONLY <2>3, <2>4
<1>7. after = [k \in 0..n |-> IF k = 0 THEN m ELSE Step(after[k - 1], k)]
  BY <1>6
<1> HIDE DEF after, F
<1>8. \A k \in 0..n : after[k] = IF k = 0 THEN m ELSE Step(after[k - 1], k)
  BY <1>7
<1> DEFINE good == {k \in 0..n : after[k] \in Part /\ SameRoles(m.viewer, after[k].viewer)}
<1>9. 0 \in good
  BY <1>0, <1>8 DEF SameRoles
<1>10. ASSUME NEW k \in 1..n, k - 1 \in good PROVE k \in good
  <2>1. k \in 0..n /\ k # 0
    BY <1>0
  <2>2. after[k] = Step(after[k - 1], k)
    BY <1>8, <2>1
  <2>3. after[k] \in Part /\ SameRoles(after[k - 1].viewer, after[k].viewer)
    BY <1>2, <1>10, <2>2
  <2>4. SameRoles(m.viewer, after[k].viewer)
    BY <1>10, <2>3 DEF SameRoles
  <2> QED
    BY <2>1, <2>3, <2>4
<1>11. \A k \in 0..n : k \in good
  <2> HIDE DEF good
  <2> QED
    BY <1>0, <1>9, <1>10, StepByStep
<1>12. \A k \in 1..n : after[k] = Step(after[k - 1], k)
  <2>1. \A k \in 1..n : k \in 0..n /\ k # 0
    BY <1>0
  <2> QED
    BY <1>8, <2>1
<1>13. after[0] = m
  BY <1>0, <1>8
<1>14. Added(after, m, packets, fail, noBatch)
  BY <1>1, <1>11, <1>12, <1>13 DEF Added, Step, n
<1> QED
  BY <1>14

LEMMA AppendPacketsTyped ==
    ASSUME SourceAssumption, NEW m \in Part, NEW packets \in Seq(Packets), NEW fail, NEW noBatch
    PROVE  /\ AppendPackets(m, packets, fail, noBatch) \in Part
           /\ SameRoles(m.viewer, AppendPackets(m, packets, fail, noBatch).viewer)
<1>1. PICK g : Added(g, m, packets, fail, noBatch)
  BY AppendPacketsIs
<1>2. Len(packets) \in 0..Len(packets)
  OBVIOUS
<1> QED
  BY <1>1, <1>2 DEF Added

LEMMA PromotedTyped ==
    ASSUME SourceAssumption, NEW m \in Part, NEW ready, NEW fail
    PROVE  /\ Promoted(m, ready, fail) \in Part
           /\ \A v \in Viewers : Promoted(m, ready, fail).viewer[v].batched
                                     = (m.viewer[v].batched \/ v \in ready)
<1> DEFINE f == IF ready = {} THEN m ELSE FlushBatch(m, fail)
           ww == [v \in Viewers |-> [f.viewer[v] EXCEPT !.batched = @ \/ v \in ready]]
<1>1. Promoted(m, ready, fail) = [f EXCEPT !.viewer = ww]
  BY DEF Promoted
<1>2. f \in Part /\ SameRoles(m.viewer, f.viewer)
  BY BatchFlushed DEF SameRoles
<1> HIDE DEF f
<1>3. ASSUME NEW v \in Viewers
      PROVE  ww[v] \in SessionType /\ ww[v].batched = (m.viewer[v].batched \/ v \in ready)
  <2>1. f.viewer[v] \in SessionType /\ f.viewer[v].batched = m.viewer[v].batched
    BY <1>2, PartFields DEF SameRoles
  <2>2. ww[v] = [f.viewer[v] EXCEPT !.batched = f.viewer[v].batched \/ v \in ready]
    OBVIOUS
  <2> HIDE DEF ww
  <2> QED
    BY <2>1, <2>2 DEF SessionType
<1>4. ww = [v \in Viewers |-> ww[v]]
  OBVIOUS
<1> HIDE DEF ww
<1>5. ww \in [Viewers -> SessionType]
  BY <1>3, <1>4
<1>6. Promoted(m, ready, fail) = [viewer |-> ww, batch |-> f.batch]
  BY <1>1, <1>2, PartFields
<1>7. f.batch \in Seq(Packets) /\ Len(f.batch) <= BatchCap
  BY <1>2, PartFields
<1>8. Promoted(m, ready, fail) \in Part /\ Promoted(m, ready, fail).viewer = ww
  BY ONLY <1>5, <1>6, <1>7, PartIs
<1> QED
  BY ONLY <1>3, <1>8

-----------------------------------------------------------------------------
(* The registry of a source.                                               *)

\* Who of the subscribers gets the batches.
Batched == {v \in Range(subscribers) : viewer[v].batched}

Supplied ==
    /\ viewer \in [Viewers -> SessionType]
    /\ batch \in Seq(Packets) /\ Len(batch) <= BatchCap
    /\ sring \in Drained
    /\ shared \in BOOLEAN /\ srcFailed \in BOOLEAN
    /\ sent \in (SentFirst - 1)..SentLast /\ late \in Packets \cup {None}

Registered ==
    /\ subscribers \in Seq(Viewers) /\ Distinct(subscribers)
    /\ packetSubs \in Seq(Viewers) /\ Distinct(packetSubs)
    /\ Range(packetSubs) = {v \in Range(subscribers) : ~viewer[v].batched}
    /\ refs = Len(subscribers) /\ clients = Cardinality(Batched)
    /\ IF subscribers = << >> THEN owner = None ELSE owner \in Range(subscribers)

\* The inductive invariant.
SourceIInv == Supplied /\ Registered

LEMMA RangeIn ==
    ASSUME NEW S, NEW s \in Seq(S)
    PROVE  Range(s) \subseteq S /\ (s = << >> <=> Range(s) = {}) /\ (s # << >> => Head(s) \in Range(s))
<1>1. DOMAIN s = 1..Len(s) /\ Len(s) \in Nat /\ \A k \in 1..Len(s) : s[k] \in S
  OBVIOUS
<1>2. s # << >> => 1 \in 1..Len(s) /\ Head(s) = s[1]
  OBVIOUS
<1>3. s = << >> => 1..Len(s) = {}
  OBVIOUS
<1> QED
  BY <1>1, <1>2, <1>3 DEF Range

LEMMA BatchedFinite ==
    ASSUME Registered
    PROVE  IsFiniteSet(Range(subscribers)) /\ IsFiniteSet(Batched) /\ clients \in Nat
<1>1. IsFiniteSet(Range(subscribers))
  BY DistinctCount DEF Registered
<1>2. Batched \in SUBSET Range(subscribers)
  BY DEF Batched
<1>3. IsFiniteSet(Batched)
  BY <1>1, <1>2, FS_Subset
<1>4. Cardinality(Batched) \in Nat
  BY <1>3, FS_CardinalityType
<1> QED
  BY <1>1, <1>3, <1>4 DEF Registered

\* Nothing of the registry depends on more of the viewers than their roles.
LEMMA RegistryAlone ==
    ASSUME Registered, SameRoles(viewer, viewer'), UNCHANGED registry
    PROVE  Registered'
<1>1. /\ subscribers' = subscribers /\ packetSubs' = packetSubs /\ refs' = refs
      /\ clients' = clients /\ owner' = owner
  BY DEF registry
<1>2. Range(subscribers) \subseteq Viewers
  BY RangeIn DEF Registered
<1>3. \A v \in Range(subscribers) : viewer'[v].batched = viewer[v].batched
  BY <1>2 DEF SameRoles
<1>4. Batched' = Batched
  BY <1>1, <1>3 DEF Batched
<1>5. {v \in Range(subscribers) : ~viewer'[v].batched} = {v \in Range(subscribers) : ~viewer[v].batched}
  BY <1>3
<1> QED
  BY <1>1, <1>4, <1>5 DEF Registered

\* What a step has to show of the viewers and the batch.
SupplyNext == /\ viewer' \in [Viewers -> SessionType]
              /\ batch' \in Seq(Packets) /\ Len(batch') <= BatchCap

LEMMA StateTyped ==
    ASSUME Supplied
    PROVE  State \in Part /\ State.viewer = viewer /\ State.batch = batch
<1>1. State = [viewer |-> viewer, batch |-> batch]
  BY DEF State
<1>2. viewer \in [Viewers -> SessionType] /\ batch \in Seq(Packets) /\ Len(batch) <= BatchCap
  BY DEF Supplied
<1> QED
  BY <1>1, <1>2, PartIs

LEMMA BecomesPart ==
    ASSUME NEW m \in Part, viewer' = m.viewer, batch' = m.batch
    PROVE  SupplyNext
BY PartFields DEF SupplyNext

LEMMA SessionTyped ==
    ASSUME sent \in Int, NEW how \in {"none", "REQUESTED", "ACTIVE"},
           NEW snapshot \in BOOLEAN, NEW batched \in BOOLEAN
    PROVE  /\ Session(how, snapshot, batched) \in SessionType
           /\ Session(how, snapshot, batched).batched = batched
<1> DEFINE e == << >>
<1>1. Session(how, snapshot, batched) =
          [batched |-> batched, failed |-> FALSE, fcc |-> how, snapshot |-> snapshot,
           pending |-> e, ring |-> EmptyRing, since |-> sent, last |-> None,
           replayed |-> FALSE, skipped |-> FALSE, hurt |-> FALSE]
  BY DEF Session
<1>2. e \in Seq(Packets) /\ EmptyRing \in Drained
  BY EmptyTyped DEF Drained
<1> HIDE DEF e
<1> QED
  BY <1>1, <1>2 DEF SessionType

LEMMA NobodyTyped ==
    ASSUME sent \in Int
    PROVE  Nobody \in SessionType /\ Nobody.batched = FALSE
<1> DEFINE x == Session("none", FALSE, FALSE)
<1>1. x \in SessionType /\ x.batched = FALSE
  BY SessionTyped
<1>2. Nobody = [x EXCEPT !.since = None] /\ None \in Int
  BY DEF Nobody, None
<1> HIDE DEF x
<1> QED
  BY <1>1, <1>2 DEF SessionType

LEMMA SourceInitHolds ==
    ASSUME SourceAssumption, SourceInit
    PROVE  SourceIInv
<1> DEFINE e == << >>
<1>1. /\ sent = SentFirst - 1 /\ late = None /\ subscribers = e /\ packetSubs = e
      /\ refs = 0 /\ clients = 0 /\ shared = FALSE /\ sring = EmptyRing /\ batch = e
      /\ srcFailed = FALSE /\ owner = None /\ viewer = [v \in Viewers |-> Nobody]
  BY DEF SourceInit
<1>2. e \in Seq(Packets) /\ e \in Seq(Viewers) /\ Len(e) = 0 /\ Distinct(e) /\ Range(e) = {}
  BY DEF Distinct, Range
<1> HIDE DEF e
<1>3. Nobody \in SessionType
  <2>1. sent \in Int
    BY <1>1, SourceConstants
  <2> QED
    BY <2>1, NobodyTyped
<1>4. viewer \in [Viewers -> SessionType]
  BY <1>1, <1>3
<1>5. EmptyRing \in Drained
  BY EmptyTyped DEF Drained
<1>6. sent \in (SentFirst - 1)..SentLast /\ 0 <= BatchCap
  BY <1>1, SourceConstants
<1>7. Supplied
  BY <1>1, <1>2, <1>4, <1>5, <1>6 DEF Supplied
<1>8. Batched = {} /\ Cardinality(Batched) = 0
  BY <1>1, <1>2, FS_EmptySet DEF Batched
<1>9. Registered
  BY <1>1, <1>2, <1>8 DEF Registered, e
<1> QED
  BY <1>7, <1>9 DEF SourceIInv

\* Of a packet of the stream: who is promoted moves from one list to the other.
LEMMA ProcessStep ==
    ASSUME SourceAssumption, Supplied, Registered, NEW i \in Packets, NEW fail, NEW noBatch, NEW again,
           Process(i, fail, noBatch, again)
    PROVE  /\ SupplyNext /\ sring' \in Drained /\ Registered'
           /\ shared' = shared /\ srcFailed' = srcFailed
<1> DEFINE private == [State EXCEPT !.viewer = DeliverPrivate(@, i, fail)]
           r       == InsertPacket(sring, i)
           out     == AppendPackets(private, r.out, fail, noBatch)
           ready   == {v \in Range(packetSubs) : Ready(out.viewer[v], r)}
           done    == Promoted(out, ready, fail)
<1>1. private \in Part /\ SameRoles(viewer, private.viewer)
  <2> DEFINE ww == DeliverPrivate(viewer, i, fail)
  <2>1. viewer \in [Viewers -> SessionType]
    BY DEF Supplied
  <2>2. ww \in [Viewers -> SessionType] /\ SameRoles(viewer, ww)
    BY <2>1, DeliverPrivateTyped
  <2>3. private = [viewer |-> ww, batch |-> batch]
    BY DEF State
  <2> HIDE DEF ww, private
  <2>4. private \in Part
    BY <2>2, <2>3, PartIs DEF Supplied
  <2>5. private.viewer = ww
    BY <2>3
  <2> QED
    BY <2>2, <2>4, <2>5
<1>2. r \in RingType(Packets) /\ r.out \in Seq(Packets) /\ Emptied(r) \in Drained
  <2>1. sring \in RingType(Packets) /\ sring.out = << >> /\ Packets \subseteq Nat
    BY SourceConstants DEF Supplied, Drained
  <2>2. r \in RingType(Packets)
    BY <2>1, InsertTyped
  <2> HIDE DEF r
  <2>3. Emptied(r) \in RingType(Packets) /\ Emptied(r).out = << >>
    BY <2>1, <2>2, EmptiedIs
  <2> QED
    BY <2>2, <2>3 DEF RingType, Drained
<1>3. /\ UNCHANGED <<subscribers, refs, owner, shared, srcFailed, joins>>
      /\ \/ /\ sring' = Emptied(r) /\ Becomes(done)
            /\ packetSubs' = Without(packetSubs, ready)
            /\ clients' = clients + Cardinality(ready)
         \/ Becomes(private) /\ UNCHANGED <<sring, packetSubs, clients>>
  BY DEF Process, Emptied
<1> HIDE DEF private, r
<1>4. out \in Part /\ SameRoles(private.viewer, out.viewer)
  BY <1>1, <1>2, AppendPacketsTyped
<1>5. ready \subseteq Range(packetSubs)
  OBVIOUS
<1> HIDE DEF out, ready
<1>6. done \in Part /\ \A v \in Viewers : done.viewer[v].batched = (out.viewer[v].batched \/ v \in ready)
  BY <1>4, PromotedTyped
<1> HIDE DEF done
<1>7. CASE /\ sring' = Emptied(r) /\ Becomes(done)
           /\ packetSubs' = Without(packetSubs, ready)
           /\ clients' = clients + Cardinality(ready)
  <2>1. SupplyNext /\ viewer' = done.viewer
    BY <1>6, <1>7, BecomesPart DEF Becomes
  <2>2. /\ Range(subscribers) \subseteq Viewers /\ ready \subseteq Range(subscribers)
        /\ \A v \in ready : ~viewer[v].batched
    BY <1>5, RangeIn DEF Registered
  <2>3. \A v \in Viewers : viewer'[v].batched = (viewer[v].batched \/ v \in ready)
    BY <1>1, <1>4, <1>6, <2>1 DEF SameRoles
  <2>4. subscribers' = subscribers /\ refs' = refs /\ owner' = owner
    BY <1>3
  <2>5. Batched' = Batched \cup ready /\ Batched \cap ready = {}
    BY <2>2, <2>3, <2>4 DEF Batched
  <2>6. IsFiniteSet(Range(subscribers)) /\ IsFiniteSet(Batched)
    BY BatchedFinite
  <2>7. IsFiniteSet(ready)
    BY <2>2, <2>6, FS_Subset
  <2>8. clients' = Cardinality(Batched')
    <3>1. Cardinality(Batched \cup ready) = Cardinality(Batched) + Cardinality(ready) - Cardinality(Batched \cap ready)
      BY <2>6, <2>7, FS_Union
    <3>2. Cardinality(Batched \cap ready) = 0
      BY <2>5, FS_EmptySet
    <3>3. Cardinality(Batched) \in Nat /\ Cardinality(ready) \in Nat
      BY <2>6, <2>7, FS_CardinalityType
    <3>4. clients = Cardinality(Batched)
      BY DEF Registered
    <3> QED
      BY <1>7, <2>5, <3>1, <3>2, <3>3, <3>4
  <2>9. /\ packetSubs' \in Seq(Viewers) /\ Distinct(packetSubs')
        /\ Range(packetSubs') = Range(packetSubs) \ ready
    BY <1>7, WithoutIs DEF Registered
  <2>10. Range(packetSubs') = {v \in Range(subscribers) : ~viewer'[v].batched}
    BY <2>2, <2>3, <2>9 DEF Registered
  <2>11. Registered'
    BY <2>4, <2>8, <2>9, <2>10 DEF Registered
  <2> QED
    BY <1>2, <1>3, <1>7, <2>1, <2>11
<1>8. CASE Becomes(private) /\ UNCHANGED <<sring, packetSubs, clients>>
  <2>1. SupplyNext /\ viewer' = private.viewer
    BY <1>1, <1>8, BecomesPart DEF Becomes
  <2>2. UNCHANGED registry
    BY <1>3, <1>8 DEF registry
  <2>3. Registered'
    BY <1>1, <2>1, <2>2, RegistryAlone
  <2> QED
    BY <1>3, <1>8, <2>1, <2>3 DEF Supplied
<1> QED
  BY <1>3, <1>7, <1>8

LEMMA ArrivalSteps ==
    ASSUME SourceAssumption, SourceIInv, NEW fail, NEW noBatch,
           Receive(fail, noBatch) \/ ReceiveLate(fail, noBatch) \/ ReceiveAgain
    PROVE  SourceIInv'
<1>1. /\ Supplied /\ Registered /\ shared \in BOOLEAN /\ srcFailed \in BOOLEAN
      /\ sent \in (SentFirst - 1)..SentLast /\ late \in Packets \cup {None} /\ sent \in Int
  BY SourceConstants DEF SourceIInv, Supplied
<1>2. ASSUME NEW i \in Packets, NEW f, NEW b, NEW again, Process(i, f, b, again),
             sent' \in (SentFirst - 1)..SentLast, late' \in Packets \cup {None}
      PROVE  SourceIInv'
  <2>1. /\ SupplyNext /\ sring' \in Drained /\ Registered'
        /\ shared' = shared /\ srcFailed' = srcFailed
    BY <1>1, <1>2, ProcessStep
  <2>2. Supplied'
    BY <1>1, <1>2, <2>1 DEF Supplied, SupplyNext
  <2> QED
    BY <2>1, <2>2 DEF SourceIInv
<1>3. CASE Receive(fail, noBatch)
  <2>1. sent < SentLast /\ Process(sent + 1, fail, noBatch, 0) /\ sent' = sent + 1 /\ late' = late
    BY <1>3 DEF Receive
  <2>2. sent + 1 \in Packets /\ sent' \in (SentFirst - 1)..SentLast
    BY <1>1, <2>1, SourceConstants DEF Packets
  <2> QED
    BY <1>1, <1>2, <2>1, <2>2
<1>4. CASE ReceiveLate(fail, noBatch)
  <2>1. late # None /\ Process(late, fail, noBatch, 0) /\ late' = None /\ sent' = sent
    BY <1>4 DEF ReceiveLate
  <2> QED
    BY <1>1, <1>2, <2>1
<1>5. CASE ReceiveAgain
  <2>1. sent >= SentFirst /\ Process(sent, {}, FALSE, 1) /\ sent' = sent /\ late' = late
    BY <1>5 DEF ReceiveAgain, wire
  <2>2. sent \in Packets
    BY <1>1, <2>1, SourceConstants DEF Packets
  <2> QED
    BY <1>1, <1>2, <2>1, <2>2
<1> QED
  BY <1>3, <1>4, <1>5

\* A step after which the source and its viewers are as before.
LEMMA SourceSame ==
    ASSUME SourceIInv, UNCHANGED <<registry, shared, sring, batch, viewer>>,
           srcFailed' \in BOOLEAN, sent' \in (SentFirst - 1)..SentLast, late' \in Packets \cup {None}
    PROVE  SourceIInv'
<1>1. UNCHANGED registry /\ viewer' = viewer /\ Supplied /\ Registered
  BY DEF SourceIInv
<1>2. Registered'
  BY <1>1, RegistryAlone DEF SameRoles
<1>3. Supplied'
  BY <1>1 DEF Supplied
<1> QED
  BY <1>2, <1>3 DEF SourceIInv

LEMMA WireSteps ==
    ASSUME SourceAssumption, SourceIInv, Overtaken \/ Lost \/ ReceiveFails
    PROVE  SourceIInv'
<1>1. /\ srcFailed \in BOOLEAN /\ sent \in (SentFirst - 1)..SentLast /\ sent \in Int
      /\ late \in Packets \cup {None}
  BY SourceConstants DEF SourceIInv, Supplied
<1>2. UNCHANGED <<registry, shared, sring, batch, viewer>>
  BY DEF Overtaken, Lost, ReceiveFails
<1>3. CASE Overtaken
  <2>1. sent < SentLast /\ sent' = sent + 1 /\ late' = sent + 1 /\ srcFailed' = srcFailed
    BY <1>3 DEF Overtaken
  <2>2. sent' \in (SentFirst - 1)..SentLast /\ late' \in Packets
    BY <1>1, <2>1, SourceConstants DEF Packets
  <2> QED
    BY <1>1, <1>2, <2>1, <2>2, SourceSame
<1>4. CASE Lost
  <2>1. /\ srcFailed' = srcFailed
        /\ \/ late' = None /\ sent' = sent
           \/ sent < SentLast /\ sent' = sent + 1 /\ late' = late
    BY <1>4 DEF Lost
  <2>2. sent' \in (SentFirst - 1)..SentLast
    BY <1>1, <2>1, SourceConstants
  <2> QED
    BY <1>1, <1>2, <2>1, <2>2, SourceSame
<1>5. CASE ReceiveFails
  <2>1. srcFailed' = TRUE /\ sent' = sent /\ late' = late
    BY <1>5 DEF ReceiveFails, wire
  <2> QED
    BY <1>1, <1>2, <2>1, SourceSame
<1> QED
  BY <1>3, <1>4, <1>5

\* A step of one viewer that keeps its role.
LEMMA ViewerSteps ==
    ASSUME SourceAssumption, SourceIInv, NEW v \in Viewers, FccActive(v) \/ SnapshotFallback(v)
    PROVE  SourceIInv'
<1>1. /\ Supplied /\ Registered /\ viewer \in [Viewers -> SessionType] /\ viewer[v] \in SessionType
      /\ UNCHANGED <<registry, shared, sring, batch, srcFailed, wire>>
  BY DEF SourceIInv, Supplied, FccActive, SnapshotFallback
<1>2. ASSUME NEW x \in SessionType, x.batched = viewer[v].batched, viewer' = [viewer EXCEPT ![v] = x]
      PROVE  SourceIInv'
  <2>1. viewer' \in [Viewers -> SessionType] /\ SameRoles(viewer, viewer')
    BY <1>1, <1>2 DEF SameRoles
  <2>2. Registered'
    BY <1>1, <2>1, RegistryAlone
  <2>3. Supplied'
    BY <1>1, <2>1 DEF Supplied, wire
  <2> QED
    BY <2>2, <2>3 DEF SourceIInv
<1>3. CASE SnapshotFallback(v)
  <2> DEFINE x == [viewer[v] EXCEPT !.snapshot = FALSE]
  <2>1. x \in SessionType /\ x.batched = viewer[v].batched
    BY <1>1 DEF SessionType
  <2>2. viewer' = [viewer EXCEPT ![v] = x]
    BY <1>3 DEF SnapshotFallback
  <2> HIDE DEF x
  <2> QED
    BY <1>2, <2>1, <2>2
<1>4. CASE FccActive(v)
  <2> DEFINE q == [EmptyRing EXCEPT !.phase = 2, !.base = Head(viewer[v].pending) % SeqMod]
             x == [viewer[v] EXCEPT !.fcc = "ACTIVE"]
             y == [viewer[v] EXCEPT !.fcc = "ACTIVE", !.ring = q]
  <2>1. x \in SessionType /\ x.batched = viewer[v].batched
    BY <1>1 DEF SessionType
  <2>2. ASSUME viewer[v].pending # << >> PROVE y \in SessionType /\ y.batched = viewer[v].batched
    <3>1. viewer[v].pending \in Seq(Packets)
      BY <1>1 DEF SessionType
    <3>2. Head(viewer[v].pending) \in Packets
      BY <2>2, <3>1
    <3>3. Head(viewer[v].pending) % SeqMod \in 0..(SeqMod - 1)
      <4>1. Head(viewer[v].pending) \in Int
        BY <3>2, SourceConstants
      <4> QED
        BY <4>1, NumberInt
    <3>4. EmptyRing \in RingType(Packets) /\ EmptyRing.out = << >>
      BY EmptyTyped
    <3> DEFINE b == Head(viewer[v].pending) % SeqMod
               p == [EmptyRing EXCEPT !.phase = 2, !.base = b]
    <3>5. q = p /\ b \in 0..(SeqMod - 1) /\ 2 \in 0..2
      BY <3>3
    <3> HIDE DEF b, q
    <3>6. q \in RingType(Packets) /\ q.out = << >>
      BY ONLY <3>4, <3>5 DEF RingType
    <3>7. q \in Drained
      BY <3>6 DEF Drained
    <3> QED
      BY <1>1, <3>7 DEF SessionType
  <2>3. \/ viewer[v].pending # << >> /\ viewer' = [viewer EXCEPT ![v] = y]
        \/ viewer' = [viewer EXCEPT ![v] = x]
    BY <1>1, <1>4 DEF FccActive
  <2> HIDE DEF q, x, y
  <2> QED
    BY <1>2, <2>1, <2>2, <2>3
<1> QED
  BY <1>3, <1>4

LEMMA FlushStep ==
    ASSUME SourceAssumption, SourceIInv, NEW v, NEW fail, TickFlushes(v, fail)
    PROVE  SourceIInv'
<1> DEFINE f == FlushBatch(State, fail)
<1>1. /\ Supplied /\ Registered /\ viewer' = f.viewer /\ batch' = f.batch
      /\ UNCHANGED <<registry, shared, sring, srcFailed, wire>>
  BY DEF SourceIInv, TickFlushes, Becomes
<1>2. f \in Part /\ SameRoles(viewer, f.viewer)
  BY <1>1, StateTyped, BatchFlushed
<1> HIDE DEF f
<1>3. SupplyNext
  BY <1>1, <1>2, BecomesPart
<1>4. Supplied'
  BY <1>1, <1>3 DEF Supplied, SupplyNext, wire
<1>5. Registered'
  BY <1>1, <1>2, RegistryAlone
<1> QED
  BY <1>4, <1>5 DEF SourceIInv

LEMMA DeliverFecTyped ==
    ASSUME SourceAssumption, NEW x \in SessionType, NEW lacks
    PROVE  DeliverFec(x, lacks) \in SessionType /\ DeliverFec(x, lacks).batched = x.batched
<1> DEFINE e == << >>
           y == [x EXCEPT !.pending = e]
<1>1. DeliverFec(x, lacks) = x \/ DeliverFec(x, lacks) = Feed(y, x.pending)
  BY DEF DeliverFec
<1>2. x.pending \in Seq(Packets) /\ e \in Seq(Packets)
  BY DEF SessionType
<1> HIDE DEF e
<1>3. y \in SessionType /\ y.batched = x.batched
  BY <1>2 DEF SessionType
<1> HIDE DEF y
<1> QED
  BY <1>1, <1>2, <1>3, FeedTyped

\* An FEC packet: everybody is back on the list of single packets.
LEMMA FecStep ==
    ASSUME SourceAssumption, SourceIInv, NEW fail, ReceiveFec(fail)
    PROVE  SourceIInv'
<1> DEFINE f == FlushBatch(State, fail)
           t == [v \in Viewers |-> IF f.viewer[v].batched THEN TakeOverRing(f.viewer[v], v \in fail)
                                   ELSE f.viewer[v]]
           single == {v \in Viewers : ~viewer[v].batched}
           e == << >>
<1>1. Supplied /\ Registered /\ sring \in Drained
  BY DEF SourceIInv, Supplied
<1>2. /\ viewer' = [v \in Viewers |->
                       IF Attached(v) THEN DeliverFec(t[v], v \in fail /\ refs > 1) ELSE t[v]]
      /\ batch' = e /\ shared' = FALSE /\ clients' = 0 /\ sring' = EmptyRing
      /\ packetSubs' = SeqExt!Reverse(Without(subscribers, single)) \o packetSubs
      /\ UNCHANGED <<subscribers, refs, owner, srcFailed, wire>>
  BY DEF ReceiveFec
<1>3. f \in Part /\ f.viewer \in [Viewers -> SessionType]
  BY <1>1, StateTyped, BatchFlushed, PartFields
<1> HIDE DEF f
<1>4. ASSUME NEW v \in Viewers PROVE t[v] \in SessionType /\ ~t[v].batched
  <2> DEFINE x == f.viewer[v]
             l == v \in fail
  <2>1. x \in SessionType
    BY <1>3
  <2>2. t[v] = IF x.batched THEN TakeOverRing(x, l) ELSE x
    OBVIOUS
  <2>3. TakeOverRing(x, l) = [x EXCEPT !.batched = FALSE, !.failed = @ \/ l, !.hurt = @ \/ l, !.ring = sring]
    BY DEF TakeOverRing
  <2>4. l \in BOOLEAN
    OBVIOUS
  <2> HIDE DEF x, l, t
  <2>5. TakeOverRing(x, l) \in SessionType /\ ~TakeOverRing(x, l).batched
    BY <1>1, <2>1, <2>3, <2>4 DEF SessionType
  <2> QED
    BY <2>1, <2>2, <2>5 DEF SessionType
<1> HIDE DEF t
<1>5. ASSUME NEW v \in Viewers PROVE viewer'[v] \in SessionType /\ ~viewer'[v].batched
  BY <1>2, <1>4, DeliverFecTyped
<1>6. viewer' \in [Viewers -> SessionType]
  BY <1>2, <1>5
<1>7. e \in Seq(Packets) /\ Len(e) <= BatchCap
  BY SourceConstants
<1> HIDE DEF e
<1>8. EmptyRing \in Drained
  BY EmptyTyped DEF Drained
<1>9. Supplied'
  BY <1>1, <1>2, <1>6, <1>7, <1>8 DEF Supplied, wire
<1>10. Range(subscribers) \subseteq Viewers
  BY <1>1, RangeIn DEF Registered
<1>11. Batched' = {} /\ Cardinality(Batched') = 0
  BY <1>2, <1>5, <1>10, FS_EmptySet DEF Batched
<1> DEFINE w == Without(subscribers, single)
           u == SeqExt!Reverse(w)
<1>12. w \in Seq(Viewers) /\ Distinct(w) /\ Range(w) = Range(subscribers) \ single
  BY <1>1, WithoutIs DEF Registered
<1> HIDE DEF w
<1>13. u \in Seq(Viewers) /\ Distinct(u) /\ Range(u) = Range(subscribers) \ single
  BY <1>12, ReverseIs
<1> HIDE DEF u
<1>14. Range(packetSubs) = Range(subscribers) \cap single
  BY <1>1, <1>10 DEF Registered
<1>15. /\ packetSubs' \in Seq(Viewers) /\ Distinct(packetSubs')
       /\ Range(packetSubs') = Range(subscribers)
  <2>1. packetSubs' = u \o packetSubs
    BY <1>2 DEF u, w
  <2>2. Range(u) \cap Range(packetSubs) = {} /\ Range(u) \cup Range(packetSubs) = Range(subscribers)
    BY <1>13, <1>14
  <2>3. packetSubs \in Seq(Viewers) /\ Distinct(packetSubs)
    BY <1>1 DEF Registered
  <2>4. /\ u \o packetSubs \in Seq(Viewers) /\ Distinct(u \o packetSubs)
        /\ Range(u \o packetSubs) = Range(u) \cup Range(packetSubs)
    BY <1>13, <2>2, <2>3, JoinedIs
  <2> QED
    BY <2>1, <2>2, <2>4
<1>16. {v \in Range(subscribers) : ~viewer'[v].batched} = Range(subscribers)
  BY <1>5, <1>10
<1>17. Registered'
  BY <1>1, <1>2, <1>11, <1>15, <1>16 DEF Registered
<1> QED
  BY <1>9, <1>17 DEF SourceIInv

\* A viewer that joins is a new one, and the socket's events go to it.
LEMMA SessionJoinStep ==
    ASSUME SourceAssumption, SourceIInv, NEW v \in Viewers, NEW fail,
           NEW how \in {"none", "REQUESTED", "ACTIVE"}, NEW snapshot \in BOOLEAN,
           SessionJoin(v, how, snapshot, fail)
    PROVE  SourceIInv'
<1> DEFINE output  == shared \/ subscribers = << >>
           batched == output /\ how = "none" /\ ~snapshot
           f       == FlushBatch(State, fail)
           x       == Session(how, snapshot, batched)
<1>1. /\ Supplied /\ Registered /\ sent \in Int /\ output \in BOOLEAN /\ batched \in BOOLEAN
      /\ v \notin Range(subscribers)
  BY SourceConstants DEF SourceIInv, Supplied, SessionJoin, Attached
<1>2. /\ viewer' = [f.viewer EXCEPT ![v] = x] /\ batch' = f.batch
      /\ clients' = clients + (IF batched THEN 1 ELSE 0)
      /\ packetSubs' = (IF batched THEN packetSubs ELSE <<v>> \o packetSubs)
      /\ shared' = output /\ subscribers' = <<v>> \o subscribers
      /\ refs' = refs + 1 /\ owner' = v
      /\ UNCHANGED <<sring, srcFailed, wire>>
  <2>1. f \in Part
    BY <1>1, StateTyped, BatchFlushed
  <2>2. Becomes([f EXCEPT !.viewer[v] = x])
    BY DEF SessionJoin
  <2> HIDE DEF f, x
  <2>3. viewer' = [f.viewer EXCEPT ![v] = x] /\ batch' = f.batch
    BY <2>1, <2>2, PartFields DEF Becomes
  <2> QED
    BY <2>3 DEF SessionJoin, f, x
<1>3. f \in Part /\ SameRoles(viewer, f.viewer) /\ f.viewer \in [Viewers -> SessionType]
  BY <1>1, StateTyped, BatchFlushed, PartFields
<1>4. x \in SessionType /\ x.batched = batched
  BY <1>1, SessionTyped
<1> HIDE DEF f, x, batched, output
<1>5. /\ viewer' \in [Viewers -> SessionType] /\ viewer'[v].batched = batched
      /\ \A w \in Viewers \ {v} : viewer'[w].batched = viewer[w].batched
  BY <1>2, <1>3, <1>4 DEF SameRoles
<1>6. batch' \in Seq(Packets) /\ Len(batch') <= BatchCap
  BY <1>2, <1>3, PartFields
<1>7. Supplied'
  BY <1>1, <1>2, <1>5, <1>6 DEF Supplied, wire
<1>8. Range(subscribers) \subseteq Viewers /\ v \notin Range(packetSubs)
  BY <1>1, RangeIn DEF Registered
<1>9. /\ subscribers' \in Seq(Viewers) /\ Distinct(subscribers') /\ subscribers' # << >>
      /\ Range(subscribers') = Range(subscribers) \cup {v} /\ Len(subscribers') = Len(subscribers) + 1
  BY <1>1, <1>2, PushIs DEF Registered
<1>10. /\ packetSubs' \in Seq(Viewers) /\ Distinct(packetSubs')
       /\ Range(packetSubs') = Range(packetSubs) \cup (IF batched THEN {} ELSE {v})
  BY <1>1, <1>2, <1>8, PushIs DEF Registered
<1>11. Batched' = Batched \cup (IF batched THEN {v} ELSE {}) /\ v \notin Batched
  BY <1>1, <1>5, <1>8, <1>9 DEF Batched
<1>12. clients' = Cardinality(Batched')
  <2>1. IsFiniteSet(Batched) /\ clients \in Nat /\ clients = Cardinality(Batched)
    BY <1>1, BatchedFinite DEF Registered
  <2>2. Cardinality(Batched \cup {v}) = Cardinality(Batched) + 1
    BY <1>11, <2>1, FS_AddElement
  <2>3. CASE batched
    BY <1>2, <1>11, <2>1, <2>2, <2>3
  <2>4. CASE ~batched
    BY <1>2, <1>11, <2>1, <2>4
  <2> QED
    BY <2>3, <2>4
<1>13. Range(packetSubs') = {w \in Range(subscribers') : ~viewer'[w].batched}
  <2>1. Range(packetSubs) = {w \in Range(subscribers) : ~viewer[w].batched}
    BY <1>1 DEF Registered
  <2> QED
    BY <1>1, <1>5, <1>8, <1>9, <1>10, <2>1
<1>14. Registered'
  BY <1>1, <1>2, <1>9, <1>10, <1>12, <1>13 DEF Registered
<1> QED
  BY <1>7, <1>14 DEF SourceIInv

\* A viewer that leaves, m being the source and its viewers by then.
LEMMA DetachStep ==
    ASSUME SourceAssumption, SourceIInv, NEW v \in Viewers, Attached(v),
           NEW m \in Part, SameRoles(viewer, m.viewer), Detach(v, m),
           srcFailed' \in BOOLEAN, UNCHANGED wire
    PROVE  SourceIInv'
<1> DEFINE rest == Without(subscribers, {v})
           e    == << >>
<1>1. /\ Supplied /\ Registered /\ sent \in Int /\ v \in Range(subscribers)
      /\ Range(subscribers) \subseteq Viewers
  BY SourceConstants, RangeIn DEF SourceIInv, Supplied, Registered, Attached
<1>2. /\ subscribers' = rest /\ refs' = refs - 1
      /\ clients' = clients - (IF viewer[v].batched THEN 1 ELSE 0)
      /\ packetSubs' = Without(packetSubs, {v})
      /\ viewer' = [m.viewer EXCEPT ![v] = Nobody]
      /\ \/ rest # e /\ owner' = Head(rest) /\ batch' = m.batch /\ UNCHANGED <<shared, sring>>
         \/ rest = e /\ owner' = None /\ batch' = e /\ shared' = FALSE /\ sring' = EmptyRing
  <2>1. Becomes([m EXCEPT !.viewer[v] = Nobody])
            => viewer' = [m.viewer EXCEPT ![v] = Nobody] /\ batch' = m.batch
    BY PartFields DEF Becomes
  <2>2. Becomes([viewer |-> [m.viewer EXCEPT ![v] = Nobody], batch |-> << >>])
            => viewer' = [m.viewer EXCEPT ![v] = Nobody] /\ batch' = e
    BY DEF Becomes
  <2> HIDE DEF e, rest
  <2>3. /\ subscribers' = rest /\ refs' = refs - 1
        /\ clients' = clients - (IF viewer[v].batched THEN 1 ELSE 0)
        /\ packetSubs' = Without(packetSubs, {v})
        /\ \/ /\ rest # e /\ owner' = Head(rest) /\ UNCHANGED <<shared, sring>>
              /\ Becomes([m EXCEPT !.viewer[v] = Nobody])
           \/ /\ rest = e /\ owner' = None /\ shared' = FALSE /\ sring' = EmptyRing
              /\ Becomes([viewer |-> [m.viewer EXCEPT ![v] = Nobody], batch |-> << >>])
    BY DEF Detach, NewOwner, rest, e
  <2> QED
    BY <2>1, <2>2, <2>3
<1>3. /\ m.viewer \in [Viewers -> SessionType] /\ m.batch \in Seq(Packets) /\ Len(m.batch) <= BatchCap
      /\ Nobody \in SessionType /\ Nobody.batched = FALSE
  BY <1>1, PartFields, NobodyTyped
<1>4. /\ viewer' \in [Viewers -> SessionType]
      /\ \A w \in Viewers \ {v} : viewer'[w].batched = viewer[w].batched
  BY <1>2, <1>3 DEF SameRoles
<1>5. EmptyRing \in Drained /\ e \in Seq(Packets) /\ Len(e) <= BatchCap
  BY EmptyTyped, SourceConstants DEF Drained
<1>6. rest \in Seq(Viewers) /\ Distinct(rest) /\ Range(rest) = Range(subscribers) \ {v}
  BY <1>1, WithoutIs DEF Registered
<1>7. /\ packetSubs' \in Seq(Viewers) /\ Distinct(packetSubs')
      /\ Range(packetSubs') = Range(packetSubs) \ {v}
  BY <1>1, <1>2, WithoutIs DEF Registered
<1>8. (rest = e <=> Range(rest) = {}) /\ (rest # e => Head(rest) \in Range(rest))
  BY <1>6, RangeIn
<1> HIDE DEF rest, e
<1>9. Supplied'
  BY <1>1, <1>2, <1>3, <1>4, <1>5 DEF Supplied, wire
<1>10. refs' = Len(subscribers')
  <2>1. /\ IsFiniteSet(Range(subscribers)) /\ Cardinality(Range(subscribers)) = Len(subscribers)
        /\ Cardinality(Range(rest)) = Len(rest) /\ refs = Len(subscribers)
    BY <1>1, <1>6, DistinctCount DEF Registered
  <2>2. Cardinality(Range(subscribers) \ {v}) = Cardinality(Range(subscribers)) - 1
    BY <1>1, <2>1, FS_RemoveElement
  <2> QED
    BY <1>2, <1>6, <2>1, <2>2
<1>11. Batched' = Batched \ {v}
  BY <1>1, <1>2, <1>4, <1>6 DEF Batched
<1>12. clients' = Cardinality(Batched')
  <2>1. IsFiniteSet(Batched) /\ clients \in Nat /\ clients = Cardinality(Batched)
    BY <1>1, BatchedFinite DEF Registered
  <2>2. v \in Batched <=> viewer[v].batched
    BY <1>1 DEF Batched
  <2>3. Cardinality(Batched \ {v}) = IF v \in Batched THEN Cardinality(Batched) - 1 ELSE Cardinality(Batched)
    BY <2>1, FS_RemoveElement
  <2> QED
    BY <1>2, <1>11, <2>1, <2>2, <2>3
<1>13. Range(packetSubs') = {w \in Range(subscribers') : ~viewer'[w].batched}
  <2>1. Range(packetSubs) = {w \in Range(subscribers) : ~viewer[w].batched}
    BY <1>1 DEF Registered
  <2> QED
    BY <1>1, <1>2, <1>4, <1>6, <1>7, <2>1
<1>14. IF subscribers' = << >> THEN owner' = None ELSE owner' \in Range(subscribers')
  BY <1>2, <1>8 DEF e
<1>15. Registered'
  BY <1>2, <1>6, <1>7, <1>10, <1>12, <1>13, <1>14 DEF Registered
<1> QED
  BY <1>9, <1>15 DEF SourceIInv

LEMMA DepartureSteps ==
    ASSUME SourceAssumption, SourceIInv, NEW v \in Viewers, NEW fail,
           Leave(v) \/ TickDetaches(v) \/ TickTimesOut(v, fail)
    PROVE  SourceIInv'
<1>1. Supplied /\ srcFailed \in BOOLEAN
  BY DEF SourceIInv, Supplied
<1>2. State \in Part /\ State.viewer = viewer
  BY <1>1, StateTyped
<1>3. CASE Leave(v) \/ TickDetaches(v)
  <2>1. Attached(v) /\ Detach(v, State) /\ srcFailed' \in BOOLEAN /\ UNCHANGED wire
    BY <1>3 DEF Leave, TickDetaches
  <2>2. SameRoles(viewer, State.viewer)
    BY <1>2 DEF SameRoles
  <2> QED
    BY <1>2, <2>1, <2>2, DetachStep
<1>4. CASE TickTimesOut(v, fail)
  <2>1. Attached(v) /\ Detach(v, FlushBatch(State, fail)) /\ srcFailed' \in BOOLEAN /\ UNCHANGED wire
    BY <1>4 DEF TickTimesOut
  <2>2. FlushBatch(State, fail) \in Part /\ SameRoles(viewer, FlushBatch(State, fail).viewer)
    BY <1>2, BatchFlushed
  <2> QED
    BY <2>1, <2>2, DetachStep
<1> QED
  BY <1>3, <1>4

LEMMA SourceStep ==
    ASSUME SourceAssumption, SourceIInv, SourceNext
    PROVE  SourceIInv'
<1>1. ASSUME NEW fail \in Fails, NEW noBatch \in BOOLEAN,
             Receive(fail, noBatch) \/ ReceiveLate(fail, noBatch)
      PROVE  SourceIInv'
  BY <1>1, ArrivalSteps
<1>2. CASE ReceiveAgain
  BY <1>2, ArrivalSteps
<1>3. CASE Overtaken \/ Lost \/ ReceiveFails
  BY <1>3, WireSteps
<1>4. ASSUME NEW fail \in Fails, ReceiveFec(fail) PROVE SourceIInv'
  BY <1>4, FecStep
<1>5. ASSUME NEW v \in Viewers, NEW fail \in Fails,
             \/ SessionJoin(v, "none", FALSE, fail) \/ SessionJoin(v, "none", TRUE, fail)
             \/ SessionJoin(v, "REQUESTED", FALSE, fail) \/ SessionJoin(v, "ACTIVE", FALSE, fail)
      PROVE  SourceIInv'
  BY <1>5, SessionJoinStep
<1>6. ASSUME NEW v \in Viewers, NEW fail \in Fails, TickFlushes(v, fail) PROVE SourceIInv'
  BY <1>6, FlushStep
<1>7. ASSUME NEW v \in Viewers, NEW fail \in Fails, TickTimesOut(v, fail) PROVE SourceIInv'
  BY <1>7, DepartureSteps
<1>8. ASSUME NEW v \in Viewers, FccActive(v) \/ SnapshotFallback(v) PROVE SourceIInv'
  BY <1>8, ViewerSteps
<1>9. ASSUME NEW v \in Viewers, Leave(v) \/ TickDetaches(v) PROVE SourceIInv'
  BY <1>9, DepartureSteps
<1> QED
  BY <1>1, <1>2, <1>3, <1>4, <1>5, <1>6, <1>7, <1>8, <1>9 DEF SourceNext

LEMMA SourceInductive == SourceAssumption => (SourceSpec => []SourceIInv)
<1> SUFFICES ASSUME SourceAssumption PROVE SourceSpec => []SourceIInv
  OBVIOUS
<1>1. SourceInit => SourceIInv
  BY SourceInitHolds
<1>2. SourceIInv /\ [SourceNext]_sourceVars => SourceIInv'
  <2>1. ASSUME SourceIInv, UNCHANGED sourceVars PROVE SourceIInv'
    <3>1. /\ UNCHANGED <<registry, shared, sring, batch, viewer>>
          /\ srcFailed' = srcFailed /\ sent' = sent /\ late' = late
      BY <2>1 DEF sourceVars, wire
    <3> QED
      BY <2>1, <3>1, SourceSame DEF SourceIInv, Supplied
  <2> QED
    BY <2>1, SourceStep
<1> QED
  BY <1>1, <1>2, PTL DEF SourceSpec

\* multicast.c: whatever joins, leaves, fails, is promoted to the batches or
\* thrown back to single packets, for any number of viewers, the counts and
\* lists of a source agree with its sessions and its socket's events go to one
\* of them.
THEOREM RegistryInvariant == SourceSpec => []RegistryInv
<1>1. SourceAssumption /\ SourceIInv => RegistryInv
  <2> SUFFICES ASSUME SourceAssumption, SourceIInv PROVE RegistryInv
    OBVIOUS
  <2>1. Supplied /\ Registered
    BY DEF SourceIInv
  <2>2. /\ Cardinality(Range(subscribers)) = Len(subscribers)
        /\ Cardinality(Range(packetSubs)) = Len(packetSubs)
        /\ Range(subscribers) \subseteq Viewers /\ Len(subscribers) \in Nat
        /\ (subscribers = << >> <=> Len(subscribers) = 0)
    <3>1. /\ subscribers \in Seq(Viewers) /\ Distinct(subscribers)
          /\ packetSubs \in Seq(Viewers) /\ Distinct(packetSubs)
      BY <2>1 DEF Registered
    <3>2. Len(subscribers) \in Nat /\ (subscribers = << >> <=> Len(subscribers) = 0)
      BY <3>1
    <3> QED
      BY <3>1, <3>2, DistinctCount, RangeIn
  <2>3. SourceTypeOK
    <3>1. \A v \in Viewers : viewer[v].ring \in RingType(Packets) /\ viewer[v].fcc \in {"none", "REQUESTED", "ACTIVE"}
      BY <2>1 DEF Supplied, SessionType, Drained
    <3>2. sring \in RingType(Packets) /\ clients \in Nat /\ refs \in Nat
      BY <2>1, <2>2, BatchedFinite DEF Supplied, Registered, Drained
    <3>3. owner \in Viewers \cup {None}
      BY <2>1, <2>2 DEF Registered
    <3> QED
      BY <2>1, <3>1, <3>2, <3>3 DEF SourceTypeOK, Supplied, Registered
  <2>4. RegistryExact
    BY <2>1, <2>2 DEF RegistryExact, Registered, Batched
  <2> QED
    BY <2>3, <2>4 DEF RegistryInv
<1> QED
  BY <1>1, SourceInductive, SourceAssumption, PTL

-----------------------------------------------------------------------------
(* The stream in a source: one packet through one ring.                    *)

\* The window of r begins at b, and nothing in it is newer than t.
RingFrom(r, b, t) ==
    \E n \in Nat \cup {None} :
        /\ Aligned(r, b, n) /\ n <= t
        /\ r.phase = 0 => n = None /\ Buffered(r) = {}
        /\ r.phase # 0 => SentFirst <= b /\ n \in Nat
        /\ r.phase = 1 => {b, n} \subseteq Buffered(r)

\* What inserting i into r, whose window began at b, makes ring q deliver when c
\* is the new begin: no hole is given up but a window before i, and none while
\* the ring collected.
Moved(r, b, i, q, c) ==
    /\ q.phase \in {1, 2}
    /\ q.phase = 1 => r.phase # 2 /\ q.out = << >>
    /\ Ascending(q.out) /\ \A k \in 1..Len(q.out) : q.out[k] < c
    /\ r.phase = 2 => b <= c /\ \A k \in 1..Len(q.out) : b <= q.out[k]
    /\ \A j \in Buffered(r) : j \in Buffered(q) \/ In(q.out, j)
    /\ (r.phase = 2 => b <= i) => i \in Buffered(q) \/ In(q.out, i)
    /\ \A p \in Nat :
          /\ p < c
          /\ r.phase = 2 => b <= p /\ i < p + Window
          /\ r.phase # 2 => \E k \in 1..Len(q.out) : q.out[k] <= p
          => In(q.out, p)

LEMMA SourceDiff ==
    ASSUME SourceAssumption, NEW i \in Packets, NEW b \in Nat, SentFirst <= b, b <= SentLast + 1
    PROVE  SeqDiff(i, b % SeqMod) = i - b
<1> DEFINE h == SeqMod \div 2
<1>1. /\ i \in Nat /\ SentFirst <= i /\ i <= SentLast /\ SentFirst \in Nat /\ SentLast \in Nat
      /\ SentLast - SentFirst < h /\ h \in Nat
  BY SourceConstants, Sizes DEF SourceAssumption, Packets
<1> HIDE DEF h
<1>2. -h <= i - b /\ i - b < h
  BY <1>1
<1> QED
  BY <1>1, <1>2, DiffIs DEF h

\* The first packet only fills the ring.
LEMMA FirstPhase ==
    ASSUME NEW P, P \subseteq Nat, NEW r \in RingType(P), r.phase = 0, NEW i \in P
    PROVE  InsertPacket(r, i).phase = 1
<1> DEFINE p == Placed(r, i % SeqMod, 1)
<1>1. InsertPacket(r, i) = Put(p, i)
  BY DEF InsertPacket, Placed
<1>2. p \in RingType(P) /\ p.phase = 1
  <2>1. i % SeqMod \in 0..(SeqMod - 1)
    BY NumberInt
  <2>2. p.phase = 1
    BY DEF RingType, Placed
  <2>3. 1 \in 0..2
    OBVIOUS
  <2> QED
    BY <2>1, <2>2, <2>3, PlacedTyped
<1> HIDE DEF p
<1>3. Put(p, i).phase = 1
  BY ONLY <1>2, i \in P, P \subseteq Nat, PutTyped
<1> QED
  BY ONLY <1>1, <1>3

LEMMA InsertMoves ==
    ASSUME SourceAssumption, NEW r \in Drained, NEW t \in SentFirst..SentLast,
           NEW b \in Nat, RingFrom(r, b, t), NEW i \in SentFirst..t,
           r.phase = 1 => \A k \in Buffered(r) : -Window < i - k /\ i - k < Window
    PROVE  \E c \in Nat : /\ RingFrom(Emptied(InsertPacket(r, i)), c, t)
                          /\ Moved(r, b, i, InsertPacket(r, i), c)
<1> DEFINE q == InsertPacket(r, i)
           d == q.out
<1>1. /\ i \in Packets /\ i \in Nat /\ t \in Nat /\ t <= SentLast /\ i <= t
      /\ SentFirst \in Nat /\ SentFirst <= i /\ SentLast \in Nat /\ Packets \subseteq Nat
  BY SourceConstants DEF Packets
<1>2. /\ r \in RingType(Packets) /\ r.out = << >> /\ r.phase \in 0..2
  BY DEF Drained, RingType
<1>3. PICK n \in Nat \cup {None} :
          /\ Aligned(r, b, n) /\ n <= t
          /\ r.phase = 0 => n = None /\ Buffered(r) = {}
          /\ r.phase # 0 => SentFirst <= b /\ n \in Nat
          /\ r.phase = 1 => {b, n} \subseteq Buffered(r)
  BY DEF RingFrom
<1>4. r.phase # 0 => SeqDiff(i, r.base) = i - b
  <2> SUFFICES ASSUME r.phase # 0 PROVE SeqDiff(i, r.base) = i - b
    OBVIOUS
  <2>1. r.base = b % SeqMod /\ b <= n + 1 /\ n \in Nat
    BY <1>3 DEF Aligned
  <2>2. b <= SentLast + 1
    BY <1>1, <1>3, <2>1
  <2> QED
    BY <1>1, <1>3, <2>1, <2>2, SourceDiff
<1>5. \E lo, c \in Nat : /\ Inserted(r, n, i, q, lo, c)
                         /\ r.phase = 2 => lo = b
                         /\ r.phase # 2 => lo <= i
  <2>1. CASE r.phase = 0
    <3>1. Inserted(r, n, i, q, i, i)
      BY <1>1, <1>2, <1>3, <2>1, FirstInsert
    <3> HIDE DEF q
    <3> QED
      BY <1>1, <2>1, <3>1
  <2>2. CASE r.phase = 1
    <3>1. \E lo, c \in Nat : lo <= i /\ Inserted(r, n, i, q, lo, c)
      BY <1>1, <1>2, <1>3, <1>4, <2>2, CollectInsert
    <3> HIDE DEF q
    <3> QED
      BY <2>2, <3>1
  <2>3. CASE r.phase = 2
    <3>1. \E c \in Nat : Inserted(r, n, i, q, b, c)
      BY <1>1, <1>2, <1>3, <1>4, <2>3, ActiveInsert
    <3> HIDE DEF q
    <3> QED
      BY <2>3, <3>1
  <2> QED
    BY <1>2, <2>1, <2>2, <2>3
<1>6. PICK lo \in Nat, c \in Nat : /\ Inserted(r, n, i, q, lo, c)
                                   /\ r.phase = 2 => lo = b
                                   /\ r.phase # 2 => lo <= i
  BY <1>5
<1> DEFINE m == Newer(n, i)
<1>7. q \in RingType(Packets)
  BY <1>1, <1>2, InsertTyped
<1> HIDE DEF q
<1>8. /\ Emptied(q).phase = q.phase /\ Buffered(Emptied(q)) = Buffered(q)
      /\ Aligned(q, c, m) <=> Aligned(Emptied(q), c, m)
  BY <1>1, <1>7, EmptiedIs
<1>9. m \in Nat /\ m <= t
  BY <1>1, <1>3 DEF Newer, None
<1> HIDE DEF m
<1>10. /\ Aligned(q, c, m) /\ Delivered(r, lo, q, c) /\ Passed(r, i, q, lo, c)
       /\ q.phase \in {1, 2}
       /\ q.phase = 1 => r.phase # 2 /\ d = << >> /\ {c, m} \subseteq Buffered(q)
  BY <1>6 DEF Inserted, m
<1>11. d \in Seq(Nat) /\ Len(d) \in Nat /\ \A k \in 1..Len(d) : d[k] \in Nat /\ d[k] \in Packets
  <2>1. d \in Seq(Packets)
    BY <1>7 DEF RingType
  <2> HIDE DEF d
  <2> QED
    BY <1>1, <2>1, SeqFacts
<1>12. /\ lo <= c
       /\ \A k \in 1..Len(d) : lo <= d[k] /\ d[k] < c
       /\ Ascending(d)
       /\ \A j \in Buffered(r) : j \in Buffered(q) \/ In(d, j)
  BY <1>10 DEF Delivered, Ascending, In
<1>13. /\ lo <= i => i \in Buffered(q) \/ In(d, i)
       /\ r.phase = 1 /\ q.phase = 2 => lo < c
       /\ \A p \in Nat : lo <= p /\ p < c /\ (r.phase = 2 => i < p + Window) => In(d, p)
  BY <1>10 DEF Passed, Has, In
<1> HIDE DEF d
<1>14. SentFirst <= c
  <2>1. CASE q.phase = 1
    <3>1. c \in Buffered(q)
      BY <1>10, <2>1
    <3>2. c \in Packets
      <4>1. q.slots \in [0..(Window - 1) -> Packets \cup {None}]
        BY <1>7 DEF RingType
      <4> QED
        BY <3>1, <4>1 DEF Buffered
    <3> QED
      BY <3>2 DEF Packets
  <2>2. CASE q.phase = 2 /\ r.phase = 2
    BY <1>1, <1>3, <1>6, <1>12, <2>2
  <2>3. CASE q.phase = 2 /\ r.phase = 1
    <3>1. lo < c
      BY <1>13, <2>3
    <3>2. PICK k \in 1..Len(d) : d[k] = lo
      BY <1>13, <2>3, <3>1 DEF In
    <3>3. d[k] \in Packets /\ d[k] < c
      BY <1>11, <1>12
    <3> QED
      BY <1>1, <1>11, <3>3 DEF Packets
  <2>4. r.phase = 0 => q.phase = 1
    <3>1. ASSUME r.phase = 0
          PROVE  InsertPacket(r, i).phase = 1
      BY ONLY <1>1, <1>2, <3>1, FirstPhase, Zenon
    <3> QED
      BY ONLY <3>1 DEF q
  <2>5. \/ q.phase = 1
        \/ q.phase = 2 /\ (r.phase = 2 \/ r.phase = 1)
    <3>1. q.phase = 1 \/ q.phase = 2
      BY <1>10
    <3>2. r.phase = 0 \/ r.phase = 1 \/ r.phase = 2
      BY <1>2
    <3> QED
      BY ONLY <2>4, <3>1, <3>2
  <2> QED
    BY ONLY <2>1, <2>2, <2>3, <2>5
<1>15. RingFrom(Emptied(q), c, t)
  BY <1>8, <1>9, <1>10, <1>14 DEF RingFrom
<1>16. (r.phase = 2 => b <= i) => lo <= i
  BY <1>2, <1>6
<1>17. ASSUME NEW p \in Nat, p < c, r.phase = 2 => b <= p /\ i < p + Window,
              r.phase # 2 => \E k \in 1..Len(d) : d[k] <= p
       PROVE  In(d, p)
  <2>1. lo <= p
    <3>1. CASE r.phase = 2
      BY <1>6, <1>17, <3>1
    <3>2. CASE r.phase # 2
      <4>1. PICK k \in 1..Len(d) : d[k] <= p
        BY <1>17, <3>2
      <4>2. lo <= d[k] /\ d[k] \in Nat
        BY <1>11, <1>12
      <4> QED
        BY ONLY lo \in Nat, p \in Nat, <4>1, <4>2
    <3> QED
      BY <3>1, <3>2
  <2> QED
    BY <1>13, <1>17, <2>1
<1>18. r.phase = 2 => b <= c /\ \A k \in 1..Len(d) : b <= d[k]
  BY <1>6, <1>12
<1>19. Moved(r, b, i, q, c)
  BY <1>10, <1>12, <1>13, <1>16, <1>17, <1>18 DEF Moved, d
<1> QED
  BY <1>15, <1>19 DEF q

\* y is session x but for its ring and what its client got.
Untouched(x, y) ==
    /\ y.batched = x.batched /\ y.failed = x.failed /\ y.fcc = x.fcc /\ y.snapshot = x.snapshot
    /\ y.pending = x.pending /\ y.since = x.since /\ y.hurt = x.hurt

\* When the client of x gets the packets s, position p is passed over.
PassesOver(x, s, p) ==
    \/ \E k \in 1..(Len(s) - 1) : s[k] < p /\ p < s[k + 1]
    \/ x.last # None /\ s # << >> /\ x.last < p /\ p < s[1]

LEMMA BetweenPackets ==
    ASSUME SourceAssumption, NEW a \in Packets, NEW b \in Packets, NEW p \in (a + 1)..(b - 1)
    PROVE  p \in Packets /\ a < p /\ p < b
BY SourceConstants DEF Packets

LEMMA PlayedIs ==
    ASSUME SourceAssumption, NEW x \in SessionType, NEW s \in Seq(Packets)
    PROVE  /\ Untouched(x, Played(x, s)) /\ Played(x, s).ring = x.ring
           /\ Played(x, s).last = IF s = << >> THEN x.last ELSE s[Len(s)]
           /\ ~x.replayed /\ Ascending(s) /\ (x.last # None => \A k \in 1..Len(s) : x.last < s[k])
                  => ~Played(x, s).replayed
           /\ x.replayed => Played(x, s).replayed
           /\ ~x.skipped /\ Played(x, s).skipped
                  => \E p \in Packets : x.since < p /\ PassesOver(x, s, p)
<1> DEFINE all == IF x.last = None THEN s ELSE <<x.last>> \o s
           n   == Len(all)
           l   == IF n = 0 THEN None ELSE all[n]
           a   == x.replayed \/ \E k \in 1..(n - 1) : all[k + 1] <= all[k]
           g   == x.skipped \/ \E k \in 1..(n - 1) :
                                   \E p \in (all[k] + 1)..(all[k + 1] - 1) : p > x.since
<1>1. Played(x, s) = [x EXCEPT !.last = l, !.replayed = a, !.skipped = g]
  BY DEF Played
<1>2. /\ Len(s) \in Nat /\ \A k \in 1..Len(s) : s[k] \in Packets
      /\ Packets \subseteq Nat /\ x.last \in Packets \cup {None}
      /\ s # << >> => 1 \in 1..Len(s) /\ Len(s) \in 1..Len(s)
      /\ s = << >> => Len(s) = 0
      /\ x.since \in Int
      /\ x.replayed \in BOOLEAN /\ x.skipped \in BOOLEAN
  <2>1. Packets \subseteq Nat /\ x.last \in Packets \cup {None} /\ x.since \in Int
        /\ x.replayed \in BOOLEAN /\ x.skipped \in BOOLEAN
    BY SourceConstants DEF SessionType
  <2> QED
    BY <2>1
<1>3. x.last = None => all = s
  OBVIOUS
<1>4. x.last # None => /\ n = Len(s) + 1 /\ all[1] = x.last
                       /\ \A k \in 1..Len(s) : all[k + 1] = s[k]
  <2> SUFFICES ASSUME x.last # None
               PROVE  /\ n = Len(s) + 1 /\ all[1] = x.last
                      /\ \A k \in 1..Len(s) : all[k + 1] = s[k]
    OBVIOUS
  <2> DEFINE one == <<x.last>>
  <2>1. one \in Seq(Packets) /\ Len(one) = 1 /\ one[1] = x.last
    BY <1>2
  <2>2. all = one \o s
    OBVIOUS
  <2> HIDE DEF one, all
  <2>3. /\ Len(one \o s) = Len(one) + Len(s)
        /\ \A k \in 1..Len(one) : (one \o s)[k] = one[k]
        /\ \A k \in 1..Len(s) : (one \o s)[Len(one) + k] = s[k]
    <3>1. one \in Seq(Packets)
      BY <2>1
    <3>2. Len(one \o s) = Len(one) + Len(s)
      BY ONLY <3>1, s \in Seq(Packets), Concat
    <3>3. \A k \in 1..Len(one) : (one \o s)[k] = one[k]
      BY ONLY <3>1, s \in Seq(Packets), Concat
    <3>4. \A k \in 1..Len(s) : (one \o s)[Len(one) + k] = s[k]
      BY ONLY <3>1, s \in Seq(Packets), Concat
    <3> QED
      BY <3>2, <3>3, <3>4
  <2>5. 1 \in 1..Len(one)
    BY <2>1
  <2>4. \A k \in 1..Len(s) : 1 + k = k + 1
    BY <1>2
  <2> QED
    BY <1>2, <2>1, <2>2, <2>3, <2>4, <2>5
<1> HIDE DEF all
<1>5. l = IF s = << >> THEN x.last ELSE s[Len(s)]
  <2>1. CASE x.last = None
    BY <1>2, <1>3, <2>1
  <2>2. CASE x.last # None
    BY <1>2, <1>4, <2>2
  <2> QED
    BY <2>1, <2>2
\* Two neighbours of all are two of s, or the last one before and the first of s.
<1>6. ASSUME NEW k \in 1..(n - 1)
      PROVE  \/ x.last # None /\ s # << >> /\ all[k] = x.last /\ all[k + 1] = s[1]
             \/ \E j \in 1..(Len(s) - 1) : all[k] = s[j] /\ all[k + 1] = s[j + 1]
  <2>1. CASE x.last = None
    BY <1>2, <1>3, <2>1
  <2>2. CASE x.last # None /\ k = 1
    <3>1. n = Len(s) + 1 /\ 1 <= n - 1
      BY <1>2, <1>4, <2>2
    <3>2. s # << >> /\ 1 \in 1..Len(s)
      BY <1>2, <3>1
    <3> QED
      BY <1>4, <2>2, <3>2
  <2>3. CASE x.last # None /\ k # 1
    <3> DEFINE j == k - 1
    <3>1. n = Len(s) + 1 /\ j \in 1..(Len(s) - 1) /\ j \in 1..Len(s) /\ j + 1 \in 1..Len(s)
          /\ j + 1 = k
      BY <1>2, <1>4, <2>3
    <3> HIDE DEF j
    <3> QED
      BY <1>4, <2>3, <3>1
  <2> QED
    BY <2>1, <2>2, <2>3
<1> HIDE DEF l
<1>7. ASSUME ~x.replayed, Ascending(s),
             x.last # None => (\A k \in 1..Len(s) : x.last < s[k])
      PROVE  ~a
  <2> SUFFICES ASSUME NEW k \in 1..(n - 1), all[k + 1] <= all[k] PROVE FALSE
    BY <1>7
  <2>1. CASE x.last # None /\ s # << >> /\ all[k] = x.last /\ all[k + 1] = s[1]
    <3>1. x.last < s[1] /\ x.last \in Nat /\ s[1] \in Nat
      BY <1>2, <1>7, <2>1
    <3> QED
      BY <2>1, <3>1
  <2>2. CASE \E j \in 1..(Len(s) - 1) : all[k] = s[j] /\ all[k + 1] = s[j + 1]
    <3>1. PICK j \in 1..(Len(s) - 1) : all[k] = s[j] /\ all[k + 1] = s[j + 1]
      BY <2>2
    <3>2. j \in 1..Len(s) /\ j + 1 \in 1..Len(s) /\ j < j + 1
      BY <1>2
    <3>3. s[j] < s[j + 1] /\ s[j] \in Nat /\ s[j + 1] \in Nat
      BY <1>2, <1>7, <3>2 DEF Ascending
    <3> QED
      BY <3>1, <3>3
  <2> QED
    BY <1>6, <2>1, <2>2
<1>8. ASSUME ~x.skipped, g PROVE \E p \in Packets : x.since < p /\ PassesOver(x, s, p)
  <2>1. PICK k \in 1..(n - 1) : \E p \in (all[k] + 1)..(all[k + 1] - 1) : p > x.since
    BY <1>8
  <2>6. PICK p \in (all[k] + 1)..(all[k + 1] - 1) : p > x.since
    BY <2>1
  <2>4. CASE x.last # None /\ s # << >> /\ all[k] = x.last /\ all[k + 1] = s[1]
    <3>1. x.last \in Packets /\ s[1] \in Packets
      BY <1>2, <2>4
    <3>2. p \in Packets /\ x.last < p /\ p < s[1] /\ x.since < p
      BY <1>2, <2>4, <2>6, <3>1, BetweenPackets
    <3> QED
      BY <2>4, <3>2 DEF PassesOver
  <2>5. CASE \E j \in 1..(Len(s) - 1) : all[k] = s[j] /\ all[k + 1] = s[j + 1]
    <3>1. PICK j \in 1..(Len(s) - 1) : all[k] = s[j] /\ all[k + 1] = s[j + 1]
      BY <2>5
    <3>2. j \in 1..Len(s) /\ j + 1 \in 1..Len(s)
      BY <1>2
    <3>3. s[j] \in Packets /\ s[j + 1] \in Packets
      BY <1>2, <3>2
    <3>4. p \in Packets /\ s[j] < p /\ p < s[j + 1] /\ x.since < p
      BY <1>2, <2>6, <3>1, <3>3, BetweenPackets
    <3> QED
      BY <3>1, <3>4 DEF PassesOver
  <2> QED
    BY <1>6, <2>4, <2>5
<1>9. x.replayed => a
  OBVIOUS
<1> HIDE DEF a, g
<1>10. /\ Untouched(x, Played(x, s)) /\ Played(x, s).ring = x.ring /\ Played(x, s).last = l
       /\ Played(x, s).replayed = a /\ Played(x, s).skipped = g
  BY <1>1 DEF Untouched, SessionType
<1> QED
  BY <1>5, <1>7, <1>8, <1>9, <1>10

\* The client got no packet twice or late, and what it got precedes b, where the
\* window of its ring begins.
Ordered(x, b) ==
    ~x.replayed /\ (x.last # None => x.last < b /\ x.ring.phase = 2 /\ ~x.snapshot)

\* Of what was sent since it joined, nothing was passed over, and what is to come
\* from b on is in the ring or one of W.
Whole(x, b, W) ==
    /\ ~x.skipped
    /\ \A p \in Packets :
          x.since < p /\ (x.ring.phase = 2 => b <= p) => p \in Buffered(x.ring) \cup W
    /\ x.last # None => \A p \in Packets : x.since < p /\ x.last < p => b <= p

\* Those of W are not so old that packet i pushes them out of the window.
InReach(i, W) == \A p \in Packets : p \in W => i < p + Window

\* One packet through a viewer's ring to its client.
LEMMA FeedOneFlows ==
    ASSUME SourceAssumption, NEW x \in SessionType, NEW t \in SentFirst..SentLast,
           NEW b \in Nat, RingFrom(x.ring, b, t), Ordered(x, b), NEW i \in SentFirst..t,
           x.ring.phase = 1 => \A k \in Buffered(x.ring) : -Window < i - k /\ i - k < Window
    PROVE  \E c \in Nat :
              /\ RingFrom(FeedOne(x, i).ring, c, t) /\ Ordered(FeedOne(x, i), c)
              /\ \A W : InReach(i, W) /\ Whole(x, b, W \cup {i}) => Whole(FeedOne(x, i), c, W)
<1> DEFINE r == x.ring
           q == InsertPacket(r, i)
           d == q.out
           y == [x EXCEPT !.ring = Emptied(q)]
           z == FeedOne(x, i)
<1>1. z = IF x.snapshot THEN y ELSE Played(y, d)
  BY DEF FeedOne, Emptied
<1>2. /\ i \in Packets /\ i \in Nat /\ Packets \subseteq Nat
      /\ r \in Drained /\ r \in RingType(Packets) /\ r.phase \in 0..2
      /\ x.last \in Packets \cup {None} /\ x.since \in Int /\ x.snapshot \in BOOLEAN
      /\ None \notin Packets
  <2>1. i \in Packets /\ Packets \subseteq Nat /\ None \notin Packets
    BY SourceConstants DEF Packets
  <2>2. /\ r \in Drained /\ x.last \in Packets \cup {None} /\ x.since \in Int
        /\ x.snapshot \in BOOLEAN
    BY DEF SessionType
  <2>3. r \in RingType(Packets) /\ r.phase \in 0..2
    BY <2>2 DEF Drained, RingType
  <2> QED
    BY <2>1, <2>2, <2>3
<1>3. PICK c \in Nat : RingFrom(Emptied(q), c, t) /\ Moved(r, b, i, q, c)
  BY <1>2, InsertMoves
<1>4. q \in RingType(Packets)
  BY <1>2, InsertTyped DEF Drained
<1> HIDE DEF q
<1>5. /\ Emptied(q) \in Drained /\ Emptied(q).phase = q.phase /\ Buffered(Emptied(q)) = Buffered(q)
      /\ d \in Seq(Packets) /\ Len(d) \in Nat
      /\ \A k \in 1..Len(d) : d[k] \in Packets /\ d[k] \in Nat
  <2>1. Emptied(q) \in Drained /\ Emptied(q).phase = q.phase /\ Buffered(Emptied(q)) = Buffered(q)
    BY <1>2, <1>4, EmptiedIs DEF Drained
  <2>2. d \in Seq(Packets)
    BY <1>4 DEF RingType
  <2> HIDE DEF d
  <2>3. Len(d) \in Nat /\ \A k \in 1..Len(d) : d[k] \in Packets
    BY ONLY <2>2
  <2>4. \A k \in 1..Len(d) : d[k] \in Nat
    BY ONLY <1>2, <2>3
  <2> QED
    BY ONLY <2>1, <2>2, <2>3, <2>4
<1>6. /\ q.phase \in {1, 2}
      /\ q.phase = 1 => r.phase # 2 /\ d = << >>
      /\ Ascending(d) /\ \A k \in 1..Len(d) : d[k] < c
      /\ r.phase = 2 => b <= c /\ \A k \in 1..Len(d) : b <= d[k]
      /\ \A j \in Buffered(r) : j \in Buffered(q) \/ In(d, j)
      /\ (r.phase = 2 => b <= i) => i \in Buffered(q) \/ In(d, i)
      /\ \A p \in Nat :
            /\ p < c
            /\ r.phase = 2 => b <= p /\ i < p + Window
            /\ r.phase # 2 => \E k \in 1..Len(d) : d[k] <= p
            => In(d, p)
  BY <1>3 DEF Moved
<1>7. ASSUME NEW j \in Buffered(q) PROVE c <= j
  <2>1. PICK n \in Nat \cup {None} : Aligned(Emptied(q), c, n)
    BY <1>3 DEF RingFrom
  <2> QED
    BY <1>5, <1>7, <2>1, StoredPlace
<1> HIDE DEF d
<1>8. /\ y \in SessionType /\ y.ring = Emptied(q) /\ y.last = x.last /\ y.since = x.since
      /\ y.replayed = x.replayed /\ y.skipped = x.skipped /\ y.snapshot = x.snapshot
  BY <1>5 DEF SessionType
<1> HIDE DEF y
<1>9. /\ ~x.replayed
      /\ x.last # None => x.last < b /\ r.phase = 2 /\ ~x.snapshot
  BY DEF Ordered
<1>10. /\ z.ring = Emptied(q) /\ z.since = x.since
       /\ z.last = IF x.snapshot \/ d = << >> THEN x.last ELSE d[Len(d)]
       /\ z.snapshot = x.snapshot
       /\ ~x.skipped /\ z.skipped => ~x.snapshot /\
             \E p \in Packets : x.since < p /\ PassesOver(x, d, p)
  <2>1. CASE x.snapshot
    BY <1>1, <1>8, <2>1
  <2>2. CASE ~x.snapshot
    <3>1. z = Played(y, d)
      BY <1>1, <2>2
    <3>2. /\ Untouched(y, Played(y, d)) /\ Played(y, d).ring = y.ring
          /\ Played(y, d).last = IF d = << >> THEN y.last ELSE d[Len(d)]
          /\ ~y.skipped /\ Played(y, d).skipped
                  => \E p \in Packets : y.since < p /\ PassesOver(y, d, p)
      BY <1>5, <1>8, PlayedIs
    <3>3. \A p : PassesOver(y, d, p) <=> PassesOver(x, d, p)
      BY <1>8 DEF PassesOver
    <3> HIDE DEF z
    <3> QED
      BY <1>8, <2>2, <3>1, <3>2, <3>3 DEF Untouched
  <2> QED
    BY <1>2, <2>1, <2>2
<1>11. ~z.replayed
  <2>1. CASE x.snapshot
    BY <1>1, <1>8, <1>9, <2>1
  <2>2. CASE ~x.snapshot
    <3>1. ASSUME y.last # None, NEW k \in 1..Len(d) PROVE y.last < d[k]
      <4>1. x.last \in Nat /\ x.last < b /\ r.phase = 2
        BY <1>2, <1>8, <1>9, <3>1
      <4>2. b <= d[k] /\ d[k] \in Nat
        BY <1>5, <1>6, <4>1
      <4> QED
        BY <1>8, <4>1, <4>2
    <3>2. ~Played(y, d).replayed
      BY <1>5, <1>6, <1>8, <1>9, <3>1, PlayedIs
    <3> QED
      BY <1>1, <2>2, <3>2
  <2> QED
    BY <1>2, <2>1, <2>2
<1> HIDE DEF z
<1>12. Ordered(z, c)
  <2>1. ASSUME z.last # None PROVE z.last < c /\ z.ring.phase = 2 /\ ~z.snapshot
    <3>1. CASE x.snapshot \/ d = << >>
      <4>1. z.last = x.last /\ x.last \in Nat /\ x.last < b /\ r.phase = 2 /\ ~x.snapshot
        <5>1. z.last = x.last
          BY ONLY <1>10, <3>1
        <5> QED
          BY ONLY <1>2, <1>9, <2>1, <5>1
      <4> QED
        BY ONLY <1>5, <1>6, <1>10, <4>1
    <3>2. CASE ~(x.snapshot \/ d = << >>)
      <4>1. z.last = d[Len(d)] /\ Len(d) \in 1..Len(d)
        BY <1>5, <1>10, <3>2
      <4>2. q.phase = 2
        BY <1>6, <3>2
      <4>3. z.ring.phase = 2
        BY <1>5, <1>10, <4>2
      <4>4. d[Len(d)] < c
        BY <1>6, <4>1
      <4> QED
        BY <1>10, <3>2, <4>1, <4>3, <4>4
    <3> QED
      BY <3>1, <3>2
  <2> QED
    BY <1>11, <2>1 DEF Ordered
<1>13. ASSUME NEW W, InReach(i, W), Whole(x, b, W \cup {i}) PROVE Whole(z, c, W)
  <2>1. /\ ~x.skipped
        /\ \A p \in Packets : x.since < p /\ (r.phase = 2 => b <= p)
                                 => p \in Buffered(r) \/ p \in W \/ p = i
        /\ x.last # None => \A p \in Packets : x.since < p /\ x.last < p => b <= p
    BY <1>13 DEF Whole
\* What is passed was delivered.
  <2>2. ASSUME NEW p \in Packets, x.since < p, p < c, r.phase = 2 => b <= p,
               r.phase # 2 => \E k \in 1..Len(d) : d[k] <= p
        PROVE  In(d, p)
    <3>1. p \in Nat
      BY <1>2
    <3>2. CASE r.phase # 2
      BY <1>6, <2>2, <3>1, <3>2
    <3>3. CASE r.phase = 2 /\ p \in W
      <4>1. i < p + Window
        BY <1>13, <3>3 DEF InReach
      <4> QED
        BY <1>6, <2>2, <3>1, <3>3, <4>1
    <3>4. CASE r.phase = 2 /\ (p \in Buffered(r) \/ p = i)
      <4>1. p \in Buffered(q) \/ In(d, p)
        BY <1>6, <2>2, <3>4
      <4>2. p \notin Buffered(q)
        BY <1>7, <2>2, <3>1
      <4> QED
        BY <4>1, <4>2
    <3> QED
      BY <2>1, <2>2, <3>2, <3>3, <3>4
  <2>3. ASSUME z.skipped PROVE FALSE
    <3>1. PICK p \in Packets : x.since < p /\ PassesOver(x, d, p)
      BY <1>10, <2>1, <2>3
    <3>2. p \in Nat
      BY <1>2
    <3>3. CASE \E k \in 1..(Len(d) - 1) : d[k] < p /\ p < d[k + 1]
      <4>1. PICK k \in 1..(Len(d) - 1) : d[k] < p /\ p < d[k + 1]
        BY <3>3
      <4>2. /\ k \in 1..Len(d) /\ k + 1 \in 1..Len(d) /\ d[k] \in Nat /\ d[k + 1] \in Nat
            /\ d[k] <= p
        <5>1. k \in 1..Len(d) /\ k + 1 \in 1..Len(d)
          BY ONLY <1>5, k \in 1..(Len(d) - 1)
        <5>2. d[k] \in Nat /\ d[k + 1] \in Nat
          BY <1>5, <5>1
        <5> QED
          BY <3>2, <4>1, <5>1, <5>2
      <4>3. p < c /\ (r.phase = 2 => b <= p)
        <5>1. d[k + 1] < c
          BY <1>6, <4>2
        <5>2. r.phase = 2 => b <= d[k]
          BY <1>6, <4>2
        <5> QED
          BY ONLY <3>2, <4>1, <4>2, <5>1, <5>2, b \in Nat, c \in Nat
      <4>4. PICK j \in 1..Len(d) : d[j] = p
        BY <2>2, <3>1, <4>2, <4>3 DEF In
      <4>5. \/ j <= k
            \/ k + 1 <= j
        BY <1>5, <4>2
      <4>6. \A m, l \in 1..Len(d) : m <= l => d[m] <= d[l]
        <5>1. \A m, l \in 1..Len(d) : m < l => d[m] < d[l]
          BY <1>6 DEF Ascending
        <5> QED
          BY <1>5, <5>1
      <4>7. j <= k => d[j] <= d[k]
        BY <4>2, <4>6
      <4>8. k + 1 <= j => d[k + 1] <= d[j]
        BY <4>2, <4>6
      <4> QED
        BY <3>2, <4>1, <4>2, <4>4, <4>5, <4>7, <4>8
    <3>4. CASE x.last # None /\ d # << >> /\ x.last < p /\ p < d[1]
      <4>1. r.phase = 2 /\ b <= p
        BY <1>9, <2>1, <3>1, <3>4
      <4>2. 1 \in 1..Len(d) /\ d[1] \in Nat /\ d[1] < c
        BY <1>5, <1>6, <3>4
      <4>3. p < c
        BY <3>2, <3>4, <4>2
      <4>4. PICK j \in 1..Len(d) : d[j] = p
        BY <2>2, <3>1, <4>1, <4>3 DEF In
      <4>5. j = 1 \/ d[1] < d[j]
        BY <1>6, <4>2, <4>4 DEF Ascending
      <4> QED
        BY <3>2, <3>4, <4>2, <4>4, <4>5
    <3> QED
      BY <3>1, <3>3, <3>4 DEF PassesOver
  <2>4. ASSUME NEW p \in Packets, x.since < p, z.ring.phase = 2 => c <= p
        PROVE  p \in Buffered(z.ring) \cup W
    <3>1. p \in Nat /\ Buffered(z.ring) = Buffered(q) /\ z.ring.phase = q.phase
      BY <1>2, <1>5, <1>10
    <3>2. r.phase = 2 => b <= p
      <4>1. r.phase = 2 => q.phase = 2 /\ b <= c
        BY <1>6
      <4> QED
        BY <2>4, <3>1, <4>1
    <3>3. ~In(d, p)
      <4>1. q.phase = 1 => Len(d) = 0
        BY <1>6
      <4>2. q.phase = 2 => \A k \in 1..Len(d) : d[k] # p
        <5>1. q.phase = 2 => c <= p
          BY <2>4, <3>1
        <5>2. \A k \in 1..Len(d) : d[k] < c /\ d[k] \in Nat
          BY <1>5, <1>6
        <5> QED
          BY ONLY <3>1, <5>1, <5>2, c \in Nat
      <4>3. q.phase = 1 \/ q.phase = 2
        BY <1>6
      <4>4. \A k \in 1..Len(d) : d[k] # p
        BY ONLY <4>1, <4>2, <4>3
      <4> QED
        BY ONLY <4>4 DEF In
    <3>4. p \in Buffered(r) \/ p \in W \/ p = i
      BY <2>1, <2>4, <3>2
    <3>5. p \in Buffered(r) => p \in Buffered(q)
      BY <1>6, <3>3
    <3>6. p = i => p \in Buffered(q)
      BY <1>6, <3>2, <3>3
    <3> QED
      BY <3>1, <3>4, <3>5, <3>6
  <2>5. ASSUME z.last # None, NEW p \in Packets, x.since < p, z.last < p, ~(c <= p) PROVE FALSE
    <3>1. p \in Nat /\ p < c
      BY <1>2, <2>5
    <3>2. CASE x.snapshot \/ d = << >>
      <4>1. z.last = x.last
        BY <1>10, <3>2
      <4>2. r.phase = 2 /\ b <= p /\ d = << >>
        BY <1>9, <2>1, <2>5, <3>2, <4>1
      <4>3. In(d, p)
        BY <2>2, <2>5, <3>1, <4>2
      <4>4. Len(d) = 0
        BY <4>2
      <4> QED
        BY <4>3, <4>4 DEF In
    <3>3. CASE ~(x.snapshot \/ d = << >>)
      <4> DEFINE e == Len(d)
      <4>1. z.last = d[e] /\ e \in 1..Len(d) /\ d[e] \in Nat
        BY <1>5, <1>10, <3>3
      <4>2. r.phase = 2 => b <= p
        <5>1. r.phase = 2 => b <= d[e]
          BY <1>6, <4>1
        <5> QED
          BY <2>5, <3>1, <4>1, <5>1
      <4>3. d[e] <= p
        BY ONLY <2>5, <3>1, <4>1
      <4>4. PICK j \in 1..Len(d) : d[j] = p
        BY <2>2, <2>5, <3>1, <4>1, <4>2, <4>3 DEF In
      <4>5. j = e \/ d[j] < d[e]
        BY <1>5, <1>6, <4>1, <4>4 DEF Ascending
      <4> QED
        BY <2>5, <3>1, <4>1, <4>4, <4>5
    <3> QED
      BY <3>2, <3>3
  <2> QED
    BY <1>10, <2>3, <2>4, <2>5 DEF Whole
<1> QED
  BY <1>3, <1>10, <1>12, <1>13 DEF z

LEMMA EntriesOf ==
    ASSUME NEW T, NEW s \in Seq(T)
    PROVE  Len(s) \in Nat /\ DOMAIN s = 1..Len(s) /\ \A k \in 1..Len(s) : s[k] \in T
OBVIOUS

LEMMA SeqOf ==
    ASSUME NEW S, NEW T, NEW s \in Seq(T), \A k \in 1..Len(s) : s[k] \in S
    PROVE  s \in Seq(S)
<1> DEFINE n == Len(s)
<1>1. n \in Nat /\ DOMAIN s = 1..n /\ s = [k \in 1..n |-> s[k]] /\ \A k \in 1..n : s[k] \in S
  OBVIOUS
<1> HIDE DEF n
<1> QED
  BY ONLY <1>1

LEMMA FeedOneIs ==
    ASSUME SourceAssumption, NEW x \in SessionType, NEW i \in Packets
    PROVE  /\ Untouched(x, FeedOne(x, i))
           /\ Buffered(FeedOne(x, i).ring) \subseteq Buffered(x.ring) \cup {i}
<1> DEFINE r == x.ring
           q == InsertPacket(r, i)
           y == [x EXCEPT !.ring = Emptied(q)]
           z == FeedOne(x, i)
           P == Buffered(r) \cup {i}
<1>1. z = IF x.snapshot THEN y ELSE Played(y, q.out)
  BY DEF FeedOne, Emptied
<1>2. Packets \subseteq Nat /\ r \in RingType(Packets) /\ r.out = << >>
  BY SourceConstants DEF SessionType, Drained
<1>3. q \in RingType(Packets)
  BY <1>2, InsertTyped
<1>4. P \subseteq Nat
  <2>1. r.slots \in [0..(Window - 1) -> Packets \cup {None}]
    BY <1>2 DEF RingType
  <2> HIDE DEF r
  <2> QED
    BY <1>2, <2>1 DEF Buffered
<1>5. q \in RingType(P)
  <2>1. r \in RingType(P)
    <3>1. \A s \in 0..(Window - 1) : r.slots[s] \in P \cup {None}
      BY DEF Buffered
    <3>2. r.out \in Seq(P)
      BY <1>2
    <3> HIDE DEF P, r
    <3> QED
      BY <1>2, <3>1, <3>2 DEF RingType
  <2> QED
    BY <1>2, <1>4, <2>1, InsertTyped
<1> HIDE DEF q, r
<1>6. Buffered(q) \subseteq P
  <2>1. q.slots \in [0..(Window - 1) -> P \cup {None}]
    BY <1>5 DEF RingType
  <2> HIDE DEF P
  <2> QED
    BY <2>1 DEF Buffered
<1> HIDE DEF P
<1>7. Emptied(q) \in Drained /\ Buffered(Emptied(q)) = Buffered(q)
  BY <1>2, <1>3, EmptiedIs DEF Drained
<1>8. q.out \in Seq(Packets)
  BY <1>3 DEF RingType
<1>9. y \in SessionType /\ y.ring = Emptied(q) /\ Untouched(x, y)
  BY <1>7 DEF SessionType, Untouched
<1> HIDE DEF y
<1>10. Untouched(y, Played(y, q.out)) /\ Played(y, q.out).ring = y.ring
  BY <1>8, <1>9, PlayedIs
<1>11. Untouched(x, z) /\ z.ring = y.ring
  <2> HIDE DEF z
  <2> QED
    BY <1>1, <1>9, <1>10 DEF Untouched
<1> HIDE DEF z
<1> QED
  BY <1>6, <1>7, <1>9, <1>11 DEF P, r, z

LEMMA FeedOneActive ==
    ASSUME SourceAssumption, NEW x \in SessionType, NEW t \in SentFirst..SentLast, NEW b \in Nat,
           RingFrom(x.ring, b, t), NEW i \in SentFirst..t, x.ring.phase = 2
    PROVE  FeedOne(x, i).ring.phase = 2
<1> DEFINE q == InsertPacket(x.ring, i)
           y == [x EXCEPT !.ring = Emptied(q)]
<1>1. FeedOne(x, i) = IF x.snapshot THEN y ELSE Played(y, q.out)
  BY DEF FeedOne, Emptied
<1>2. i \in Packets /\ Packets \subseteq Nat /\ x.ring \in Drained /\ x.ring \in RingType(Packets)
  BY SourceConstants DEF Packets, SessionType, Drained
<1>3. q.phase = 2
  <2>1. \E c \in Nat : Moved(x.ring, b, i, q, c)
    BY <1>2, InsertMoves
  <2> HIDE DEF q
  <2> QED
    BY <2>1 DEF Moved
<1>4. q \in RingType(Packets)
  BY <1>2, InsertTyped DEF Drained
<1> HIDE DEF q
<1>5. Emptied(q) \in Drained /\ Emptied(q).phase = 2
  BY <1>2, <1>3, <1>4, EmptiedIs DEF Drained
<1>6. q.out \in Seq(Packets)
  BY <1>4 DEF RingType
<1>7. y \in SessionType /\ y.ring = Emptied(q)
  BY <1>5 DEF SessionType
<1> HIDE DEF y
<1>8. Played(y, q.out).ring = y.ring
  BY <1>6, <1>7, PlayedIs
<1> QED
  BY <1>1, <1>5, <1>7, <1>8

\* Any two of S fit into one window.
Together(S) == \A j, k \in S : j < k + Window

\* The packets of s come in an order in which none of them, and none of W, is
\* pushed out by one before it.
InOrderOf(s, W) ==
    /\ \A k \in 1..Len(s) : InReach(s[k], W)
    /\ \A k, l \in 1..Len(s) : k < l => s[k] < s[l] + Window

\* The packets s through a viewer's ring, one after the other.
LEMMA FeedFlows ==
    ASSUME SourceAssumption, NEW x \in SessionType, NEW t \in SentFirst..SentLast,
           NEW b \in Nat, RingFrom(x.ring, b, t), Ordered(x, b), NEW s \in Seq(SentFirst..t),
           x.ring.phase # 2 => Together(Buffered(x.ring) \cup Range(s)), NEW W
    PROVE  /\ Untouched(x, Feed(x, s))
           /\ Buffered(Feed(x, s).ring) \subseteq Buffered(x.ring) \cup Range(s)
           /\ x.ring.phase = 2 => Feed(x, s).ring.phase = 2
           /\ \E c \in Nat :
                 /\ RingFrom(Feed(x, s).ring, c, t) /\ Ordered(Feed(x, s), c)
                 /\ InOrderOf(s, W) /\ Whole(x, b, W \cup Range(s)) => Whole(Feed(x, s), c, W)
<1> DEFINE n == Len(s)
           Rest(k) == {s[l] : l \in (k + 1)..n}
           Front(k) == {s[l] : l \in 1..k}
<1>0. /\ n \in Nat /\ \A k \in 1..n : s[k] \in SentFirst..t /\ s[k] \in Packets /\ s[k] \in Nat
      /\ s \in Seq(Packets) /\ Range(s) = {s[k] : k \in 1..n}
      /\ SentFirst \in Nat /\ t \in Nat
  <2>1. SentFirst \in Nat /\ SentLast \in Nat /\ Packets = SentFirst..SentLast /\ t \in Nat
    BY SourceConstants DEF Packets
  <2>2. SentFirst..t \subseteq Packets /\ SentFirst..t \subseteq Nat
    BY <2>1
  <2>3. n \in Nat /\ DOMAIN s = 1..n /\ \A k \in 1..n : s[k] \in SentFirst..t
    BY EntriesOf
  <2>4. s \in Seq(Packets)
    BY <2>2, <2>3, SeqOf
  <2>5. Range(s) = {s[k] : k \in 1..n}
    BY <2>3 DEF Range
  <2> HIDE DEF n
  <2>6. \A k \in 1..n : s[k] \in Packets /\ s[k] \in Nat
    BY <2>2, <2>3
  <2> QED
    BY <2>1, <2>3, <2>4, <2>5, <2>6
<1>1. PICK g : Fed(g, x, s)
  BY <1>0, FeedIs
<1>2. /\ g[0] = x /\ Feed(x, s) = g[n]
      /\ \A k \in 1..n : g[k] = FeedOne(g[k - 1], s[k])
      /\ \A k \in 0..n : g[k] \in SessionType
  BY <1>1 DEF Fed
<1> HIDE DEF n
<1> DEFINE Reached(k, c) ==
               /\ RingFrom(g[k].ring, c, t) /\ Ordered(g[k], c)
               /\ InOrderOf(s, W) /\ Whole(x, b, W \cup Range(s)) => Whole(g[k], c, W \cup Rest(k))
           Good(k) ==
               /\ Untouched(x, g[k]) /\ Buffered(g[k].ring) \subseteq Buffered(x.ring) \cup Front(k)
               /\ x.ring.phase = 2 => g[k].ring.phase = 2
               /\ \E c \in Nat : Reached(k, c)
<1>3. Good(0)
  <2>1. Rest(0) = Range(s)
    BY <1>0
  <2>2. Reached(0, b)
    BY <1>2, <2>1
  <2> QED
    BY <1>2, <2>2 DEF Untouched
<1>4. ASSUME NEW k \in 1..n, Good(k - 1) PROVE Good(k)
  <2> DEFINE y == g[k - 1]
             z == g[k]
             i == s[k]
  <2>1. /\ y \in SessionType /\ z = FeedOne(y, i) /\ i \in SentFirst..t /\ i \in Packets /\ i \in Nat
    <3>1. k - 1 \in 0..n
      BY <1>0
    <3> QED
      BY <1>0, <1>2, <3>1
  <2>2. PICK c \in Nat : Reached(k - 1, c)
    BY <1>4
  <2>3. /\ Untouched(x, y) /\ Buffered(y.ring) \subseteq Buffered(x.ring) \cup Front(k - 1)
        /\ x.ring.phase = 2 => y.ring.phase = 2
    BY <1>4
  <2>4. RingFrom(y.ring, c, t) /\ Ordered(y, c)
    BY <2>2
  <2>5. InOrderOf(s, W) /\ Whole(x, b, W \cup Range(s)) => Whole(y, c, W \cup Rest(k - 1))
    BY <2>2
  <2>6. Front(k) = Front(k - 1) \cup {i} /\ Rest(k - 1) = Rest(k) \cup {i} /\ Front(k) \subseteq Range(s)
    <3>1. \A l : l \in 1..k <=> l \in 1..(k - 1) \/ l = k
      BY <1>0
    <3>2. \A l : l \in (k - 1 + 1)..n <=> l \in (k + 1)..n \/ l = k
      BY <1>0
    <3>3. \A l \in 1..k : l \in 1..n
      BY <1>0
    <3> QED
      BY <1>0, <3>1, <3>2, <3>3
  <2> HIDE DEF Front, Good, Reached
  <2>7. ASSUME y.ring.phase = 1, NEW j \in Buffered(y.ring) PROVE -Window < i - j /\ i - j < Window
    <3>1. x.ring.phase # 2
      BY <2>3, <2>7
    <3>2. j \in Buffered(x.ring) \cup Range(s) /\ i \in Buffered(x.ring) \cup Range(s)
      BY <2>3, <2>6, <2>7
    <3>3. j < i + Window /\ i < j + Window
      BY <3>1, <3>2 DEF Together
    <3>4. j \in Nat
      BY <2>4, StoredPlace DEF RingFrom
    <3> QED
      BY <2>1, <3>3, <3>4
  <2>8. PICK d \in Nat :
            /\ RingFrom(z.ring, d, t) /\ Ordered(z, d)
            /\ \A V : InReach(i, V) /\ Whole(y, c, V \cup {i}) => Whole(z, d, V)
    <3> HIDE DEF y, i, z
    <3> QED
      BY <2>1, <2>4, <2>7, FeedOneFlows
  <2>9. Untouched(y, z) /\ Buffered(z.ring) \subseteq Buffered(y.ring) \cup {i}
    <3> HIDE DEF y, i, z
    <3> QED
      BY <2>1, FeedOneIs
  <2>10. y.ring.phase = 2 => z.ring.phase = 2
    <3> HIDE DEF y, i, z
    <3> QED
      BY <2>1, <2>4, FeedOneActive
  <2>11. ASSUME InOrderOf(s, W), Whole(x, b, W \cup Range(s)) PROVE Whole(z, d, W \cup Rest(k))
    <3>1. Whole(y, c, (W \cup Rest(k)) \cup {i})
      <4>1. (W \cup Rest(k)) \cup {i} = W \cup Rest(k - 1)
        BY <2>6
      <4> QED
        BY <2>5, <2>11, <4>1
    <3>2. InReach(i, W \cup Rest(k))
      <4>1. ASSUME NEW p \in Packets, p \in W \cup Rest(k) PROVE i < p + Window
        <5>1. CASE p \in W
          BY <2>11, <5>1 DEF InOrderOf, InReach, n
        <5>2. CASE p \in Rest(k)
          <6>1. PICK l \in (k + 1)..n : p = s[l]
            BY <5>2
          <6>2. l \in 1..n /\ k < l
            BY <1>0
          <6> QED
            BY <2>11, <6>1, <6>2 DEF InOrderOf, n
        <5> QED
          BY <4>1, <5>1, <5>2
      <4> QED
        BY <4>1 DEF InReach
    <3> QED
      BY <2>8, <3>1, <3>2
  <2>12. Reached(k, d)
    BY <2>8, <2>11 DEF Reached
  <2>13. /\ Untouched(x, z) /\ Buffered(z.ring) \subseteq Buffered(x.ring) \cup Front(k)
         /\ x.ring.phase = 2 => z.ring.phase = 2
    BY <2>3, <2>6, <2>9, <2>10 DEF Untouched
  <2> QED
    BY <2>12, <2>13 DEF Good
<1> HIDE DEF Good
<1>5. Good(n)
  <2> DEFINE good == {k \in 0..n : Good(k)}
  <2>1. 0 \in good /\ \A k \in 1..n : k - 1 \in good => k \in good
    BY <1>0, <1>3, <1>4
  <2>2. n \in 0..n
    BY <1>0
  <2> HIDE DEF good
  <2>3. n \in good
    BY <1>0, <2>1, <2>2, StepByStep
  <2> QED
    BY <2>3 DEF good
<1>6. Front(n) = Range(s) /\ Rest(n) = {}
  BY <1>0
<1> HIDE DEF Front, Rest
<1>7. W \cup Rest(n) = W
  BY <1>6
<1> QED
  BY <1>2, <1>5, <1>6, <1>7 DEF Good, Reached

-----------------------------------------------------------------------------
(* What a batch brings, packet by packet.                                  *)

\* Somewhere in a a packet is no newer than the one before it; between two
\* neighbours of a something sent after since is missing.
StepsBack(a) == \E k \in 1..(Len(a) - 1) : a[k + 1] <= a[k]
LeavesOut(a, since) ==
    \E k \in 1..(Len(a) - 1) : \E p \in (a[k] + 1)..(a[k + 1] - 1) : p > since

\* What the client of x got before, and s.
Got(x, s) == IF x.last = None THEN s ELSE <<x.last>> \o s

LEMMA PlayedFields ==
    ASSUME SourceAssumption, NEW x \in SessionType, NEW s \in Seq(Packets)
    PROVE  /\ Got(x, s) \in Seq(Packets)
           /\ Played(x, s).last = IF Len(Got(x, s)) = 0 THEN None ELSE Got(x, s)[Len(Got(x, s))]
           /\ Played(x, s).replayed = (x.replayed \/ StepsBack(Got(x, s)))
           /\ Played(x, s).skipped = (x.skipped \/ LeavesOut(Got(x, s), x.since))
<1> DEFINE all == Got(x, s)
           l == IF Len(all) = 0 THEN None ELSE all[Len(all)]
<1>1. Played(x, s) = [x EXCEPT !.last = l, !.replayed = @ \/ StepsBack(all),
                               !.skipped = @ \/ LeavesOut(all, x.since)]
  BY DEF Played, StepsBack, LeavesOut, Got
<1>2. all \in Seq(Packets)
  <2>1. x.last = None \/ x.last \in Packets
    BY DEF SessionType
  <2> QED
    BY <2>1 DEF Got
<1> HIDE DEF all, l
<1> QED
  BY <1>1, <1>2 DEF SessionType, l, all

\* A session is what its fields say.
LEMMA SameSession ==
    ASSUME NEW x \in SessionType, NEW y \in SessionType, Untouched(x, y), y.ring = x.ring,
           y.last = x.last, y.replayed = x.replayed, y.skipped = x.skipped
    PROVE  x = y
BY DEF SessionType, Untouched

LEMMA PlayedNothing ==
    ASSUME SourceAssumption, NEW x \in SessionType
    PROVE  Played(x, << >>) = x
<1> DEFINE e == << >>
           all == Got(x, e)
<1>1. e \in Seq(Packets)
  OBVIOUS
<1>2. x.last \in Packets \cup {None} /\ x.replayed \in BOOLEAN /\ x.skipped \in BOOLEAN
  BY DEF SessionType
<1>3. \/ x.last = None /\ Len(all) = 0
      \/ x.last # None /\ Len(all) = 1
  <2>1. CASE x.last = None
    BY <2>1 DEF Got
  <2>2. CASE x.last # None
    BY <1>2, <2>2 DEF Got
  <2> QED
    BY <2>1, <2>2
<1>4. ~StepsBack(all) /\ ~LeavesOut(all, x.since)
  <2>1. \A k : k \notin 1..(Len(all) - 1)
    <3>1. Len(all) = 0 \/ Len(all) = 1
      BY <1>3
    <3>2. \A k : k \notin 1..(0 - 1) /\ k \notin 1..(1 - 1)
      OBVIOUS
    <3> QED
      BY ONLY <3>1, <3>2
  <2> HIDE DEF all
  <2> QED
    BY <2>1 DEF StepsBack, LeavesOut
<1> HIDE DEF all, e
<1>5. /\ Untouched(x, Played(x, e)) /\ Played(x, e).ring = x.ring
      /\ Played(x, e).last = IF e = << >> THEN x.last ELSE e[Len(e)]
  BY <1>1, PlayedIs
<1>6. Played(x, e).replayed = (x.replayed \/ StepsBack(all))
      /\ Played(x, e).skipped = (x.skipped \/ LeavesOut(all, x.since))
  BY <1>1, PlayedFields DEF all
<1>7. Played(x, e) \in SessionType
  BY <1>1, PlayedTyped
<1>8. Played(x, e).last = x.last
  BY <1>5 DEF e
<1>9. Played(x, e).replayed = x.replayed /\ Played(x, e).skipped = x.skipped
  BY <1>2, <1>4, <1>6
<1>10. Played(x, e) = x
  BY <1>5, <1>7, <1>8, <1>9, SameSession
<1> QED
  BY <1>10 DEF e

\* What was there before p is added to a, and what p adds.
LEMMA OneMore ==
    ASSUME SourceAssumption, NEW a \in Seq(Packets), NEW p \in Packets, NEW since
    PROVE  /\ StepsBack(Append(a, p)) <=> StepsBack(a) \/ (a # << >> /\ p <= a[Len(a)])
           /\ LeavesOut(Append(a, p), since) <=>
                 \/ LeavesOut(a, since)
                 \/ a # << >> /\ \E q \in (a[Len(a)] + 1)..(p - 1) : q > since
<1> DEFINE b == Append(a, p)
           n == Len(a)
<1>1. n \in Nat /\ Len(b) = n + 1 /\ b[n + 1] = p /\ (\A k \in 1..n : b[k] = a[k])
      /\ (a = << >> <=> n = 0)
  OBVIOUS
<1> HIDE DEF b
<1>2. \A k \in 1..(n - 1) : k \in 1..(Len(b) - 1) /\ b[k] = a[k] /\ b[k + 1] = a[k + 1]
  <2> SUFFICES ASSUME NEW k \in 1..(n - 1)
               PROVE  k \in 1..(Len(b) - 1) /\ b[k] = a[k] /\ b[k + 1] = a[k + 1]
    OBVIOUS
  <2>1. k \in 1..n /\ k + 1 \in 1..n /\ k \in 1..(Len(b) - 1)
    BY <1>1
  <2> QED
    BY <1>1, <2>1
<1>3. a # << >> => n \in 1..(Len(b) - 1) /\ b[n] = a[n] /\ b[n + 1] = p
  BY <1>1
<1>4. \A k \in 1..(Len(b) - 1) : k \in 1..(n - 1) \/ (k = n /\ a # << >>)
  BY <1>1
<1>5. StepsBack(b) <=> StepsBack(a) \/ (a # << >> /\ p <= a[n])
  BY <1>2, <1>3, <1>4 DEF StepsBack
<1>6. LeavesOut(b, since) <=>
         \/ LeavesOut(a, since)
         \/ a # << >> /\ \E q \in (a[n] + 1)..(p - 1) : q > since
  BY <1>2, <1>3, <1>4 DEF LeavesOut
<1> QED
  BY <1>5, <1>6 DEF b, n

LEMMA PlayedMore ==
    ASSUME SourceAssumption, NEW x \in SessionType, NEW s \in Seq(Packets), NEW p \in Packets
    PROVE  Played(Played(x, s), <<p>>) = Played(x, Append(s, p))
<1> DEFINE y == Played(x, s)
           e == <<p>>
           t == Append(s, p)
           a == Got(x, s)
           z == Played(y, e)
           w == Played(x, t)
<1>1. e \in Seq(Packets) /\ t \in Seq(Packets) /\ e # << >> /\ e[Len(e)] = p
      /\ t # << >> /\ t[Len(t)] = p
  OBVIOUS
<1>2. y \in SessionType
  BY PlayedTyped
<1>3. x.last \in Packets \cup {None} /\ None \notin Packets
  BY SourceConstants DEF SessionType
<1>4. Got(x, t) = Append(a, p)
  <2>1. CASE x.last = None
    BY <2>1 DEF Got
  <2>2. CASE x.last # None
    <3> DEFINE o == <<x.last>>
    <3>1. o \in Seq(Packets)
      BY <1>3, <2>2
    <3>2. a = o \o s /\ Got(x, t) = o \o t
      BY <2>2 DEF Got
    <3> HIDE DEF o, a
    <3>3. o \o Append(s, p) = Append(o \o s, p)
      BY <3>1
    <3> QED
      BY <3>2, <3>3
  <2> QED
    BY <2>1, <2>2
<1>5. /\ a \in Seq(Packets)
      /\ y.last = IF Len(a) = 0 THEN None ELSE a[Len(a)]
      /\ y.replayed = (x.replayed \/ StepsBack(a))
      /\ y.skipped = (x.skipped \/ LeavesOut(a, x.since))
  BY PlayedFields
<1>6. /\ w.replayed = (x.replayed \/ StepsBack(Append(a, p)))
      /\ w.skipped = (x.skipped \/ LeavesOut(Append(a, p), x.since))
  <2> HIDE DEF t, a
  <2>1. /\ w.replayed = (x.replayed \/ StepsBack(Got(x, t)))
        /\ w.skipped = (x.skipped \/ LeavesOut(Got(x, t), x.since))
    BY <1>1, PlayedFields
  <2> QED
    BY ONLY <1>4, <2>1
<1>7. /\ z.replayed = (y.replayed \/ StepsBack(Got(y, e)))
      /\ z.skipped = (y.skipped \/ LeavesOut(Got(y, e), y.since))
  <2> HIDE DEF e, y
  <2> QED
    BY <1>1, <1>2, PlayedFields
<1>8. /\ Untouched(x, y) /\ y.ring = x.ring
      /\ Untouched(x, w) /\ w.ring = x.ring /\ w.last = p /\ w \in SessionType
  <2> HIDE DEF t
  <2> QED
    BY <1>1, PlayedIs, PlayedTyped
<1>9. Untouched(y, z) /\ z.ring = y.ring /\ z.last = p /\ z \in SessionType
  <2> HIDE DEF e, y
  <2> QED
    BY <1>1, <1>2, PlayedIs, PlayedTyped
<1> HIDE DEF y, z, w, t, a
<1>12. Untouched(w, z) /\ z.ring = w.ring /\ z.last = w.last
  BY <1>8, <1>9 DEF Untouched
<1>10. ASSUME a = << >> PROVE z = w
  <2>1. y.last = None /\ Len(a) = 0
    BY <1>5, <1>10
  <2>2. Got(y, e) = Append(a, p)
    BY <1>10, <2>1 DEF Got
  <2>3. ~StepsBack(a) /\ ~LeavesOut(a, x.since)
    BY <2>1 DEF StepsBack, LeavesOut
  <2>4. z.replayed = w.replayed /\ z.skipped = w.skipped
    <3>1. y.replayed = x.replayed /\ y.skipped = x.skipped /\ y.since = x.since
      BY <1>5, <1>8, <2>3 DEF Untouched, SessionType
    <3> QED
      BY <1>6, <1>7, <2>2, <3>1
  <2> QED
    BY <1>8, <1>9, <1>12, <2>4, SameSession
<1>11. ASSUME a # << >> PROVE z = w
  <2> DEFINE o == <<y.last>>
             l == a[Len(a)]
  <2>1. y.last = l /\ y.last # None /\ l \in Packets
    <3>1. Len(a) # 0 /\ a[Len(a)] \in Packets
      BY <1>5, <1>11
    <3> QED
      BY <1>3, <1>5, <3>1
  <2>2. o \in Seq(Packets) /\ o # << >> /\ Len(o) = 1 /\ o[1] = l /\ o[Len(o)] = l
    BY <2>1
  <2>3. Got(y, e) = Append(o, p)
    BY <2>1 DEF Got
  <2> HIDE DEF o, l
  <2>4. ~StepsBack(o) /\ ~LeavesOut(o, x.since)
    BY <2>2 DEF StepsBack, LeavesOut
  <2>5. /\ StepsBack(Append(o, p)) <=> p <= l
        /\ LeavesOut(Append(o, p), x.since) <=> \E q \in (l + 1)..(p - 1) : q > x.since
    BY <2>2, <2>4, OneMore
  <2>6. /\ StepsBack(Append(a, p)) <=> StepsBack(a) \/ p <= l
        /\ LeavesOut(Append(a, p), x.since) <=>
              LeavesOut(a, x.since) \/ \E q \in (l + 1)..(p - 1) : q > x.since
    BY <1>5, <1>11, OneMore DEF l
  <2>7. z.replayed = w.replayed /\ z.skipped = w.skipped
    <3>1. y.since = x.since
      BY <1>8 DEF Untouched
    <3>2. z.replayed <=> w.replayed
      BY <1>5, <1>6, <1>7, <2>3, <2>5, <2>6
    <3>3. z.skipped <=> w.skipped
      BY <1>5, <1>6, <1>7, <2>3, <2>5, <2>6, <3>1
    <3>4. {z.replayed, w.replayed, z.skipped, w.skipped} \subseteq BOOLEAN
      BY <1>8, <1>9 DEF SessionType
    <3> QED
      BY <3>2, <3>3, <3>4
  <2> QED
    BY <1>8, <1>9, <1>12, <2>7, SameSession
<1> QED
  BY <1>10, <1>11 DEF z, w, y, t

\* What came before stays.
LEMMA PlayedKeeps ==
    ASSUME SourceAssumption, NEW x \in SessionType, NEW s \in Seq(Packets)
    PROVE  /\ x.replayed => Played(x, s).replayed
           /\ x.skipped => Played(x, s).skipped
           /\ Untouched(x, Played(x, s))
<1>1. /\ Played(x, s).replayed = (x.replayed \/ StepsBack(Got(x, s)))
      /\ Played(x, s).skipped = (x.skipped \/ LeavesOut(Got(x, s), x.since))
  BY PlayedFields
<1>2. Untouched(x, Played(x, s))
  BY PlayedIs
<1> QED
  BY <1>1, <1>2

\* It does not matter to the client which ring the packets went through.
LEMMA PlayedRing ==
    ASSUME SourceAssumption, NEW x \in SessionType, NEW s \in Seq(Packets), NEW r \in Drained
    PROVE  /\ [x EXCEPT !.ring = r] \in SessionType
           /\ Played([x EXCEPT !.ring = r], s) = [Played(x, s) EXCEPT !.ring = r]
<1> DEFINE y == [x EXCEPT !.ring = r]
           w == Played(x, s)
           z == [w EXCEPT !.ring = r]
<1>1. /\ y \in SessionType /\ Untouched(x, y) /\ y.ring = r /\ y.last = x.last
      /\ y.replayed = x.replayed /\ y.skipped = x.skipped /\ y.since = x.since
  BY DEF SessionType, Untouched
<1>2. w \in SessionType /\ Untouched(x, w)
  BY PlayedTyped, PlayedIs
<1> HIDE DEF w, y
<1>3. /\ z \in SessionType /\ Untouched(w, z) /\ z.ring = r /\ z.last = w.last
      /\ z.replayed = w.replayed /\ z.skipped = w.skipped
  BY <1>2 DEF SessionType, Untouched
<1> HIDE DEF z
<1>4. Got(y, s) = Got(x, s)
  BY <1>1 DEF Got
<1>5. /\ w.last = IF Len(Got(x, s)) = 0 THEN None ELSE Got(x, s)[Len(Got(x, s))]
      /\ w.replayed = (x.replayed \/ StepsBack(Got(x, s)))
      /\ w.skipped = (x.skipped \/ LeavesOut(Got(x, s), x.since))
  BY PlayedFields DEF w
<1>6. /\ Played(y, s).last = IF Len(Got(y, s)) = 0 THEN None ELSE Got(y, s)[Len(Got(y, s))]
      /\ Played(y, s).replayed = (y.replayed \/ StepsBack(Got(y, s)))
      /\ Played(y, s).skipped = (y.skipped \/ LeavesOut(Got(y, s), y.since))
  BY <1>1, PlayedFields
<1>7. Played(y, s) \in SessionType /\ Untouched(y, Played(y, s)) /\ Played(y, s).ring = r
  BY <1>1, PlayedTyped, PlayedIs
<1>8. Untouched(z, Played(y, s))
  BY <1>1, <1>2, <1>3, <1>7 DEF Untouched
<1>9. z = Played(y, s)
  BY <1>1, <1>3, <1>4, <1>5, <1>6, <1>7, <1>8, SameSession
<1> QED
  BY <1>1, <1>9 DEF z, y, w

-----------------------------------------------------------------------------
(* What is kept of a viewer's stream.                                      *)

\* With t the newest packet sent, W those still to come and clean if none was
\* lost: what the ring of x collects and what is kept for it fit into a window,
\* and the client is where the ring's window begins.
InFlow(x, t, W, clean) ==
    /\ x.ring.phase # 2 => Together(Buffered(x.ring) \cup Range(x.pending))
    /\ \A k, l \in 1..Len(x.pending) : k < l => x.pending[k] < x.pending[l] + Window
    /\ \A k \in 1..Len(x.pending) : x.pending[k] <= t
    /\ x.fcc = "REQUESTED" => x.ring = EmptyRing /\ x.last = None
    /\ \E b \in Nat :
          /\ RingFrom(x.ring, b, t) /\ Ordered(x, b)
          /\ clean /\ ~x.hurt => Whole(x, b, W \cup Range(x.pending))

\* A viewer that failed gets nothing any more, for want of memory.
Sound(x, t, W, clean) ==
    IF x.failed THEN x.hurt /\ ~x.replayed ELSE InFlow(x, t, W, clean)

LEMMA WholeMore ==
    ASSUME NEW x, NEW b, NEW V, NEW W, V \subseteq W, Whole(x, b, V)
    PROVE  Whole(x, b, W)
BY DEF Whole

LEMMA RingLater ==
    ASSUME NEW r, NEW b, NEW t \in Int, NEW u \in Int, t <= u, RingFrom(r, b, t)
    PROVE  RingFrom(r, b, u)
<1>1. PICK n \in Nat \cup {None} :
        /\ Aligned(r, b, n) /\ n <= t
        /\ r.phase = 0 => n = None /\ Buffered(r) = {}
        /\ r.phase # 0 => SentFirst <= b /\ n \in Nat
        /\ r.phase = 1 => {b, n} \subseteq Buffered(r)
  BY DEF RingFrom
<1>2. n <= u
  BY <1>1 DEF None
<1> QED
  BY <1>1, <1>2 DEF RingFrom

\* Time goes on, and less is expected.
LEMMA SoundLater ==
    ASSUME SourceAssumption, NEW x \in SessionType, NEW t \in Int, NEW u \in Int, t <= u,
           NEW V, NEW W, NEW c, NEW d, d => c /\ V \subseteq W, Sound(x, t, V, c)
    PROVE  Sound(x, u, W, d)
<1> SUFFICES ASSUME ~x.failed PROVE InFlow(x, u, W, d)
  BY DEF Sound
<1>1. InFlow(x, t, V, c)
  BY DEF Sound
<1>2. PICK b \in Nat :
         /\ RingFrom(x.ring, b, t) /\ Ordered(x, b)
         /\ c /\ ~x.hurt => Whole(x, b, V \cup Range(x.pending))
  BY <1>1 DEF InFlow
<1>3. RingFrom(x.ring, b, u)
  BY <1>2, RingLater
<1>4. ASSUME d, ~x.hurt PROVE Whole(x, b, W \cup Range(x.pending))
  <2>1. V \cup Range(x.pending) \subseteq W \cup Range(x.pending)
    BY <1>4
  <2> QED
    BY <1>2, <1>4, <2>1, WholeMore
<1>5. \A k \in 1..Len(x.pending) : x.pending[k] <= u
  <2>1. x.pending \in Seq(Packets) /\ Packets \subseteq Nat
    BY SourceConstants DEF SessionType
  <2>2. \A k \in 1..Len(x.pending) : x.pending[k] \in Nat
    BY <2>1
  <2>3. \A k \in 1..Len(x.pending) : x.pending[k] <= t
    BY <1>1 DEF InFlow
  <2> QED
    BY <2>2, <2>3
<1>6. \E a \in Nat :
         /\ RingFrom(x.ring, a, u) /\ Ordered(x, a)
         /\ d /\ ~x.hurt => Whole(x, a, W \cup Range(x.pending))
  BY <1>2, <1>3, <1>4
<1> QED
  BY <1>1, <1>5, <1>6 DEF InFlow

\* Packets s, which come with or after what was kept, through the viewer's ring.
LEMMA FeedSound ==
    ASSUME SourceAssumption, NEW x \in SessionType, NEW t \in SentFirst..SentLast,
           NEW V, NEW W, NEW clean, InFlow(x, t, V, clean), x.fcc # "REQUESTED",
           NEW s \in Seq(SentFirst..t), InReach(t, W),
           \A k, l \in 1..Len(s) : k < l => s[k] < s[l] + Window,
           x.ring.phase # 2 => Together(Buffered(x.ring) \cup Range(s)),
           V \cup Range(x.pending) \subseteq W \cup Range(s)
    PROVE  LET y == [x EXCEPT !.pending = << >>]
           IN  InFlow(Feed(y, s), t, W, clean) /\ Untouched(y, Feed(y, s))
<1> DEFINE e == << >>
           y == [x EXCEPT !.pending = e]
           z == Feed(y, s)
<1>1. e \in Seq(Packets) /\ Range(e) = {} /\ Len(e) = 0
  BY DEF Range
<1> HIDE DEF e
<1>2. /\ y \in SessionType /\ y.ring = x.ring /\ y.last = x.last /\ y.since = x.since
      /\ y.hurt = x.hurt /\ y.pending = e /\ y.fcc = x.fcc /\ y.skipped = x.skipped
      /\ y.replayed = x.replayed /\ y.snapshot = x.snapshot
  BY <1>1 DEF SessionType
<1> HIDE DEF y
<1>3. PICK b \in Nat :
         /\ RingFrom(x.ring, b, t) /\ Ordered(x, b)
         /\ clean /\ ~x.hurt => Whole(x, b, V \cup Range(x.pending))
  BY DEF InFlow
<1>4. RingFrom(y.ring, b, t) /\ Ordered(y, b)
  BY <1>2, <1>3 DEF Ordered
<1>5. /\ Untouched(y, z)
      /\ Buffered(z.ring) \subseteq Buffered(x.ring) \cup Range(s)
      /\ x.ring.phase = 2 => z.ring.phase = 2
      /\ \E c \in Nat :
            /\ RingFrom(z.ring, c, t) /\ Ordered(z, c)
            /\ InOrderOf(s, W) /\ Whole(y, b, W \cup Range(s)) => Whole(z, c, W)
  <2>1. y.ring.phase # 2 => Together(Buffered(y.ring) \cup Range(s))
    BY <1>2
  <2>2. /\ Untouched(y, Feed(y, s))
        /\ Buffered(Feed(y, s).ring) \subseteq Buffered(y.ring) \cup Range(s)
        /\ y.ring.phase = 2 => Feed(y, s).ring.phase = 2
        /\ \E c \in Nat :
              /\ RingFrom(Feed(y, s).ring, c, t) /\ Ordered(Feed(y, s), c)
              /\ InOrderOf(s, W) /\ Whole(y, b, W \cup Range(s)) => Whole(Feed(y, s), c, W)
    BY <1>2, <1>4, <2>1, FeedFlows
  <2> QED
    BY <1>2, <2>2
<1> HIDE DEF z
<1>6. InOrderOf(s, W)
  <2>1. ASSUME NEW k \in 1..Len(s), NEW p \in Packets, p \in W PROVE s[k] < p + Window
    <3>1. s[k] \in SentFirst..t /\ SentFirst \in Nat /\ t \in Nat /\ p \in Nat /\ Window \in Nat
      BY SourceConstants DEF RingAssumption
    <3>2. t < p + Window
      BY <2>1 DEF InReach
    <3> QED
      BY <3>1, <3>2
  <2> QED
    BY <2>1 DEF InOrderOf, InReach
<1>7. ASSUME clean, ~x.hurt PROVE Whole(y, b, W \cup Range(s))
  <2>1. Whole(x, b, W \cup Range(s))
    BY <1>3, <1>7, WholeMore
  <2> QED
    BY <1>2, <2>1 DEF Whole
<1>8. z.pending = e /\ z.fcc = x.fcc /\ z.hurt = x.hurt
  BY <1>2, <1>5 DEF Untouched
<1>9. \E c \in Nat :
         /\ RingFrom(z.ring, c, t) /\ Ordered(z, c)
         /\ clean /\ ~z.hurt => Whole(z, c, W \cup Range(z.pending))
  <2>1. W \cup Range(z.pending) = W
    BY <1>1, <1>8
  <2> QED
    BY <1>5, <1>6, <1>7, <1>8, <2>1
<1>10. z.ring.phase # 2 => Together(Buffered(z.ring) \cup Range(z.pending))
  <2>1. ASSUME z.ring.phase # 2 PROVE Together(Buffered(z.ring) \cup Range(z.pending))
    <3>1. Together(Buffered(x.ring) \cup Range(s))
      BY <1>5, <2>1
    <3>2. Buffered(z.ring) \cup Range(z.pending) \subseteq Buffered(x.ring) \cup Range(s)
      BY <1>1, <1>5, <1>8
    <3> QED
      BY <3>1, <3>2 DEF Together
  <2> QED
    BY <2>1
<1>11. \A k : k \notin 1..Len(z.pending)
  BY <1>1, <1>8
<1>12. InFlow(z, t, W, clean)
  BY <1>8, <1>9, <1>10, <1>11 DEF InFlow
<1> QED
  BY <1>5, <1>12 DEF z, y, e

LEMMA FeedSingle ==
    ASSUME SourceAssumption, NEW x \in SessionType, NEW i \in Packets
    PROVE  Feed(x, <<i>>) = FeedOne(x, i) /\ Feed(x, << >>) = x
<1> DEFINE s == <<i>>
           e == << >>
<1>1. s \in Seq(Packets) /\ Len(s) = 1 /\ s[1] = i /\ e \in Seq(Packets) /\ Len(e) = 0
  OBVIOUS
<1> HIDE DEF s, e
<1>2. PICK g : Fed(g, x, s)
  BY <1>1, FeedIs
<1>3. Feed(x, s) = g[1] /\ g[0] = x /\ g[1] = FeedOne(g[1 - 1], s[1])
  <2>1. 1 \in 1..Len(s)
    BY <1>1
  <2> QED
    BY <1>1, <1>2, <2>1 DEF Fed
<1>4. PICK h : Fed(h, x, e)
  BY <1>1, FeedIs
<1>5. Feed(x, e) = x
  BY <1>1, <1>4 DEF Fed
<1>6. Feed(x, s) = FeedOne(x, i)
  <2>1. 1 - 1 = 0
    OBVIOUS
  <2> QED
    BY <1>1, <1>3, <2>1
<1> QED
  BY <1>5, <1>6 DEF s, e

\* No packet that a ring collects or that is kept for it is a window before i.
NearTo(x, i) ==
    /\ x.ring.phase = 1 => \A k \in Buffered(x.ring) : i < k + Window
    /\ \A k \in Range(x.pending) : i < k + Window

\* All that is kept for x, and i after it.
LEMMA KeptAndNext ==
    ASSUME SourceAssumption, NEW x \in SessionType, NEW t \in SentFirst..SentLast,
           NEW V, NEW clean, InFlow(x, t, V, clean), NEW i \in SentFirst..t, t < i + Window,
           NearTo(x, i)
    PROVE  LET s == Append(x.pending, i)
           IN  /\ s \in Seq(SentFirst..t) /\ s \in Seq(Packets)
               /\ Range(s) = Range(x.pending) \cup {i}
               /\ \A k, l \in 1..Len(s) : k < l => s[k] < s[l] + Window
               /\ \A k \in 1..Len(s) : s[k] <= t
               /\ x.ring.phase # 2 => Together(Buffered(x.ring) \cup Range(s))
<1> DEFINE p == x.pending
           s == Append(p, i)
           n == Len(p)
<1>1. /\ SentFirst \in Nat /\ SentLast \in Nat /\ t \in Nat /\ i \in Nat /\ i <= t
      /\ Packets = SentFirst..SentLast /\ i \in Packets /\ Window \in Nat \ {0} /\ t <= SentLast
      /\ p \in Seq(Packets) /\ x.ring \in Drained
  <2>1. /\ SentFirst \in Nat /\ SentLast \in Nat /\ Packets = SentFirst..SentLast
        /\ Window \in Nat \ {0}
    BY SourceConstants DEF Packets, RingAssumption
  <2>2. t \in Nat /\ t <= SentLast /\ i \in Nat /\ i <= t /\ i \in Packets
    BY <2>1
  <2> QED
    BY <2>1, <2>2 DEF SessionType
<1> HIDE DEF p
<1>2. n \in Nat /\ (\A k \in 1..n : p[k] \in Packets) /\ Range(p) = {p[k] : k \in 1..n}
  BY <1>1 DEF Range
<1>3. s \in Seq(Packets) /\ Len(s) = n + 1 /\ s[n + 1] = i /\ \A k \in 1..n : s[k] = p[k]
  BY <1>1
<1> HIDE DEF s, n
<1>12. Range(s) = {s[k] : k \in 1..Len(s)} /\ s = [k \in 1..Len(s) |-> s[k]]
  BY <1>3 DEF Range
<1>4. /\ \A k \in 1..Len(s) : k \in 1..n \/ k = n + 1
      /\ \A k \in 1..n : k \in 1..Len(s)
      /\ n + 1 \in 1..Len(s)
      /\ \A k, l \in 1..Len(s) : k < l => k \in 1..n
  <2> DEFINE m == Len(s)
  <2>1. m = n + 1 /\ n \in Nat
    BY <1>2, <1>3
  <2> HIDE DEF m
  <2>2. /\ \A k \in 1..m : k \in 1..n \/ k = n + 1
        /\ \A k \in 1..n : k \in 1..m
        /\ n + 1 \in 1..m
        /\ \A k, l \in 1..m : k < l => k \in 1..n
    BY ONLY <2>1
  <2> QED
    BY <2>2 DEF m
<1>5. /\ x.ring.phase # 2 => Together(Buffered(x.ring) \cup Range(p))
      /\ \A k, l \in 1..n : k < l => p[k] < p[l] + Window
      /\ \A k \in 1..n : p[k] <= t
  BY DEF InFlow, p, n
<1>6. \A k \in 1..n : p[k] \in SentFirst..t /\ p[k] \in Nat
  BY <1>1, <1>2, <1>5
<1>7. \A k \in 1..Len(s) : s[k] \in SentFirst..t /\ s[k] <= t
  BY ONLY <1>1, <1>3, <1>4, <1>5, <1>6, i \in SentFirst..t
<1>8. Range(s) = Range(p) \cup {i}
  BY ONLY <1>2, <1>3, <1>4, <1>12
<1>9. ASSUME NEW k \in 1..Len(s), NEW l \in 1..Len(s), k < l PROVE s[k] < s[l] + Window
  <2>1. k \in 1..n /\ s[k] = p[k] /\ p[k] \in Nat /\ p[k] <= t
    BY <1>3, <1>4, <1>5, <1>6, <1>9
  <2>2. CASE l \in 1..n
    BY <1>3, <1>5, <1>9, <2>1, <2>2
  <2>3. CASE l = n + 1
    <3>1. s[l] = i
      BY <1>3, <2>3
    <3> QED
      BY ONLY <1>1, <2>1, <3>1, t < i + Window
  <2> QED
    BY <1>4, <2>2, <2>3
<1>10. ASSUME x.ring.phase # 2 PROVE Together(Buffered(x.ring) \cup Range(s))
  <2>1. Together(Buffered(x.ring) \cup Range(p))
    BY <1>5, <1>10
  <2>2. \A j \in Buffered(x.ring) \cup Range(p) : j \in Nat /\ j <= t /\ i < j + Window
    <3>1. PICK b \in Nat, m \in Nat \cup {None} :
             Aligned(x.ring, b, m) /\ m <= t /\ (x.ring.phase = 0 => Buffered(x.ring) = {})
      BY DEF InFlow, RingFrom
    <3>2. \A j \in Buffered(x.ring) : j \in Nat /\ j <= m
      BY <3>1, StoredPlace
    <3>3. \A j \in Buffered(x.ring) : j <= t
      BY <1>1, <3>1, <3>2 DEF None
    <3>4. x.ring.phase = 0 \/ x.ring.phase = 1
      BY <1>1, <1>10 DEF Drained, RingType
    <3>5. \A j \in Buffered(x.ring) : i < j + Window
      BY <3>1, <3>4 DEF NearTo
    <3>6. \A j \in Range(p) : i < j + Window
      BY DEF NearTo, p
    <3>7. \A j \in Range(p) : j \in Nat /\ j <= t
      BY <1>2, <1>5, <1>6
    <3> QED
      BY <3>2, <3>3, <3>5, <3>6, <3>7
  <2>3. \A j \in Buffered(x.ring) \cup Range(p) : j < i + Window
    BY <1>1, <2>2
  <2>4. i < i + Window
    BY <1>1
  <2> QED
    BY <1>8, <2>1, <2>2, <2>3, <2>4 DEF Together
<1>11. s \in Seq(SentFirst..t)
  BY ONLY <1>3, <1>7, SeqOf
<1> QED
  BY <1>3, <1>7, <1>8, <1>9, <1>10, <1>11 DEF s, p

\* A packet for one viewer (mcast_deliver_packet).
LEMMA DeliverSound ==
    ASSUME SourceAssumption, NEW x \in SessionType, NEW t \in SentFirst..SentLast,
           NEW V, NEW W, NEW clean, Sound(x, t, V, clean), NEW i \in SentFirst..t, NearTo(x, i),
           V \subseteq W \cup {i}, InReach(t, W), t < i + Window
    PROVE  /\ Sound(DeliverPacket(x, i), t, W, clean)
           /\ DeliverPacket(x, i).since = x.since /\ DeliverPacket(x, i).batched = x.batched
<1> DEFINE s == Append(x.pending, i)
           e == << >>
           y == [x EXCEPT !.pending = e]
           z == [x EXCEPT !.pending = s]
<1>1. t \in Int /\ i \in Packets
  <2>1. SentFirst \in Nat /\ SentLast \in Nat
    BY SourceConstants
  <2> QED
    BY <2>1 DEF Packets
<1>2. CASE x.failed
  BY <1>2 DEF DeliverPacket, Sound
<1>3. CASE ~x.failed
  <2>1. InFlow(x, t, V, clean)
    BY <1>3 DEF Sound
  <2>2. /\ s \in Seq(SentFirst..t) /\ s \in Seq(Packets)
        /\ Range(s) = Range(x.pending) \cup {i}
        /\ \A k, l \in 1..Len(s) : k < l => s[k] < s[l] + Window
        /\ \A k \in 1..Len(s) : s[k] <= t
        /\ x.ring.phase # 2 => Together(Buffered(x.ring) \cup Range(s))
    BY <2>1, KeptAndNext
  <2> HIDE DEF s
  <2>3. CASE x.fcc = "REQUESTED"
    <3>1. DeliverPacket(x, i) = z
      BY <1>3, <2>3 DEF DeliverPacket, s
    <3>2. /\ z.ring = x.ring /\ z.pending = s /\ z.last = x.last /\ z.hurt = x.hurt /\ z.fcc = x.fcc
          /\ z.since = x.since /\ z.batched = x.batched /\ z.failed = x.failed
          /\ z.skipped = x.skipped /\ z.replayed = x.replayed /\ z.snapshot = x.snapshot
      BY DEF SessionType
    <3> HIDE DEF z
    <3>3. PICK b \in Nat :
             /\ RingFrom(x.ring, b, t) /\ Ordered(x, b)
             /\ clean /\ ~x.hurt => Whole(x, b, V \cup Range(x.pending))
      BY <2>1 DEF InFlow
    <3>4. Ordered(z, b)
      BY <3>2, <3>3 DEF Ordered
    <3>5. ASSUME clean, ~z.hurt PROVE Whole(z, b, W \cup Range(s))
      <4>1. V \cup Range(x.pending) \subseteq W \cup Range(s)
        BY <2>2
      <4>2. Whole(x, b, W \cup Range(s))
        BY <3>2, <3>3, <3>5, <4>1, WholeMore
      <4> QED
        BY <3>2, <4>2 DEF Whole
    <3>6. \E c \in Nat :
             /\ RingFrom(z.ring, c, t) /\ Ordered(z, c)
             /\ clean /\ ~z.hurt => Whole(z, c, W \cup Range(z.pending))
      BY <3>2, <3>3, <3>4, <3>5
    <3>7. z.fcc = "REQUESTED" => z.ring = EmptyRing /\ z.last = None
      BY <2>1, <3>2 DEF InFlow
    <3>8. InFlow(z, t, W, clean)
      BY <2>2, <3>2, <3>6, <3>7 DEF InFlow
    <3> QED
      BY <1>3, <3>1, <3>2, <3>8 DEF Sound
  <2>4. CASE x.fcc # "REQUESTED"
    <3>1. DeliverPacket(x, i) = Feed(y, s)
      BY <1>3, <2>4 DEF DeliverPacket, s
    <3>2. V \cup Range(x.pending) \subseteq W \cup Range(s)
      BY <2>2
    <3>3. InFlow(Feed(y, s), t, W, clean) /\ Untouched(y, Feed(y, s))
      BY <2>1, <2>2, <2>4, <3>2, FeedSound
    <3>4. y.since = x.since /\ y.batched = x.batched /\ y.failed = x.failed
      BY DEF SessionType
    <3> HIDE DEF y
    <3> QED
      BY <1>3, <3>1, <3>3, <3>4 DEF Sound, Untouched
  <2> QED
    BY <2>3, <2>4
<1> QED
  BY <1>2, <1>3

\* A viewer that misses a packet, or everything from now on, for want of memory.
LEMMA LackSound ==
    ASSUME SourceAssumption, NEW x \in SessionType, NEW t \in Int, NEW V, NEW W, NEW clean,
           Sound(x, t, V, clean)
    PROVE  /\ Sound([x EXCEPT !.hurt = TRUE], t, W, clean)
           /\ Sound([x EXCEPT !.failed = TRUE, !.hurt = TRUE], t, W, clean)
<1> DEFINE y == [x EXCEPT !.hurt = TRUE]
           z == [x EXCEPT !.failed = TRUE, !.hurt = TRUE]
<1>1. /\ y.ring = x.ring /\ y.pending = x.pending /\ y.last = x.last /\ y.hurt = TRUE /\ y.fcc = x.fcc
      /\ y.failed = x.failed /\ y.replayed = x.replayed /\ y.snapshot = x.snapshot
      /\ z.failed = TRUE /\ z.hurt = TRUE /\ z.replayed = x.replayed
  BY DEF SessionType
<1> HIDE DEF y, z
<1>2. ~x.replayed
  BY DEF Sound, InFlow, Ordered
<1>3. ASSUME ~x.failed PROVE InFlow(y, t, W, clean)
  <2>1. InFlow(x, t, V, clean)
    BY <1>3 DEF Sound
  <2>2. \A b : Ordered(x, b) => Ordered(y, b)
    BY <1>1 DEF Ordered
  <2>3. \E b \in Nat :
           /\ RingFrom(y.ring, b, t) /\ Ordered(y, b)
           /\ clean /\ ~y.hurt => Whole(y, b, W \cup Range(y.pending))
    BY <1>1, <2>1, <2>2 DEF InFlow
  <2> QED
    BY <1>1, <2>1, <2>3 DEF InFlow
<1> QED
  BY <1>1, <1>2, <1>3 DEF Sound, y, z

\* Whether it gets batches is all the same.
LEMMA RoleSound ==
    ASSUME SourceAssumption, NEW x \in SessionType, NEW t, NEW W, NEW clean,
           Sound(x, t, W, clean), NEW role
    PROVE  Sound([x EXCEPT !.batched = role], t, W, clean)
<1> DEFINE y == [x EXCEPT !.batched = role]
<1>1. /\ y.ring = x.ring /\ y.pending = x.pending /\ y.last = x.last /\ y.hurt = x.hurt /\ y.fcc = x.fcc
      /\ y.failed = x.failed /\ y.replayed = x.replayed /\ y.snapshot = x.snapshot
      /\ y.since = x.since /\ y.skipped = x.skipped
  BY DEF SessionType
<1> HIDE DEF y
<1>2. \A b, S : (Ordered(x, b) => Ordered(y, b)) /\ (Whole(x, b, S) => Whole(y, b, S))
  BY <1>1 DEF Ordered, Whole
<1>3. InFlow(x, t, W, clean) => InFlow(y, t, W, clean)
  BY <1>1, <1>2 DEF InFlow
<1> QED
  BY <1>1, <1>3 DEF Sound, y

\* A snapshot viewer has got nothing when it falls back to the stream.
LEMMA FallbackSound ==
    ASSUME SourceAssumption, NEW x \in SessionType, NEW t, NEW W, NEW clean,
           Sound(x, t, W, clean), x.snapshot
    PROVE  Sound([x EXCEPT !.snapshot = FALSE], t, W, clean)
<1> DEFINE y == [x EXCEPT !.snapshot = FALSE]
<1>1. /\ y.ring = x.ring /\ y.pending = x.pending /\ y.last = x.last /\ y.hurt = x.hurt /\ y.fcc = x.fcc
      /\ y.failed = x.failed /\ y.replayed = x.replayed /\ y.snapshot = FALSE
      /\ y.since = x.since /\ y.skipped = x.skipped
  BY DEF SessionType
<1> HIDE DEF y
<1>2. \A b, S : (Ordered(x, b) => Ordered(y, b)) /\ (Whole(x, b, S) => Whole(y, b, S))
  BY <1>1 DEF Ordered, Whole
<1>3. InFlow(x, t, W, clean) => InFlow(y, t, W, clean)
  BY <1>1, <1>2 DEF InFlow
<1> QED
  BY <1>1, <1>3 DEF Sound, y

\* No packet is in an empty ring, wherever its window is said to begin.
LEMMA EmptyFrom ==
    ASSUME SourceAssumption
    PROVE  /\ Buffered(EmptyRing) = {} /\ EmptyRing \in Drained /\ EmptyRing.phase = 0
           /\ \A t \in Int : None <= t => RingFrom(EmptyRing, 0, t)
<1>1. EmptyRing \in RingType(Nat) /\ EmptyRing \in Drained
  BY EmptyTyped DEF Drained
<1>2. /\ EmptyRing.phase = 0 /\ EmptyRing.base = 0
      /\ \A s \in 0..(Window - 1) : EmptyRing.slots[s] = None
  BY DEF EmptyRing
<1>3. Buffered(EmptyRing) = {}
  BY <1>2 DEF Buffered
<1>4. 0 % SeqMod = 0 /\ Window \in Nat \ {0}
  <2>1. SeqMod \in Nat \ {0} /\ Window \in Nat \ {0}
    BY DEF RingAssumption
  <2> QED
    BY <2>1
<1>5. ASSUME NEW t \in Int, None <= t PROVE RingFrom(EmptyRing, 0, t)
  <2>1. 0 <= None + 1 /\ None < 0 + Window
    BY <1>4 DEF None
  <2>2. Aligned(EmptyRing, 0, None)
    BY <1>1, <1>2, <1>4, <2>1 DEF Aligned
  <2> QED
    BY <1>2, <1>3, <1>5, <2>2 DEF RingFrom
<1> QED
  BY <1>1, <1>2, <1>3, <1>5

\* The FCC session of x lets its client have the multicast: from the first packet
\* that was kept, or from whatever comes.
LEMMA ActiveSound ==
    ASSUME SourceAssumption, NEW x \in SessionType, NEW t \in Int, NEW W, NEW clean,
           Sound(x, t, W, clean), x.fcc = "REQUESTED",
           NEW y \in SessionType, NEW r, y = [x EXCEPT !.fcc = "ACTIVE", !.ring = r],
           \/ r = x.ring
           \/ x.pending # << >> /\ r = [EmptyRing EXCEPT !.phase = 2, !.base = Head(x.pending) % SeqMod]
    PROVE  Sound(y, t, W, clean)
<1>1. /\ y.ring = r /\ y.pending = x.pending /\ y.last = x.last /\ y.hurt = x.hurt /\ y.fcc = "ACTIVE"
      /\ y.failed = x.failed /\ y.replayed = x.replayed /\ y.snapshot = x.snapshot
      /\ y.since = x.since /\ y.skipped = x.skipped
  BY DEF SessionType
<1>2. CASE x.failed
  BY <1>1, <1>2 DEF Sound
<1>3. CASE ~x.failed
  <2>1. /\ InFlow(x, t, W, clean) /\ x.ring = EmptyRing /\ x.last = None
    BY <1>3 DEF Sound, InFlow
  <2>2. PICK b \in Nat :
           /\ RingFrom(x.ring, b, t) /\ Ordered(x, b)
           /\ clean /\ ~x.hurt => Whole(x, b, W \cup Range(x.pending))
    BY <2>1 DEF InFlow
  <2>3. CASE r = x.ring
    <3>1. Ordered(y, b)
      BY <1>1, <2>2, <2>3 DEF Ordered
    <3>2. \A S : Whole(x, b, S) => Whole(y, b, S)
      BY <1>1, <2>3 DEF Whole
    <3>3. InFlow(y, t, W, clean)
      BY <1>1, <2>1, <2>2, <2>3, <3>1, <3>2 DEF InFlow
    <3> QED
      BY <1>1, <1>3, <3>3 DEF Sound
  <2>4. CASE x.pending # << >> /\ r = [EmptyRing EXCEPT !.phase = 2, !.base = Head(x.pending) % SeqMod]
    <3> DEFINE c == Head(x.pending)
    <3>1. c \in Packets /\ c \in Nat /\ SentFirst <= c /\ c <= t /\ c - 1 \in Nat
      <4>1. x.pending \in Seq(Packets)
        BY DEF SessionType
      <4>2. 1 \in 1..Len(x.pending) /\ c = x.pending[1] /\ c \in Packets
        BY <2>4, <4>1
      <4>3. c <= t
        BY <2>1, <4>2 DEF InFlow
      <4>4. \A p \in Packets : p \in Nat /\ SentFirst <= p /\ p - 1 \in Nat
        BY SourceConstants DEF Packets
      <4> QED
        BY <4>2, <4>3, <4>4
    <3>2. EmptyRing \in RingType(Nat) /\ \A s \in 0..(Window - 1) : EmptyRing.slots[s] = None
      BY EmptyTyped DEF EmptyRing
    <3>3. c % SeqMod \in 0..(SeqMod - 1)
      BY <3>1, NumberInt
    <3> HIDE DEF c
    <3>4. /\ r \in RingType(Nat) /\ r.phase = 2 /\ r.base = c % SeqMod
          /\ r.slots = EmptyRing.slots
      <4> DEFINE b0 == c % SeqMod
      <4>1. r = [EmptyRing EXCEPT !.phase = 2, !.base = b0] /\ b0 \in 0..(SeqMod - 1) /\ 2 \in 0..2
        BY <2>4, <3>3 DEF c
      <4> HIDE DEF b0
      <4>2. r \in RingType(Nat) /\ r.phase = 2 /\ r.base = b0 /\ r.slots = EmptyRing.slots
        BY ONLY <3>2, <4>1 DEF RingType
      <4> QED
        BY <4>2 DEF b0
    <3>5. RingFrom(r, c, t)
      <4> DEFINE n == c - 1
      <4>1. n \in Nat /\ c <= n + 1 /\ n < c + Window /\ n <= t
        BY <3>1 DEF RingAssumption
      <4> HIDE DEF n
      <4>2. Aligned(r, c, n)
        BY <3>1, <3>2, <3>4, <4>1 DEF Aligned
      <4> QED
        BY <3>1, <3>4, <4>1, <4>2 DEF RingFrom
    <3>6. Ordered(y, c)
      BY <1>1, <2>1, <2>2 DEF Ordered
    <3>7. ASSUME clean, ~y.hurt PROVE Whole(y, c, W \cup Range(y.pending))
      <4>1. Whole(x, b, W \cup Range(x.pending))
        BY <1>1, <2>2, <3>7
      <4>2. x.ring.phase # 2 /\ Buffered(x.ring) = {}
        BY <2>1, EmptyFrom
      <4> QED
        BY <1>1, <2>1, <4>1, <4>2 DEF Whole
    <3>8. InFlow(y, t, W, clean)
      BY <1>1, <2>1, <3>1, <3>4, <3>5, <3>6, <3>7 DEF InFlow
    <3> QED
      BY <1>1, <1>3, <3>8 DEF Sound
  <2> QED
    BY <2>3, <2>4
<1> QED
  BY <1>2, <1>3

-----------------------------------------------------------------------------
(* A batch and those who get it.                                           *)

\* All but what a client got, its ring and its memory.
Alike(x, y) ==
    /\ y.batched = x.batched /\ y.fcc = x.fcc /\ y.snapshot = x.snapshot
    /\ y.pending = x.pending /\ y.since = x.since

\* With the batch s, x will be as e says, or it has failed before that.
Gets(x, s, e) ==
    /\ Alike(x, e)
    /\ IF x.failed THEN x.hurt /\ (x.replayed => e.replayed) ELSE Played(x, s) = e

\* What a step of the source makes of a viewer's session x, which became y while
\* the batch s became u and e is what x was about to become.
Dealt(x, y, u, e) == IF x.failed THEN y = x ELSE Gets(y, u, e)

LEMMA UntouchedAlike ==
    ASSUME NEW x, NEW y, Untouched(x, y)
    PROVE  Alike(x, y) /\ y.failed = x.failed /\ y.hurt = x.hurt
BY DEF Untouched, Alike

LEMMA GetsAtFirst ==
    ASSUME SourceAssumption, NEW x \in SessionType, ~x.failed, NEW s \in Seq(Packets)
    PROVE  Gets(x, s, Played(x, s)) /\ Played(x, s) \in SessionType
BY PlayedIs, PlayedTyped, UntouchedAlike DEF Gets

\* One packet more.
LEMMA GetsMore ==
    ASSUME SourceAssumption, NEW x \in SessionType, NEW s \in Seq(Packets), NEW e \in SessionType,
           Gets(x, s, e), NEW i \in Packets
    PROVE  /\ Gets(x, Append(s, i), Played(e, <<i>>))
           /\ x.failed => \A u : Gets(x, u, Played(e, <<i>>))
<1> DEFINE one == <<i>>
           f == Played(e, one)
<1>1. one \in Seq(Packets)
  OBVIOUS
<1>2. Untouched(e, f) /\ (e.replayed => f.replayed)
  <2> HIDE DEF one
  <2> QED
    BY <1>1, PlayedKeeps
<1>3. Alike(x, f)
  BY <1>2, UntouchedAlike DEF Alike, Gets
<1>4. ~x.failed => Played(x, Append(s, i)) = f
  BY PlayedMore DEF Gets
<1> HIDE DEF f
<1>5. \A u : x.failed => Gets(x, u, f)
  BY <1>2, <1>3 DEF Gets
<1> QED
  BY <1>3, <1>4, <1>5 DEF Gets, f

LEMMA FanoutGets ==
    ASSUME SourceAssumption, NEW m \in Part, NEW s \in Seq(Packets), NEW fail, NEW v \in Viewers
    PROVE  LET x == m.viewer[v]
               y == Fanout(m, s, fail).viewer[v]
           IN  /\ ~Attached(v) \/ ~x.batched => y = x
               /\ Attached(v) /\ x.batched => Dealt(x, y, << >>, Played(x, s))
<1> DEFINE x == m.viewer[v]
           y == Fanout(m, s, fail).viewer[v]
           z == [x EXCEPT !.failed = TRUE, !.hurt = TRUE]
           f == Played(x, s)
<1>1. y = IF ~Attached(v) \/ ~x.batched \/ x.failed THEN x
          ELSE IF v \in fail /\ refs > 1 THEN z ELSE f
  BY PartFields DEF Fanout
<1>2. x \in SessionType
  BY PartFields
<1>3. /\ f \in SessionType /\ Untouched(x, f) /\ (x.replayed => f.replayed)
  BY <1>2, PlayedTyped, PlayedKeeps
<1>4. z.failed = TRUE /\ z.hurt = TRUE /\ z.replayed = x.replayed /\ Alike(x, z)
  BY <1>2 DEF SessionType, Alike
<1>5. Played(f, << >>) = f
  BY <1>3, PlayedNothing
<1> HIDE DEF f, z, y
<1>6. Alike(x, f) /\ f.failed = x.failed /\ Alike(z, f) /\ Alike(f, f)
  BY <1>3, <1>4, UntouchedAlike DEF Alike
<1>7. Gets(z, << >>, f)
  BY <1>3, <1>4, <1>6 DEF Gets
<1>8. ~x.failed => Gets(f, << >>, f)
  BY <1>5, <1>6 DEF Gets
<1>9. ASSUME Attached(v), x.batched PROVE Dealt(x, y, << >>, f)
  <2>1. CASE x.failed
    BY <1>1, <2>1 DEF Dealt
  <2>2. CASE ~x.failed /\ y = z
    BY <1>7, <2>2 DEF Dealt
  <2>3. CASE ~x.failed /\ y = f
    BY <1>8, <2>3 DEF Dealt
  <2> QED
    BY <1>1, <1>9, <2>1, <2>2, <2>3
<1> QED
  BY <1>1, <1>9 DEF f, y

LEMMA FlushGets ==
    ASSUME SourceAssumption, NEW m \in Part, NEW fail, NEW v \in Viewers
    PROVE  LET x == m.viewer[v]
               y == FlushBatch(m, fail).viewer[v]
           IN  /\ ~Attached(v) \/ ~x.batched => y = x
               /\ Attached(v) /\ x.batched => Dealt(x, y, << >>, Played(x, m.batch))
<1>1. m.batch \in Seq(Packets) /\ m.viewer[v] \in SessionType
  BY PartFields
<1>2. CASE m.batch = << >>
  <2>1. FlushBatch(m, fail).viewer[v] = m.viewer[v]
    BY <1>2 DEF FlushBatch
  <2>2. ~m.viewer[v].failed => Gets(m.viewer[v], << >>, Played(m.viewer[v], m.batch))
    BY <1>1, <1>2, GetsAtFirst
  <2> QED
    BY <1>2, <2>1, <2>2 DEF Dealt
<1>3. CASE m.batch # << >>
  <2> DEFINE f == Fanout(m, m.batch, fail)
  <2>1. FlushBatch(m, fail).viewer = f.viewer
    <3>1. f \in Part
      BY <1>1, FanoutTyped
    <3>2. FlushBatch(m, fail) = [f EXCEPT !.batch = << >>]
      BY <1>3 DEF FlushBatch
    <3> HIDE DEF f
    <3> QED
      BY <3>1, <3>2 DEF Part
  <2> QED
    BY <1>1, <2>1, FanoutGets
<1> QED
  BY <1>2, <1>3

\* Who was about to get a batch when it was flushed.
LEMMA FlushedGets ==
    ASSUME SourceAssumption, NEW m \in Part, NEW fail, NEW v \in Viewers, Attached(v),
           m.viewer[v].batched, NEW e, Gets(m.viewer[v], m.batch, e)
    PROVE  Gets(FlushBatch(m, fail).viewer[v], << >>, e)
<1> DEFINE x == m.viewer[v]
           y == FlushBatch(m, fail).viewer[v]
<1>1. Dealt(x, y, << >>, Played(x, m.batch))
  BY FlushGets
<1> HIDE DEF y
<1>2. ASSUME x.failed PROVE Gets(y, << >>, e)
  BY <1>1, <1>2 DEF Dealt, Gets
<1>3. ASSUME ~x.failed PROVE Gets(y, << >>, e)
  BY <1>1, <1>3 DEF Dealt, Gets
<1> QED
  BY <1>2, <1>3 DEF y

LEMMA AppendGets ==
    ASSUME SourceAssumption, NEW m \in Part, NEW i \in Packets, NEW fail, NEW noBatch,
           NEW v \in Viewers
    PROVE  LET x == m.viewer[v]
               a == AppendPacket(m, i, fail, noBatch)
               y == a.viewer[v]
           IN  /\ ~Attached(v) \/ ~x.batched \/ x.failed => y = x
               /\ Attached(v) /\ x.batched /\ clients # 0 =>
                     \A e \in SessionType : Gets(x, m.batch, e) => Gets(y, a.batch, Played(e, <<i>>))
<1> DEFINE f == IF Len(m.batch) = BatchCap THEN FlushBatch(m, fail) ELSE m
           s == Append(f.batch, i)
           a == [f EXCEPT !.batch = s]
           one == <<i>>
           x == m.viewer[v]
           w == AppendPacket(m, i, fail, noBatch)
<1>1. w = IF clients = 0 THEN m
          ELSE IF f.batch = << >> /\ noBatch THEN Fanout(f, one, fail)
          ELSE IF Exact /\ Len(a.batch) = BatchCap THEN FlushBatch(a, fail) ELSE a
  BY DEF AppendPacket
<1>2. /\ f \in Part /\ Len(f.batch) < BatchCap
      /\ f.viewer[v].batched = x.batched
      /\ ~Attached(v) \/ ~x.batched \/ x.failed => f.viewer[v] = x
      /\ Attached(v) /\ x.batched =>
            \A e : Gets(x, m.batch, e) => Gets(f.viewer[v], f.batch, e)
  <2>1. CASE Len(m.batch) = BatchCap
    <3>1. f = FlushBatch(m, fail)
      BY <2>1
    <3>2. f \in Part /\ f.batch = << >> /\ SameRoles(m.viewer, f.viewer)
      BY <3>1, BatchFlushed
    <3>3. /\ ~Attached(v) \/ ~x.batched => f.viewer[v] = x
          /\ Attached(v) /\ x.batched => Dealt(x, f.viewer[v], << >>, Played(x, m.batch))
      BY <3>1, FlushGets
    <3>4. Attached(v) /\ x.batched => \A e : Gets(x, m.batch, e) => Gets(f.viewer[v], << >>, e)
      BY <3>1, FlushedGets
    <3> HIDE DEF f
    <3> QED
      BY <3>2, <3>3, <3>4, SourceConstants DEF SameRoles, Dealt
  <2>2. CASE Len(m.batch) # BatchCap
    BY <2>2, SourceConstants, PartFields
  <2> QED
    BY <2>1, <2>2
<1> HIDE DEF f
<1>3. s \in Seq(Packets) /\ Len(s) <= BatchCap /\ one \in Seq(Packets) /\ f.batch \in Seq(Packets)
      /\ f.viewer[v] \in SessionType
  <2>1. f.batch \in Seq(Packets) /\ f.viewer[v] \in SessionType
    BY <1>2, PartFields
  <2>2. Len(s) = Len(f.batch) + 1 /\ s \in Seq(Packets) /\ Len(f.batch) \in Nat
    BY <2>1
  <2>3. one \in Seq(Packets)
    OBVIOUS
  <2> HIDE DEF s, one
  <2> QED
    BY <1>2, <2>1, <2>2, <2>3, SourceConstants
<1>4. a = [viewer |-> f.viewer, batch |-> s]
  <2>1. f = [viewer |-> f.viewer, batch |-> f.batch]
    BY <1>2, PartFields
  <2> HIDE DEF s
  <2> QED
    BY ONLY <2>1
<1>5. /\ \A e \in SessionType : Gets(f.viewer[v], f.batch, e) =>
            /\ Gets(f.viewer[v], s, Played(e, one))
            /\ f.viewer[v].failed => \A u : Gets(f.viewer[v], u, Played(e, one))
  BY <1>3, GetsMore
<1> HIDE DEF s, one, a, w
<1>6. a \in Part /\ a.viewer = f.viewer /\ a.batch = s
  BY <1>2, <1>3, <1>4, PartIs, PartFields
<1>7. /\ ~Attached(v) \/ ~x.batched \/ x.failed => w.viewer[v] = x
      /\ Attached(v) /\ x.batched /\ clients # 0 =>
            \A e \in SessionType : Gets(x, m.batch, e) => Gets(w.viewer[v], w.batch, Played(e, one))
  <2>1. CASE clients = 0
    BY <1>1, <2>1
  <2>2. CASE w = Fanout(f, one, fail) /\ f.batch = << >>
    <3>1. w.batch = << >>
      BY <1>2, <1>3, <2>2, FanoutTyped
    <3>2. /\ ~Attached(v) \/ ~f.viewer[v].batched => w.viewer[v] = f.viewer[v]
          /\ Attached(v) /\ f.viewer[v].batched =>
                Dealt(f.viewer[v], w.viewer[v], << >>, Played(f.viewer[v], one))
      BY <1>2, <1>3, <2>2, FanoutGets
    <3>3. ASSUME Attached(v), x.batched, NEW e \in SessionType, Gets(x, m.batch, e)
          PROVE  Gets(w.viewer[v], << >>, Played(e, one))
      <4>1. Gets(f.viewer[v], f.batch, e) /\ Dealt(f.viewer[v], w.viewer[v], << >>, Played(f.viewer[v], one))
        BY <1>2, <3>2, <3>3
      <4>2. CASE f.viewer[v].failed
        BY <1>5, <3>3, <4>1, <4>2 DEF Dealt
      <4>3. CASE ~f.viewer[v].failed
        <5>1. Played(f.viewer[v], << >>) = f.viewer[v]
          BY <1>3, PlayedNothing
        <5>2. f.viewer[v] = e
          BY <2>2, <4>1, <4>3, <5>1 DEF Gets
        <5> QED
          BY <4>1, <4>3, <5>2 DEF Dealt
      <4> QED
        BY <4>2, <4>3
    <3>4. ~Attached(v) \/ ~x.batched \/ x.failed => w.viewer[v] = x
      BY <1>2, <3>2 DEF Dealt
    <3> QED
      BY <3>1, <3>3, <3>4
  <2>3. CASE w = FlushBatch(a, fail)
    <3>1. w.batch = << >>
      BY <1>6, <2>3, BatchFlushed
    <3>2. /\ ~Attached(v) \/ ~a.viewer[v].batched => w.viewer[v] = a.viewer[v]
          /\ Attached(v) /\ a.viewer[v].batched => Dealt(a.viewer[v], w.viewer[v], << >>, Played(a.viewer[v], s))
      BY <1>6, <2>3, FlushGets
    <3>3. ASSUME Attached(v), x.batched, NEW e \in SessionType, Gets(x, m.batch, e)
          PROVE  Gets(w.viewer[v], << >>, Played(e, one))
      <4>1. Gets(a.viewer[v], a.batch, Played(e, one)) /\ a.viewer[v].batched
        BY <1>2, <1>5, <1>6, <3>3
      <4> QED
        BY <1>6, <2>3, <3>3, <4>1, FlushedGets
    <3>4. ~Attached(v) \/ ~x.batched \/ x.failed => w.viewer[v] = x
      BY <1>2, <1>6, <3>2 DEF Dealt
    <3> QED
      BY <3>1, <3>3, <3>4
  <2>4. CASE w = a
    BY <1>2, <1>5, <1>6, <2>4
  <2> QED
    BY <1>1, <2>1, <2>2, <2>3, <2>4
<1> QED
  BY <1>7 DEF w, x, one

\* The packets that the source's ring delivers, to one viewer.
LEMMA AppendPacketsGets ==
    ASSUME SourceAssumption, NEW m \in Part, NEW s \in Seq(Packets), NEW fail, NEW noBatch,
           NEW v \in Viewers
    PROVE  LET x == m.viewer[v]
               a == AppendPackets(m, s, fail, noBatch)
               y == a.viewer[v]
           IN  /\ ~Attached(v) \/ ~x.batched \/ x.failed => y = x
               /\ Attached(v) /\ x.batched /\ clients # 0 =>
                     \A e \in SessionType : Gets(x, m.batch, e) => Gets(y, a.batch, Played(e, s))
<1> DEFINE n == Len(s)
           x == m.viewer[v]
           Begin(k) == SubSeq(s, 1, k)
<1>1. PICK g : Added(g, m, s, fail, noBatch)
  BY AppendPacketsIs
<1>2. /\ g[0] = m /\ AppendPackets(m, s, fail, noBatch) = g[n]
      /\ \A k \in 1..n : g[k] = AppendPacket(g[k - 1], s[k], fail, noBatch)
      /\ \A k \in 0..n : g[k] \in Part /\ SameRoles(m.viewer, g[k].viewer)
  BY <1>1 DEF Added
<1>3. n \in Nat /\ \A k \in 1..n : s[k] \in Packets
  OBVIOUS
<1>4. /\ Begin(0) = << >> /\ Begin(n) = s
      /\ \A k \in 0..n : Begin(k) \in Seq(Packets)
      /\ \A k \in 1..n : Begin(k) = Append(Begin(k - 1), s[k])
  <2>1. Begin(0) = << >>
    OBVIOUS
  <2>2. Begin(n) = s
    OBVIOUS
  <2>3. \A k \in 0..n : Begin(k) \in Seq(Packets)
    OBVIOUS
  <2>4. \A k \in 1..n : Begin(k) = Append(Begin(k - 1), s[k])
    OBVIOUS
  <2> QED
    BY <2>1, <2>2, <2>3, <2>4
<1> HIDE DEF n, Begin
<1> DEFINE Good(k) ==
              /\ ~Attached(v) \/ ~x.batched \/ x.failed => g[k].viewer[v] = x
              /\ Attached(v) /\ x.batched /\ clients # 0 =>
                    \A e \in SessionType :
                       Gets(x, m.batch, e) => Gets(g[k].viewer[v], g[k].batch, Played(e, Begin(k)))
<1>5. Good(0)
  <2>1. \A e \in SessionType : Played(e, Begin(0)) = e
    BY <1>4, PlayedNothing
  <2> QED
    BY <1>2, <2>1
<1>6. ASSUME NEW k \in 1..n, Good(k - 1) PROVE Good(k)
  <2> DEFINE h == g[k - 1]
             i == s[k]
  <2>1. h \in Part /\ i \in Packets /\ g[k] = AppendPacket(h, i, fail, noBatch)
        /\ h.viewer[v].batched = x.batched /\ Begin(k) = Append(Begin(k - 1), i)
        /\ Begin(k - 1) \in Seq(Packets)
    <3>1. k - 1 \in 0..n
      BY <1>3
    <3> QED
      BY <1>2, <1>3, <1>4, <3>1 DEF SameRoles
  <2>2. /\ ~Attached(v) \/ ~x.batched \/ x.failed => h.viewer[v] = x
        /\ Attached(v) /\ x.batched /\ clients # 0 =>
              \A e \in SessionType :
                 Gets(x, m.batch, e) => Gets(h.viewer[v], h.batch, Played(e, Begin(k - 1)))
    BY <1>6
  <2> HIDE DEF h, i
  <2>3. /\ ~Attached(v) \/ ~h.viewer[v].batched \/ h.viewer[v].failed => g[k].viewer[v] = h.viewer[v]
        /\ Attached(v) /\ h.viewer[v].batched /\ clients # 0 =>
              \A e \in SessionType :
                 Gets(h.viewer[v], h.batch, e) => Gets(g[k].viewer[v], g[k].batch, Played(e, <<i>>))
    BY <2>1, AppendGets
  <2>4. ~Attached(v) \/ ~x.batched \/ x.failed => g[k].viewer[v] = x
    BY <2>1, <2>2, <2>3
  <2>5. ASSUME Attached(v), x.batched, clients # 0, NEW e \in SessionType, Gets(x, m.batch, e)
        PROVE  Gets(g[k].viewer[v], g[k].batch, Played(e, Begin(k)))
    <3>1. Played(e, Begin(k - 1)) \in SessionType
      BY <2>1, PlayedTyped
    <3>2. Gets(g[k].viewer[v], g[k].batch, Played(Played(e, Begin(k - 1)), <<i>>))
      BY <2>1, <2>2, <2>3, <2>5, <3>1
    <3>3. Played(Played(e, Begin(k - 1)), <<i>>) = Played(e, Begin(k))
      BY <2>1, PlayedMore
    <3> QED
      BY <3>2, <3>3
  <2> QED
    BY <2>4, <2>5
<1> HIDE DEF Good
<1>7. Good(n)
  <2> DEFINE good == {k \in 0..n : Good(k)}
  <2>1. 0 \in good /\ \A k \in 1..n : k - 1 \in good => k \in good
    BY <1>3, <1>5, <1>6
  <2>2. n \in 0..n
    BY <1>3
  <2> HIDE DEF good
  <2>3. n \in good
    BY <1>3, <2>1, <2>2, StepByStep
  <2> QED
    BY <2>3 DEF good
<1> QED
  BY <1>2, <1>4, <1>7 DEF Good

-----------------------------------------------------------------------------
(* Viewers of a source.                                                    *)

\* The session x as it will be when the batch s is handed out, and with the ring
\* r of the source if that is the one it depends on.
Effective(x, s, r) ==
    IF x.batched /\ ~x.failed THEN [Played(x, s) EXCEPT !.ring = r] ELSE x

\* One that has been looking at the ring r since it joined.
Watcher(since, r) ==
    [batched |-> FALSE, failed |-> FALSE, fcc |-> "none", snapshot |-> TRUE,
     pending |-> << >>, ring |-> r, since |-> since, last |-> None,
     replayed |-> FALSE, skipped |-> FALSE, hurt |-> FALSE]

\* What is kept of the session x of a subscriber; sh says whether the source's
\* ring is in use.
Served(x, s, r, sh, t, W, clean) ==
    /\ Sound(Effective(x, s, r), t, W, clean)
    /\ sh => InFlow(Watcher(x.since, r), t, W, clean)
    /\ x.batched => sh /\ x.pending = << >> /\ x.fcc # "REQUESTED" /\ ~x.snapshot

LEMMA EffectiveIs ==
    ASSUME SourceAssumption, NEW x \in SessionType, NEW s \in Seq(Packets), NEW r \in Drained
    PROVE  LET e == Effective(x, s, r)
           IN  /\ e \in SessionType
               /\ e.batched = x.batched /\ e.failed = x.failed /\ e.fcc = x.fcc
               /\ e.snapshot = x.snapshot /\ e.pending = x.pending /\ e.since = x.since
               /\ e.hurt = x.hurt
               /\ x.batched /\ ~x.failed => e.ring = r
<1> DEFINE w == Played(x, s)
           z == [w EXCEPT !.ring = r]
<1>1. w \in SessionType /\ Untouched(x, w)
  BY PlayedTyped, PlayedIs
<1> HIDE DEF w
<1>2. z \in SessionType /\ Untouched(w, z) /\ z.ring = r
  BY <1>1 DEF SessionType, Untouched
<1> HIDE DEF z
<1>3. Effective(x, s, r) = IF x.batched /\ ~x.failed THEN z ELSE x
  BY DEF Effective, z, w
<1> QED
  BY <1>1, <1>2, <1>3 DEF Untouched

LEMMA WatcherTyped ==
    ASSUME SourceAssumption, NEW since \in Int, NEW r \in Drained
    PROVE  Watcher(since, r) \in SessionType
<1> DEFINE e == << >>
<1>1. e \in Seq(Packets)
  OBVIOUS
<1> HIDE DEF e
<1>2. [batched |-> FALSE, failed |-> FALSE, fcc |-> "none", snapshot |-> TRUE,
       pending |-> e, ring |-> r, since |-> since, last |-> None,
       replayed |-> FALSE, skipped |-> FALSE, hurt |-> FALSE] \in SessionType
  BY <1>1 DEF SessionType
<1> QED
  BY <1>2 DEF Watcher, e

LEMMA DeliverDirect ==
    ASSUME SourceAssumption, NEW x \in SessionType, ~x.failed, x.fcc # "REQUESTED",
           x.pending = << >>, NEW i \in Packets
    PROVE  LET q == InsertPacket(x.ring, i)
               y == [x EXCEPT !.ring = Emptied(q)]
           IN  DeliverPacket(x, i) = IF x.snapshot THEN y ELSE Played(y, q.out)
<1> DEFINE e == << >>
<1>1. [x EXCEPT !.pending = e] = x
  <2>1. x.pending = e
    OBVIOUS
  <2> HIDE DEF e
  <2> QED
    BY <2>1 DEF SessionType
<1>2. Append(x.pending, i) = <<i>>
  OBVIOUS
<1>3. DeliverPacket(x, i) = Feed(x, <<i>>)
  BY <1>1, <1>2 DEF DeliverPacket
<1> QED
  BY <1>3, FeedSingle DEF FeedOne, Emptied

LEMMA InsertDrained ==
    ASSUME SourceAssumption, NEW r \in Drained, NEW i \in Packets
    PROVE  /\ Emptied(InsertPacket(r, i)) \in Drained
           /\ InsertPacket(r, i).out \in Seq(Packets)
           /\ Emptied(InsertPacket(r, i)).phase = InsertPacket(r, i).phase
           /\ Emptied(InsertPacket(r, i)).base = InsertPacket(r, i).base
<1> DEFINE q == InsertPacket(r, i)
<1>1. q \in RingType(Packets)
  BY SourceConstants, InsertTyped DEF Drained
<1> HIDE DEF q
<1>2. Emptied(q) \in RingType(Packets) /\ Emptied(q).out = << >> /\ Emptied(q).phase = q.phase
      /\ Emptied(q).base = q.base /\ q.out \in Seq(Packets)
  BY <1>1, SourceConstants, EmptiedIs DEF RingType, Emptied
<1> QED
  BY <1>2 DEF Drained, q

\* The source's ring takes packet i, and y with the batch u is what becomes of x
\* with s.
LEMMA BatchSound ==
    ASSUME SourceAssumption, NEW x \in SessionType, x.batched, ~x.failed, x.pending = << >>,
           x.fcc # "REQUESTED", ~x.snapshot, NEW s \in Seq(Packets), NEW r \in Drained,
           NEW t \in SentFirst..SentLast, NEW V, NEW W, NEW clean,
           Sound(Effective(x, s, r), t, V, clean), NEW i \in SentFirst..t,
           r.phase = 1 => \A k \in Buffered(r) : i < k + Window,
           V \subseteq W \cup {i}, InReach(t, W), t < i + Window,
           NEW y \in SessionType, NEW u \in Seq(Packets),
           Gets(y, u, Played(Played(x, s), InsertPacket(r, i).out))
    PROVE  Sound(Effective(y, u, Emptied(InsertPacket(r, i))), t, W, clean)
<1> DEFINE q == InsertPacket(r, i)
           R == Emptied(q)
           e == Played(x, s)
           E == [e EXCEPT !.ring = r]
           G == [E EXCEPT !.ring = R]
           f == Played(e, q.out)
           F == [f EXCEPT !.ring = R]
<1>1. i \in Packets
  BY SourceConstants DEF Packets
<1>2. R \in Drained /\ q.out \in Seq(Packets)
  BY <1>1, InsertDrained
<1> HIDE DEF q, R
<1>3. e \in SessionType /\ Untouched(x, e)
  BY PlayedTyped, PlayedIs
<1> HIDE DEF e
<1>4. f \in SessionType /\ Untouched(e, f)
  BY <1>2, <1>3, PlayedTyped, PlayedIs
<1>5. Played([e EXCEPT !.ring = R], q.out) = F
  BY ONLY SourceAssumption, <1>2, <1>3, PlayedRing
<1> HIDE DEF f
<1>6. E \in SessionType /\ Untouched(e, E) /\ E.ring = r
  BY <1>3 DEF SessionType, Untouched
<1>7. G = [e EXCEPT !.ring = R]
  BY <1>3 DEF SessionType
<1>8. Effective(x, s, r) = E
  BY DEF Effective, e
<1> HIDE DEF E
<1>9. ~E.failed /\ E.fcc # "REQUESTED" /\ E.pending = << >> /\ ~E.snapshot
  BY <1>3, <1>6 DEF Untouched
<1>10. DeliverPacket(E, i) = F
  <2>1. DeliverPacket(E, i) = Played(G, q.out)
    BY <1>1, <1>6, <1>9, DeliverDirect DEF q, R
  <2> HIDE DEF F, G
  <2> QED
    BY <1>5, <1>7, <2>1
<1>11. F \in SessionType /\ F.replayed = f.replayed /\ Untouched(f, F)
  BY <1>2, <1>4 DEF SessionType, Untouched
<1> HIDE DEF F
<1>12. Sound(F, t, W, clean)
  <2>1. Range(E.pending) = {}
    BY <1>9 DEF Range
  <2>2. NearTo(E, i)
    BY <1>6, <2>1 DEF NearTo
  <2> QED
    BY <1>6, <1>8, <1>10, <2>2, DeliverSound
<1>13. ~F.replayed /\ ~F.failed /\ f.batched
  BY <1>3, <1>4, <1>11, <1>12 DEF Sound, InFlow, Ordered, Untouched
<1>14. Gets(y, u, f)
  BY DEF f, e, q
<1>15. CASE y.failed
  <2>1. y.hurt /\ ~y.replayed
    BY <1>11, <1>13, <1>14, <1>15 DEF Gets
  <2> QED
    BY <1>15, <2>1 DEF Effective, Sound
<1>16. CASE ~y.failed
  <2>1. Played(y, u) = f /\ y.batched
    BY <1>13, <1>14, <1>16 DEF Gets, Alike
  <2>2. Effective(y, u, R) = F
    BY <1>16, <2>1 DEF Effective, F
  <2> QED
    BY <1>12, <2>2 DEF R, q
<1> QED
  BY <1>15, <1>16

LEMMA WatcherSound ==
    ASSUME SourceAssumption, NEW since \in Int, NEW r \in Drained,
           NEW t \in SentFirst..SentLast, NEW V, NEW W, NEW clean,
           InFlow(Watcher(since, r), t, V, clean), NEW i \in SentFirst..t,
           r.phase = 1 => \A k \in Buffered(r) : i < k + Window,
           V \subseteq W \cup {i}, InReach(t, W), t < i + Window
    PROVE  InFlow(Watcher(since, Emptied(InsertPacket(r, i))), t, W, clean)
<1> DEFINE q == InsertPacket(r, i)
           R == Emptied(q)
           x == Watcher(since, r)
           y == Watcher(since, R)
<1>1. i \in Packets
  BY SourceConstants DEF Packets
<1>2. /\ ~x.failed /\ x.fcc # "REQUESTED" /\ x.pending = << >> /\ x.snapshot /\ x.ring = r
      /\ Range(x.pending) = {} /\ [x EXCEPT !.ring = R] = y /\ ~y.failed
  <2> HIDE DEF R
  <2>1. [x EXCEPT !.ring = R] = y
    <3> DEFINE g == Watcher(since, r)
               h == Watcher(since, R)
               z == [g EXCEPT !.ring = R]
    <3>1. g \in SessionType /\ h \in SessionType /\ R \in Drained
      BY <1>1, InsertDrained, WatcherTyped DEF R
    <3>2. /\ Untouched(g, h) /\ h.ring = R /\ h.last = g.last
          /\ h.replayed = g.replayed /\ h.skipped = g.skipped
      BY DEF Watcher, Untouched
    <3> HIDE DEF g, h
    <3>3. /\ z \in SessionType /\ Untouched(g, z) /\ z.ring = R /\ z.last = g.last
          /\ z.replayed = g.replayed /\ z.skipped = g.skipped
      BY <3>1 DEF SessionType, Untouched
    <3>4. Untouched(z, h)
      BY <3>2, <3>3 DEF Untouched
    <3> HIDE DEF z
    <3>5. z = h
      BY <3>1, <3>2, <3>3, <3>4, SameSession
    <3> QED
      BY <3>5 DEF z, g, h
  <2>2. x.pending = << >> /\ Range(<< >>) = {}
    BY DEF Watcher, Range
  <2> QED
    BY <2>1, <2>2 DEF Watcher
<1>3. x \in SessionType
  BY WatcherTyped
<1> HIDE DEF x, y
<1>4. DeliverPacket(x, i) = y
  BY <1>1, <1>2, <1>3, DeliverDirect
<1>5. NearTo(x, i)
  BY <1>2 DEF NearTo
<1>6. Sound(x, t, V, clean)
  BY <1>2 DEF Sound, x
<1>7. Sound(y, t, W, clean)
  BY <1>3, <1>4, <1>5, <1>6, DeliverSound
<1> QED
  BY <1>2, <1>7 DEF Sound, y

\* Two rings with the same base_seq have the same window.
LEMMA SameWindow ==
    ASSUME SourceAssumption, NEW t \in Int, t <= SentLast, NEW p \in Drained, NEW r \in Drained,
           NEW a \in Nat, NEW b \in Nat, RingFrom(p, a, t), RingFrom(r, b, t),
           p.phase = 2, r.phase = 2, p.base = r.base
    PROVE  a = b
<1>1. ASSUME NEW q, NEW c \in Nat, RingFrom(q, c, t), q.phase = 2
      PROVE  SentFirst <= c /\ c <= SentLast + 1 /\ q.base = c % SeqMod
  <2>1. PICK n \in Nat \cup {None} :
           Aligned(q, c, n) /\ n <= t /\ (q.phase # 0 => SentFirst <= c /\ n \in Nat)
    BY <1>1 DEF RingFrom
  <2>2. n \in Nat /\ SentFirst <= c /\ c <= n + 1 /\ q.base = c % SeqMod
    BY <1>1, <2>1 DEF Aligned
  <2> QED
    BY <2>1, <2>2, SourceConstants
<1>2. /\ SentFirst <= a /\ a <= SentLast + 1 /\ SentFirst <= b /\ b <= SentLast + 1
      /\ a % SeqMod = b % SeqMod
  BY <1>1
<1>3. /\ SentFirst \in Nat /\ SentLast \in Nat /\ SentLast - SentFirst < SeqMod \div 2
      /\ SeqMod \div 2 \in Nat /\ SeqMod \in Nat \ {0} /\ (SeqMod \div 2) + (SeqMod \div 2) = SeqMod
      /\ SeqMod \div 2 >= 1
  BY SourceConstants, Sizes DEF SourceAssumption
<1>4. -SeqMod < a - b /\ a - b < SeqMod
  BY <1>2, <1>3
<1>5. a \in Int /\ b \in Int /\ SeqMod \in Nat \ {0} /\ a % SeqMod = b % SeqMod
  BY <1>2, <1>3
<1> QED
  BY ONLY <1>4, <1>5, ModSame

\* A viewer whose ring has caught up with the source's goes over to the batches.
LEMMA PromoteSound ==
    ASSUME SourceAssumption, NEW x \in SessionType, NEW r \in Drained, NEW t \in Int, t <= SentLast,
           NEW W, NEW clean, Sound(x, t, W, clean), InFlow(Watcher(x.since, r), t, W, clean),
           ~x.failed, ~x.snapshot, x.pending = << >>, x.fcc # "REQUESTED",
           x.ring.phase = 2, r.phase = 2, x.ring.base = r.base,
           NEW y \in SessionType, y = [x EXCEPT !.batched = TRUE]
    PROVE  Sound(Effective(y, << >>, r), t, W, clean)
<1> DEFINE z == [y EXCEPT !.ring = r]
           w == Watcher(x.since, r)
<1>1. Effective(y, << >>, r) = z
  <2>1. y.batched /\ ~y.failed /\ Played(y, << >>) = y
    BY PlayedNothing DEF SessionType
  <2> QED
    BY <2>1 DEF Effective
<1>2. /\ z.ring = r /\ z.pending = x.pending /\ z.last = x.last /\ z.hurt = x.hurt /\ z.fcc = x.fcc
      /\ z.failed = x.failed /\ z.replayed = x.replayed /\ z.snapshot = x.snapshot
      /\ z.since = x.since /\ z.skipped = x.skipped
  BY DEF SessionType
<1>3. w.ring = r /\ w.since = x.since /\ w.pending = << >> /\ w.hurt = FALSE /\ Range(<< >>) = {}
  BY DEF Watcher, Range
<1>4. x.ring \in Drained
  BY DEF SessionType
<1>5. Effective(y, << >>, r).failed = x.failed
  BY <1>1, <1>2
<1> HIDE DEF w, z
<1>6. PICK a \in Nat :
         /\ RingFrom(x.ring, a, t) /\ Ordered(x, a)
         /\ clean /\ ~x.hurt => Whole(x, a, W \cup Range(x.pending))
  BY DEF Sound, InFlow
<1>7. PICK b \in Nat :
         /\ RingFrom(w.ring, b, t) /\ (clean /\ ~w.hurt => Whole(w, b, W \cup Range(w.pending)))
  BY DEF InFlow, w
<1>8. a = b
  BY <1>3, <1>4, <1>6, <1>7, SameWindow
<1>9. Ordered(z, a)
  BY <1>2, <1>6 DEF Ordered
<1>10. ASSUME clean, ~z.hurt PROVE Whole(z, a, W \cup Range(z.pending))
  <2>1. W \cup Range(z.pending) = W /\ W \cup Range(x.pending) = W /\ W \cup Range(w.pending) = W
    BY <1>2, <1>3
  <2>2. Whole(x, a, W) /\ Whole(w, a, W)
    BY <1>2, <1>3, <1>6, <1>7, <1>8, <1>10, <2>1
  <2>3. Whole(z, a, W)
    BY <1>2, <1>3, <2>2 DEF Whole
  <2> QED
    BY <2>1, <2>3
<1>11. RingFrom(z.ring, a, t)
  BY <1>2, <1>3, <1>7, <1>8
<1>12. \E c \in Nat :
          /\ RingFrom(z.ring, c, t) /\ Ordered(z, c)
          /\ clean /\ ~z.hurt => Whole(z, c, W \cup Range(z.pending))
  BY <1>9, <1>10, <1>11
<1>13. \A k : k \notin 1..Len(z.pending)
  BY <1>2
<1>14. InFlow(z, t, W, clean)
  BY <1>2, <1>12, <1>13 DEF InFlow
<1> QED
  BY <1>1, <1>2, <1>14 DEF Sound

\* A viewer that has just joined.
LEMMA NewSound ==
    ASSUME SourceAssumption, NEW t \in Int, NEW x \in SessionType, x.since = t, ~x.failed,
           x.pending = << >>, x.last = None, ~x.replayed, ~x.skipped,
           \E b \in Nat : RingFrom(x.ring, b, t),
           x.ring.phase # 2 => Together(Buffered(x.ring)),
           x.fcc = "REQUESTED" => x.ring = EmptyRing,
           NEW W, \A p \in Packets : t < p => p \in W, NEW clean
    PROVE  Sound(x, t, W, clean)
<1>1. PICK b \in Nat : RingFrom(x.ring, b, t)
  OBVIOUS
<1>2. Range(x.pending) = {} /\ Len(x.pending) = 0
  BY DEF Range
<1>3. Ordered(x, b) /\ Whole(x, b, W \cup Range(x.pending))
  BY DEF Ordered, Whole
<1>4. \E c \in Nat :
         /\ RingFrom(x.ring, c, t) /\ Ordered(x, c)
         /\ clean /\ ~x.hurt => Whole(x, c, W \cup Range(x.pending))
  BY <1>1, <1>3
<1>5. Buffered(x.ring) \cup Range(x.pending) = Buffered(x.ring)
  BY <1>2
<1>6. \A k : k \notin 1..Len(x.pending)
  BY <1>2
<1>7. x.ring.phase # 2 => Together(Buffered(x.ring) \cup Range(x.pending))
  BY <1>5
<1>8. x.fcc = "REQUESTED" => x.ring = EmptyRing /\ x.last = None
  OBVIOUS
<1>9. InFlow(x, t, W, clean)
  BY ONLY <1>4, <1>6, <1>7, <1>8 DEF InFlow
<1> QED
  BY <1>9 DEF Sound

\* What y still gets with u is no more than f says.
LEMMA GetsSound ==
    ASSUME SourceAssumption, NEW f \in SessionType, f.batched, ~f.failed, NEW r \in Drained,
           NEW t, NEW W, NEW clean, Sound([f EXCEPT !.ring = r], t, W, clean),
           NEW y, NEW u, Gets(y, u, f)
    PROVE  Sound(Effective(y, u, r), t, W, clean)
<1> DEFINE F == [f EXCEPT !.ring = r]
<1>1. F.failed = f.failed /\ F.replayed = f.replayed
  BY DEF SessionType
<1>2. ~F.replayed
  BY DEF Sound, InFlow, Ordered
<1> HIDE DEF F
<1>3. CASE y.failed
  BY <1>1, <1>2, <1>3 DEF Gets, Effective, Sound
<1>4. CASE ~y.failed
  <2>1. Played(y, u) = f /\ y.batched
    BY <1>4 DEF Gets, Alike
  <2>2. Effective(y, u, r) = F
    BY <1>4, <2>1 DEF Effective, F
  <2> QED
    BY <2>2 DEF F
<1> QED
  BY <1>3, <1>4

LEMMA ServedLater ==
    ASSUME SourceAssumption, NEW x \in SessionType, NEW s \in Seq(Packets), NEW r \in Drained, NEW sh,
           NEW t \in Int, NEW u \in Int, t <= u, NEW V, NEW W, NEW c, NEW d,
           d => c /\ V \subseteq W, Served(x, s, r, sh, t, V, c)
    PROVE  Served(x, s, r, sh, u, W, d)
<1>1. Sound(Effective(x, s, r), u, W, d)
  BY EffectiveIs, SoundLater DEF Served
<1>2. ASSUME sh PROVE InFlow(Watcher(x.since, r), u, W, d)
  <2> DEFINE w == Watcher(x.since, r)
  <2>1. w \in SessionType
    BY WatcherTyped DEF SessionType
  <2>2. w.failed = FALSE
    BY DEF Watcher
  <2> HIDE DEF w
  <2>3. Sound(w, t, V, c)
    BY <1>2, <2>2 DEF Served, Sound, w
  <2>4. Sound(w, u, W, d)
    BY <2>1, <2>3, SoundLater
  <2> QED
    BY <2>2, <2>4 DEF Sound, w
<1> QED
  BY <1>1, <1>2 DEF Served

\* Handing out the batch changes nothing of what its viewers will have got.
LEMMA FlushServed ==
    ASSUME SourceAssumption, NEW m \in Part, NEW fail, NEW v \in Viewers, Attached(v),
           NEW r \in Drained, NEW sh, NEW t, NEW W, NEW clean,
           Served(m.viewer[v], m.batch, r, sh, t, W, clean)
    PROVE  Served(FlushBatch(m, fail).viewer[v], << >>, r, sh, t, W, clean)
<1> DEFINE x == m.viewer[v]
           y == FlushBatch(m, fail).viewer[v]
           f == Played(x, m.batch)
<1>1. x \in SessionType /\ m.batch \in Seq(Packets)
  BY PartFields
<1>2. f \in SessionType /\ Untouched(x, f)
  BY <1>1, PlayedTyped, PlayedIs
<1>3. /\ ~x.batched => y = x
      /\ x.batched => Dealt(x, y, << >>, f)
  BY FlushGets
<1>4. Served(x, m.batch, r, sh, t, W, clean)
  OBVIOUS
<1> HIDE DEF x, y
<1>5. CASE ~x.batched \/ x.failed
  <2>1. y = x
    BY <1>3, <1>5 DEF Dealt
  <2>2. Effective(y, << >>, r) = Effective(x, m.batch, r)
    BY <1>5, <2>1 DEF Effective
  <2>3. Served(y, << >>, r, sh, t, W, clean)
    BY <1>4, <2>1, <2>2 DEF Served
  <2> QED
    BY <2>3 DEF y
<1>6. CASE x.batched /\ ~x.failed
  <2>1. Gets(y, << >>, f)
    BY <1>3, <1>6 DEF Dealt
  <2>2. Sound([f EXCEPT !.ring = r], t, W, clean)
    BY <1>4, <1>6 DEF Served, Effective
  <2>3. f.batched /\ ~f.failed
    BY <1>2, <1>6 DEF Untouched
  <2>4. Sound(Effective(y, << >>, r), t, W, clean)
    BY <1>2, <2>1, <2>2, <2>3, GetsSound
  <2>5. /\ y.batched = x.batched /\ y.fcc = x.fcc /\ y.snapshot = x.snapshot
        /\ y.pending = x.pending /\ y.since = x.since
    BY <1>2, <2>1 DEF Gets, Alike, Untouched
  <2>6. Served(y, << >>, r, sh, t, W, clean)
    BY <1>4, <2>4, <2>5 DEF Served
  <2> QED
    BY <2>6 DEF y
<1> QED
  BY <1>5, <1>6

\* The packets that have yet to arrive.
ToCome == {p \in Packets : sent < p \/ p = late}

\* What the steps of a source keep of its viewers' streams.
Flow ==
    /\ InReach(sent, ToCome)
    /\ late # None => late <= sent
    /\ subscribers = << >> \/ ~shared => sring = EmptyRing
    /\ \A v \in Viewers :
          IF Attached(v) THEN Served(viewer[v], batch, sring, shared, sent, ToCome, ~lossy)
          ELSE ~viewer[v].replayed /\ ~viewer[v].skipped

LEMMA FlowMeans ==
    ASSUME SourceAssumption, SourceIInv, Flow
    PROVE  HandoffIntact
<1> SUFFICES ASSUME NEW v \in Viewers
             PROVE  /\ ~viewer[v].replayed
                    /\ ~lossy /\ viewer[v].skipped => viewer[v].hurt
  BY DEF HandoffIntact, NoReplay, NothingSkipped
<1> DEFINE x == viewer[v]
           w == Played(x, batch)
           E == Effective(x, batch, sring)
           z == [w EXCEPT !.ring = sring]
<1>1. x \in SessionType /\ batch \in Seq(Packets) /\ sring \in Drained
  BY DEF SourceIInv, Supplied
<1>2. w \in SessionType /\ (x.replayed => w.replayed) /\ (x.skipped => w.skipped)
  BY <1>1, PlayedTyped, PlayedKeeps
<1> HIDE DEF w
<1>3. z.replayed = w.replayed /\ z.skipped = w.skipped
  BY <1>2 DEF SessionType
<1>4. E = IF x.batched /\ ~x.failed THEN z ELSE x
  BY DEF Effective, w
<1>5. E.hurt = x.hurt /\ E.failed = x.failed
  BY <1>1, EffectiveIs
<1> HIDE DEF z, E
<1>6. (x.replayed => E.replayed) /\ (x.skipped => E.skipped)
  BY <1>2, <1>3, <1>4
<1>7. CASE Attached(v)
  <2>1. Sound(E, sent, ToCome, ~lossy)
    BY <1>7 DEF Flow, Served, E
  <2>2. ~E.replayed
    BY <2>1 DEF Sound, InFlow, Ordered
  <2>3. ~lossy /\ E.skipped => E.hurt
    BY <2>1 DEF Sound, InFlow, Whole
  <2> QED
    BY <1>5, <1>6, <2>2, <2>3
<1>8. CASE ~Attached(v)
  BY <1>8 DEF Flow
<1> QED
  BY <1>7, <1>8

LEMMA SourceInitFlow ==
    ASSUME SourceAssumption, SourceInit
    PROVE  Flow
<1>1. /\ sent = SentFirst - 1 /\ late = None /\ subscribers = << >> /\ sring = EmptyRing
      /\ viewer = [v \in Viewers |-> Nobody]
  BY DEF SourceInit
<1>2. \A v \in Viewers : ~Attached(v)
  BY <1>1 DEF Attached, Range
<1>3. InReach(sent, ToCome)
  <2>1. ASSUME NEW p \in Packets, sent < p PROVE sent < p + Window
    BY <1>1, <2>1, SourceConstants DEF RingAssumption, Packets
  <2>2. None \notin Packets
    BY SourceConstants
  <2> QED
    BY <1>1, <2>1, <2>2 DEF InReach, ToCome
<1>4. ~Nobody.replayed /\ ~Nobody.skipped
  BY DEF Nobody, Session
<1> QED
  BY <1>1, <1>2, <1>3, <1>4 DEF Flow

-----------------------------------------------------------------------------
(* The steps of a source.                                                  *)

LEMMA FlowConstants ==
    ASSUME SourceAssumption, SourceIInv
    PROVE  /\ Supplied /\ Registered /\ State \in Part
           /\ State.viewer = viewer /\ State.batch = batch
           /\ viewer \in [Viewers -> SessionType] /\ batch \in Seq(Packets) /\ sring \in Drained
           /\ shared \in BOOLEAN
           /\ sent \in Int /\ None <= sent /\ sent <= SentLast /\ sent \in (SentFirst - 1)..SentLast
           /\ late \in Packets \cup {None} /\ None \notin Packets
           /\ Window \in Nat \ {0} /\ Packets = SentFirst..SentLast
           /\ SentFirst \in Nat \ {0} /\ SentLast \in Nat
<1>1. Supplied /\ Registered
  BY DEF SourceIInv
<1>2. State \in Part /\ State.viewer = viewer /\ State.batch = batch
  BY <1>1, StateTyped
<1>3. SentFirst \in Nat \ {0} /\ SentLast \in Nat /\ None \notin Packets /\ Packets = SentFirst..SentLast
  BY SourceConstants DEF Packets
<1>4. sent \in (SentFirst - 1)..SentLast
  BY <1>1 DEF Supplied
<1>5. sent \in Int /\ None <= sent /\ sent <= SentLast
  BY <1>3, <1>4 DEF None
<1> QED
  BY <1>1, <1>2, <1>3, <1>4, <1>5 DEF Supplied, RingAssumption

\* The network alone moves.
LEMMA WireFlow ==
    ASSUME SourceAssumption, SourceIInv, Flow,
           UNCHANGED <<registry, shared, sring, batch, viewer>>,
           sent' \in Int, sent <= sent', ~lossy' => ~lossy /\ ToCome \subseteq ToCome',
           InReach(sent', ToCome'), late' # None => late' <= sent'
    PROVE  Flow'
<1>1. /\ viewer \in [Viewers -> SessionType] /\ batch \in Seq(Packets) /\ sring \in Drained
      /\ sent \in Int
  BY FlowConstants
<1>2. subscribers' = subscribers /\ viewer' = viewer /\ batch' = batch /\ sring' = sring /\ shared' = shared
  BY DEF registry
<1>3. ASSUME NEW v \in Viewers, Attached(v)
      PROVE  Served(viewer[v], batch, sring, shared, sent', ToCome', ~lossy')
  <2>1. Served(viewer[v], batch, sring, shared, sent, ToCome, ~lossy)
    BY <1>3 DEF Flow
  <2> QED
    BY <1>1, <2>1, ServedLater
<1> QED
  BY <1>2, <1>3 DEF Flow, Attached

LEMMA WireFlows ==
    ASSUME SourceAssumption, SourceIInv, Flow, Overtaken \/ Lost \/ ReceiveFails
    PROVE  Flow'
<1>1. /\ sent \in Int /\ late \in Packets \cup {None} /\ None \notin Packets /\ Window \in Nat \ {0}
      /\ Packets = SentFirst..SentLast /\ SentFirst \in Nat \ {0} /\ SentLast \in Nat
  BY FlowConstants
<1>2. UNCHANGED <<registry, shared, sring, batch, viewer>>
  BY DEF Overtaken, Lost, ReceiveFails
<1>3. InReach(sent, ToCome) /\ (late # None => late <= sent)
  BY DEF Flow
<1>4. CASE ReceiveFails
  <2>1. sent' = sent /\ late' = late /\ lossy' = lossy
    BY <1>4 DEF ReceiveFails, wire
  <2>2. ToCome' = ToCome
    BY <2>1 DEF ToCome
  <2> QED
    BY <1>1, <1>2, <1>3, <2>1, <2>2, WireFlow
<1>5. CASE Overtaken
  <2>1. sent < SentLast /\ late = None /\ sent' = sent + 1 /\ late' = sent + 1 /\ lossy' = lossy
    BY <1>5 DEF Overtaken
  <2>2. ToCome \subseteq ToCome' /\ InReach(sent', ToCome')
    BY <1>1, <2>1 DEF ToCome, InReach
  <2> QED
    BY <1>1, <1>2, <2>1, <2>2, WireFlow
<1>6. CASE Lost
  <2>1. /\ lossy' = TRUE
        /\ \/ late' = None /\ sent' = sent
           \/ InWindow(sent + 1) /\ sent' = sent + 1 /\ late' = late
    BY <1>6 DEF Lost
  <2>2. InReach(sent', ToCome') /\ (late' # None => late' <= sent')
    BY <1>1, <1>3, <2>1 DEF ToCome, InReach, InWindow
  <2> QED
    BY <1>1, <1>2, <2>1, <2>2, WireFlow
<1> QED
  BY <1>4, <1>5, <1>6

\* Something happens to one viewer only.
LEMMA OneViewerFlow ==
    ASSUME SourceAssumption, SourceIInv, Flow, NEW v \in Viewers, Attached(v),
           UNCHANGED <<registry, shared, sring, batch, wire>>, NEW y,
           viewer' = [viewer EXCEPT ![v] = y],
           Served(y, batch, sring, shared, sent, ToCome, ~lossy)
    PROVE  Flow'
<1>1. /\ subscribers' = subscribers /\ batch' = batch /\ sring' = sring /\ shared' = shared
      /\ sent' = sent /\ late' = late /\ lossy' = lossy
  BY DEF registry, wire
<1>2. ToCome' = ToCome
  BY <1>1 DEF ToCome
<1>3. \A w \in Viewers : viewer'[w] = IF w = v THEN y ELSE viewer[w]
  BY FlowConstants
<1> QED
  BY <1>1, <1>2, <1>3 DEF Flow, Attached

LEMMA ViewerFlows ==
    ASSUME SourceAssumption, SourceIInv, Flow, NEW v \in Viewers, FccActive(v) \/ SnapshotFallback(v)
    PROVE  Flow'
<1> DEFINE x == viewer[v]
<1>1. x \in SessionType /\ batch \in Seq(Packets) /\ sring \in Drained /\ sent \in Int
  BY FlowConstants
<1>2. Attached(v) /\ UNCHANGED <<registry, shared, sring, batch, wire>>
  BY DEF FccActive, SnapshotFallback
<1>3. Served(x, batch, sring, shared, sent, ToCome, ~lossy)
  BY <1>2 DEF Flow
<1>4. ASSUME NEW y, viewer' = [viewer EXCEPT ![v] = y], ~x.batched, ~y.batched, y.since = x.since,
             Sound(y, sent, ToCome, ~lossy)
      PROVE  Flow'
  <2>1. Effective(y, batch, sring) = y
    BY <1>4 DEF Effective
  <2>2. Served(y, batch, sring, shared, sent, ToCome, ~lossy)
    BY <1>3, <1>4, <2>1 DEF Served
  <2> QED
    BY <1>2, <1>4, <2>2, OneViewerFlow
<1>5. ~x.batched => Sound(x, sent, ToCome, ~lossy)
  BY <1>3 DEF Served, Effective
<1>6. CASE SnapshotFallback(v)
  <2> DEFINE y == [x EXCEPT !.snapshot = FALSE]
  <2>1. x.snapshot /\ viewer' = [viewer EXCEPT ![v] = y]
    BY <1>6 DEF SnapshotFallback
  <2>2. ~x.batched
    BY <1>3, <2>1 DEF Served
  <2>3. Sound(y, sent, ToCome, ~lossy)
    BY <1>1, <1>5, <2>1, <2>2, FallbackSound
  <2>4. y.batched = x.batched /\ y.since = x.since
    BY <1>1 DEF SessionType
  <2> HIDE DEF x, y
  <2> QED
    BY <1>4, <2>1, <2>2, <2>3, <2>4
<1>7. CASE FccActive(v)
  <2> DEFINE b == Head(x.pending) % SeqMod
             q == [EmptyRing EXCEPT !.phase = 2, !.base = b]
             y == [x EXCEPT !.fcc = "ACTIVE"]
             z == [x EXCEPT !.fcc = "ACTIVE", !.ring = q]
  <2>1. /\ x.fcc = "REQUESTED"
        /\ \/ x.pending # << >> /\ viewer' = [viewer EXCEPT ![v] = z]
           \/ viewer' = [viewer EXCEPT ![v] = y]
    BY <1>7 DEF FccActive
  <2>2. ~x.batched /\ Sound(x, sent, ToCome, ~lossy)
    BY <1>3, <1>5, <2>1 DEF Served
  <2>3. /\ y.batched = x.batched /\ y.since = x.since /\ z.batched = x.batched /\ z.since = x.since
    BY <1>1 DEF SessionType
  <2>4. SourceIInv'
    BY <1>7, ViewerSteps
  <2>5. viewer'[v] \in SessionType
    BY <2>4 DEF SourceIInv, Supplied
  <2>6. viewer \in [Viewers -> SessionType]
    BY FlowConstants
  <2> HIDE DEF x, q
  <2>7. CASE viewer' = [viewer EXCEPT ![v] = z] /\ x.pending # << >>
    <3>1. viewer'[v] = z
      BY <2>6, <2>7
    <3>2. z \in SessionType
      BY <2>5, <3>1
    <3> HIDE DEF z
    <3>3. z = [x EXCEPT !.fcc = "ACTIVE", !.ring = q] /\ q = [EmptyRing EXCEPT !.phase = 2, !.base = Head(x.pending) % SeqMod]
      BY DEF z, q, b
    <3>4. Sound(z, sent, ToCome, ~lossy)
      BY <1>1, <2>1, <2>2, <2>7, <3>2, <3>3, ActiveSound
    <3> QED
      BY <1>4, <2>2, <2>3, <2>7, <3>4
  <2>8. CASE viewer' = [viewer EXCEPT ![v] = y]
    <3>1. viewer'[v] = y
      BY <2>6, <2>8
    <3>2. y \in SessionType
      BY <2>5, <3>1
    <3>3. y = [x EXCEPT !.fcc = "ACTIVE", !.ring = x.ring]
      BY <1>1 DEF SessionType
    <3> HIDE DEF y
    <3>4. Sound(y, sent, ToCome, ~lossy)
      BY <1>1, <2>1, <2>2, <3>2, <3>3, ActiveSound
    <3> QED
      BY <1>4, <2>2, <2>3, <2>8, <3>4
  <2> QED
    BY <2>1, <2>7, <2>8
<1> QED
  BY <1>6, <1>7

\* Who is not subscribed is left alone when the batch is handed out.
LEMMA FlushAll ==
    ASSUME SourceAssumption, SourceIInv, Flow, NEW fail, NEW v \in Viewers
    PROVE  LET f == FlushBatch(State, fail)
           IN  /\ Attached(v) => Served(f.viewer[v], << >>, sring, shared, sent, ToCome, ~lossy)
               /\ ~Attached(v) => f.viewer[v] = viewer[v] /\ ~viewer[v].replayed /\ ~viewer[v].skipped
<1>1. State \in Part /\ State.viewer = viewer /\ State.batch = batch /\ sring \in Drained
  BY FlowConstants
<1>2. ASSUME Attached(v)
      PROVE  Served(FlushBatch(State, fail).viewer[v], << >>, sring, shared, sent, ToCome, ~lossy)
  <2>1. Served(State.viewer[v], State.batch, sring, shared, sent, ToCome, ~lossy)
    BY <1>1, <1>2 DEF Flow
  <2> QED
    BY <1>1, <1>2, <2>1, FlushServed
<1>3. ASSUME ~Attached(v)
      PROVE  FlushBatch(State, fail).viewer[v] = viewer[v] /\ ~viewer[v].replayed /\ ~viewer[v].skipped
  BY <1>1, <1>3, FlushGets DEF Flow
<1> QED
  BY <1>2, <1>3

LEMMA FlushFlow ==
    ASSUME SourceAssumption, SourceIInv, Flow, NEW v, NEW fail, TickFlushes(v, fail)
    PROVE  Flow'
<1> DEFINE f == FlushBatch(State, fail)
<1>1. viewer' = f.viewer /\ batch' = f.batch /\ UNCHANGED <<registry, shared, sring, wire>>
  BY DEF TickFlushes, Becomes
<1>2. f.batch = << >>
  BY FlowConstants, BatchFlushed
<1>3. \A w \in Viewers :
         /\ Attached(w) => Served(f.viewer[w], << >>, sring, shared, sent, ToCome, ~lossy)
         /\ ~Attached(w) => f.viewer[w] = viewer[w] /\ ~viewer[w].replayed /\ ~viewer[w].skipped
  BY FlushAll
<1> HIDE DEF f
<1>4. /\ subscribers' = subscribers /\ sring' = sring /\ shared' = shared
      /\ sent' = sent /\ late' = late /\ lossy' = lossy
  BY <1>1 DEF registry, wire
<1>5. ToCome' = ToCome
  BY <1>4 DEF ToCome
<1> QED
  BY <1>1, <1>2, <1>3, <1>4, <1>5 DEF Flow, Attached

LEMMA DetachFlow ==
    ASSUME SourceAssumption, SourceIInv, Flow, NEW v \in Viewers, NEW m \in Part, Detach(v, m),
           UNCHANGED wire,
           \A w \in Viewers :
              /\ Attached(w) => Served(m.viewer[w], m.batch, sring, shared, sent, ToCome, ~lossy)
              /\ ~Attached(w) => ~m.viewer[w].replayed /\ ~m.viewer[w].skipped
    PROVE  Flow'
<1> DEFINE rest == Without(subscribers, {v})
           ww == [m.viewer EXCEPT ![v] = Nobody]
<1>1. /\ subscribers' = rest /\ viewer' = ww
      /\ \/ rest # << >> /\ batch' = m.batch /\ shared' = shared /\ sring' = sring
         \/ rest = << >> /\ sring' = EmptyRing
  <2>1. m.viewer \in [Viewers -> SessionType]
    BY PartFields
  <2>2. [m EXCEPT !.viewer[v] = Nobody].viewer = ww /\ [m EXCEPT !.viewer[v] = Nobody].batch = m.batch
    BY PartFields
  <2> QED
    BY <2>2 DEF Detach, Becomes
<1>2. rest \in Seq(Viewers) /\ Range(rest) = Range(subscribers) \ {v}
  BY FlowConstants, WithoutIs DEF Registered
<1>3. rest = << >> => Range(rest) = {}
  BY <1>2, RangeIn
<1> HIDE DEF rest
<1>4. sent' = sent /\ late' = late /\ lossy' = lossy
  BY DEF wire
<1>5. ToCome' = ToCome
  BY <1>4 DEF ToCome
<1>6. ~Nobody.replayed /\ ~Nobody.skipped
  BY DEF Nobody, Session
<1>7. \A w \in Viewers : viewer'[w] = IF w = v THEN Nobody ELSE m.viewer[w]
  BY <1>1, PartFields
<1>8. \A w \in Viewers : Attached(w)' <=> (Attached(w) /\ w # v)
  BY <1>1, <1>2 DEF Attached
<1>9. CASE rest # << >> /\ batch' = m.batch /\ shared' = shared /\ sring' = sring
  <2>1. subscribers' = << >> \/ ~shared' => sring' = EmptyRing
    BY <1>1, <1>9 DEF Flow
  <2>2. ASSUME NEW w \in Viewers
        PROVE  IF Attached(w)' THEN Served(viewer'[w], batch', sring', shared', sent', ToCome', ~lossy')
               ELSE ~viewer'[w].replayed /\ ~viewer'[w].skipped
    <3>1. CASE w = v
      BY <1>6, <1>7, <1>8, <3>1
    <3>2. CASE w # v
      BY <1>4, <1>5, <1>7, <1>8, <1>9, <3>2
    <3> QED
      BY <3>1, <3>2
  <2> QED
    BY <1>4, <1>5, <2>1, <2>2 DEF Flow
<1>10. CASE rest = << >> /\ sring' = EmptyRing
  <2>1. \A w \in Viewers : ~Attached(w)'
    BY <1>1, <1>3, <1>10 DEF Attached
  <2>2. ASSUME NEW w \in Viewers PROVE ~viewer'[w].replayed /\ ~viewer'[w].skipped
    <3>1. w = v \/ ~Attached(w)
      BY <1>8, <2>1
    <3> QED
      BY <1>6, <1>7, <3>1
  <2> QED
    BY <1>4, <1>5, <1>10, <2>1, <2>2 DEF Flow
<1> QED
  BY <1>1, <1>9, <1>10

LEMMA DepartureFlows ==
    ASSUME SourceAssumption, SourceIInv, Flow, NEW v \in Viewers, NEW fail,
           Leave(v) \/ TickDetaches(v) \/ TickTimesOut(v, fail)
    PROVE  Flow'
<1>1. State \in Part /\ State.viewer = viewer /\ State.batch = batch
  BY FlowConstants
<1>2. CASE Leave(v) \/ TickDetaches(v)
  <2>1. Detach(v, State) /\ UNCHANGED wire
    BY <1>2 DEF Leave, TickDetaches
  <2>2. \A w \in Viewers :
           /\ Attached(w) => Served(State.viewer[w], State.batch, sring, shared, sent, ToCome, ~lossy)
           /\ ~Attached(w) => ~State.viewer[w].replayed /\ ~State.viewer[w].skipped
    BY <1>1 DEF Flow
  <2> QED
    BY <1>1, <2>1, <2>2, DetachFlow
<1>3. CASE TickTimesOut(v, fail)
  <2> DEFINE f == FlushBatch(State, fail)
  <2>1. Detach(v, f) /\ UNCHANGED wire
    BY <1>3 DEF TickTimesOut
  <2>2. f \in Part /\ f.batch = << >>
    BY <1>1, BatchFlushed
  <2>3. \A w \in Viewers :
           /\ Attached(w) => Served(f.viewer[w], f.batch, sring, shared, sent, ToCome, ~lossy)
           /\ ~Attached(w) => ~f.viewer[w].replayed /\ ~f.viewer[w].skipped
    BY <2>2, FlushAll
  <2> HIDE DEF f
  <2> QED
    BY <2>1, <2>2, <2>3, DetachFlow
<1> QED
  BY <1>2, <1>3

\* The source's ring begins somewhere.
LEMMA SourceReady ==
    ASSUME SourceAssumption, SourceIInv, Flow
    PROVE  /\ \E b \in Nat : RingFrom(sring, b, sent)
           /\ sring.phase # 2 => Together(Buffered(sring))
<1>1. sent \in Int /\ None <= sent /\ subscribers \in Seq(Viewers)
  BY FlowConstants DEF Registered
<1>2. CASE subscribers = << >> \/ ~shared
  <2>1. sring = EmptyRing
    BY <1>2 DEF Flow
  <2>2. Buffered(sring) = {} /\ RingFrom(sring, 0, sent) /\ 0 \in Nat
    BY <1>1, <2>1, EmptyFrom
  <2> QED
    BY <2>2 DEF Together
<1>3. CASE subscribers # << >> /\ shared
  <2> DEFINE u == Head(subscribers)
  <2>1. u \in Range(subscribers) /\ Range(subscribers) \subseteq Viewers
    BY <1>1, <1>3, RangeIn
  <2>2. Attached(u) /\ u \in Viewers
    BY <2>1 DEF Attached
  <2> HIDE DEF u
  <2> DEFINE w == Watcher(viewer[u].since, sring)
  <2>3. InFlow(w, sent, ToCome, ~lossy)
    BY <1>3, <2>2 DEF Flow, Served
  <2>4. w.ring = sring /\ Range(w.pending) = {}
    BY DEF Watcher, Range
  <2> HIDE DEF w
  <2>5. \E b \in Nat : RingFrom(w.ring, b, sent)
    BY <2>3 DEF InFlow
  <2>6. w.ring.phase # 2 => Together(Buffered(w.ring) \cup Range(w.pending))
    BY <2>3 DEF InFlow
  <2>7. Buffered(w.ring) \cup Range(w.pending) = Buffered(sring)
    BY <2>4
  <2> QED
    BY <2>4, <2>5, <2>6, <2>7
<1> QED
  BY <1>2, <1>3

LEMMA SessionJoinFlow ==
    ASSUME SourceAssumption, SourceIInv, Flow, NEW v \in Viewers,
           NEW how \in {"none", "REQUESTED", "ACTIVE"}, NEW snapshot \in BOOLEAN, NEW fail,
           SessionJoin(v, how, snapshot, fail)
    PROVE  Flow'
<1> DEFINE output == shared \/ subscribers = << >>
           role == output /\ how = "none" /\ ~snapshot
           f == FlushBatch(State, fail)
           x == Session(how, snapshot, role)
<1>1. /\ sent \in Int /\ None <= sent /\ sring \in Drained /\ shared \in BOOLEAN
      /\ subscribers \in Seq(Viewers) /\ State \in Part
  BY FlowConstants DEF Registered
<1>2. f \in Part /\ f.batch = << >>
  BY <1>1, BatchFlushed
<1>3. /\ ~Attached(v) /\ shared' = output /\ subscribers' = <<v>> \o subscribers
      /\ sring' = sring /\ sent' = sent /\ late' = late /\ lossy' = lossy
      /\ viewer' = [f.viewer EXCEPT ![v] = x] /\ batch' = << >>
  <2>1. [f EXCEPT !.viewer[v] = x].viewer = [f.viewer EXCEPT ![v] = x]
        /\ [f EXCEPT !.viewer[v] = x].batch = f.batch
    BY <1>2, PartFields
  <2>2. /\ ~Attached(v) /\ shared' = output /\ subscribers' = <<v>> \o subscribers
        /\ UNCHANGED <<sring, wire>> /\ Becomes([f EXCEPT !.viewer[v] = x])
    BY DEF SessionJoin
  <2> QED
    BY <1>2, <2>1, <2>2 DEF wire, Becomes
<1>4. ToCome' = ToCome
  BY <1>3 DEF ToCome
<1>5. Range(subscribers') = {v} \cup Range(subscribers) /\ subscribers' # << >>
  <2>1. Range(subscribers') = {v} \cup Range(subscribers)
    BY <1>1, <1>3, PushIs
  <2>2. subscribers' \in Seq(Viewers)
    BY <1>1, <1>3
  <2> QED
    BY <2>1, <2>2, RangeIn
<1>6. \A w \in Viewers : Attached(w)' <=> (w = v \/ Attached(w))
  BY <1>5 DEF Attached
<1>7. \A w \in Viewers : viewer'[w] = IF w = v THEN x ELSE f.viewer[w]
  BY <1>2, <1>3, PartFields
<1>8. \A w \in Viewers :
         /\ Attached(w) => Served(f.viewer[w], << >>, sring, shared, sent, ToCome, ~lossy)
         /\ ~Attached(w) => f.viewer[w] = viewer[w] /\ ~viewer[w].replayed /\ ~viewer[w].skipped
  BY FlushAll
<1>9. \A w \in Viewers : Attached(w) => (output <=> shared)
  BY DEF Attached, Range
<1>10. Served(x, << >>, sring, output, sent, ToCome, ~lossy)
  <2>1. role \in BOOLEAN /\ output \in BOOLEAN
    BY <1>1
  <2>2. x \in SessionType /\ x.batched = role
    BY <1>1, <2>1, SessionTyped
  <2>3. /\ ~x.failed /\ x.fcc = how /\ x.snapshot = snapshot /\ x.pending = << >> /\ x.ring = EmptyRing
        /\ x.since = sent /\ x.last = None /\ ~x.replayed /\ ~x.skipped
    BY DEF Session
  <2>4. \A p \in Packets : sent < p => p \in ToCome
    BY DEF ToCome
  <2>5. /\ RingFrom(EmptyRing, 0, sent) /\ 0 \in Nat /\ Together(Buffered(EmptyRing))
    BY <1>1, EmptyFrom DEF Together
  <2>6. (\E b \in Nat : RingFrom(sring, b, sent)) /\ (sring.phase # 2 => Together(Buffered(sring)))
    BY SourceReady
  <2> HIDE DEF x, role, output
  <2>7. InFlow(Watcher(sent, sring), sent, ToCome, ~lossy)
    <3> DEFINE w == Watcher(sent, sring)
    <3>1. w \in SessionType
      BY <1>1, WatcherTyped
    <3>2. /\ w.since = sent /\ ~w.failed /\ w.pending = << >> /\ w.last = None /\ ~w.replayed
          /\ ~w.skipped /\ w.ring = sring /\ w.fcc # "REQUESTED"
      BY DEF Watcher
    <3> HIDE DEF w
    <3>3. Sound(w, sent, ToCome, ~lossy)
      BY <1>1, <2>4, <2>6, <3>1, <3>2, NewSound
    <3> QED
      BY <3>2, <3>3 DEF Sound, w
  <2>8. Sound(Effective(x, << >>, sring), sent, ToCome, ~lossy)
    <3>1. CASE role
      <4> DEFINE y == [x EXCEPT !.ring = sring]
      <4>1. Played(x, << >>) = x
        BY <2>2, PlayedNothing
      <4>2. Effective(x, << >>, sring) = y
        BY <2>2, <2>3, <3>1, <4>1 DEF Effective
      <4>3. /\ y \in SessionType /\ y.since = sent /\ ~y.failed /\ y.pending = << >> /\ y.last = None
            /\ ~y.replayed /\ ~y.skipped /\ y.ring = sring /\ y.fcc = "none"
        BY <1>1, <2>2, <2>3, <3>1 DEF SessionType, role
      <4> HIDE DEF y
      <4>4. Sound(y, sent, ToCome, ~lossy)
        BY <1>1, <2>4, <2>6, <4>3, NewSound
      <4> QED
        BY <4>2, <4>4
    <3>2. CASE ~role
      <4>1. Effective(x, << >>, sring) = x
        BY <2>2, <3>2 DEF Effective
      <4>2. Sound(x, sent, ToCome, ~lossy)
        BY <1>1, <2>2, <2>3, <2>4, <2>5, NewSound
      <4> QED
        BY <4>1, <4>2
    <3> QED
      BY <2>1, <3>1, <3>2
  <2>9. role => output /\ how = "none" /\ ~snapshot
    BY DEF role
  <2> QED
    BY <2>2, <2>3, <2>7, <2>8, <2>9 DEF Served
<1>11. subscribers' = << >> \/ ~shared' => sring' = EmptyRing
  BY <1>3, <1>5 DEF Flow
<1>12. ASSUME NEW w \in Viewers
       PROVE  IF Attached(w)' THEN Served(viewer'[w], batch', sring', shared', sent', ToCome', ~lossy')
              ELSE ~viewer'[w].replayed /\ ~viewer'[w].skipped
  <2> HIDE DEF x, f, output
  <2>1. CASE w = v
    BY <1>3, <1>4, <1>6, <1>7, <1>10, <2>1
  <2>2. CASE w # v /\ Attached(w)
    <3>1. Served(f.viewer[w], << >>, sring, shared', sent, ToCome, ~lossy)
      <4>1. shared' = shared
        BY <1>1, <1>3, <1>9, <2>2 DEF output
      <4> QED
        BY <1>8, <2>2, <4>1
    <3> QED
      BY <1>3, <1>4, <1>6, <1>7, <2>2, <3>1
  <2>3. CASE w # v /\ ~Attached(w)
    BY <1>6, <1>7, <1>8, <2>3
  <2> QED
    BY <2>1, <2>2, <2>3
<1> QED
  BY <1>3, <1>4, <1>11, <1>12 DEF Flow

\* An FEC packet, with t the newest packet sent.
LEMMA FecSound ==
    ASSUME SourceAssumption, NEW x \in SessionType, NEW t \in Int, t <= SentLast, NEW W, NEW clean,
           Sound(x, t, W, clean), InReach(t, W), NEW lacks
    PROVE  Sound(DeliverFec(x, lacks), t, W, clean)
<1> DEFINE e == << >>
           p == x.pending
           y == [x EXCEPT !.pending = e]
<1>1. /\ SentFirst \in Nat \ {0} /\ SentLast \in Nat /\ SentFirst \in Packets
      /\ Packets = SentFirst..SentLast
  BY SourceConstants DEF Packets
<1>2. p \in Seq(Packets)
  BY DEF SessionType
<1>3. \/ DeliverFec(x, lacks) = x
      \/ ~x.failed /\ x.fcc # "REQUESTED" /\ DeliverFec(x, lacks) = Feed(y, p)
  BY DEF DeliverFec
<1>4. CASE ~x.failed /\ x.fcc # "REQUESTED" /\ DeliverFec(x, lacks) = Feed(y, p)
  <2>1. InFlow(x, t, W, clean)
    BY <1>4 DEF Sound
  <2>2. CASE p = e
    <3>1. y = x
      <4> HIDE DEF e
      <4> QED
        BY <2>2 DEF SessionType
    <3>2. Feed(x, e) = x
      BY <1>1, FeedSingle
    <3> HIDE DEF y, p, e
    <3> QED
      BY <1>4, <2>2, <3>1, <3>2
  <2>3. CASE p # e
    <3>1. \A k \in 1..Len(p) : p[k] \in Packets /\ p[k] <= t
      BY <1>2, <2>1 DEF InFlow
    <3>2. 1 \in 1..Len(p)
      BY <1>2, <2>3
    <3>3. t \in SentFirst..SentLast /\ \A k \in 1..Len(p) : p[k] \in SentFirst..t
      BY <1>1, <3>1, <3>2
    <3>4. p \in Seq(SentFirst..t)
      BY ONLY <1>2, <3>3, SeqOf
    <3>5. /\ x.ring.phase # 2 => Together(Buffered(x.ring) \cup Range(p))
          /\ \A k, l \in 1..Len(p) : k < l => p[k] < p[l] + Window
      BY <2>1 DEF InFlow
    <3>6. W \cup Range(x.pending) \subseteq W \cup Range(p)
      OBVIOUS
    <3> HIDE DEF p
    <3>7. InFlow(Feed(y, p), t, W, clean) /\ Untouched(y, Feed(y, p))
      BY <1>4, <2>1, <3>3, <3>4, <3>5, <3>6, FeedSound
    <3>8. ~y.failed
      BY <1>4 DEF SessionType
    <3> HIDE DEF y
    <3> QED
      BY <1>4, <3>7, <3>8 DEF Sound, Untouched
  <2> QED
    BY <2>2, <2>3
<1> QED
  BY <1>3, <1>4

\* A viewer goes on with the source's window, or has no memory for it.
LEMMA TakeOverSound ==
    ASSUME SourceAssumption, sring \in Drained, NEW x \in SessionType, x.batched, NEW lacks \in BOOLEAN,
           NEW t, NEW W, NEW clean, Sound(Effective(x, << >>, sring), t, W, clean)
    PROVE  LET z == TakeOverRing(x, lacks)
           IN  z \in SessionType /\ ~z.batched /\ Sound(z, t, W, clean)
<1> DEFINE z == [x EXCEPT !.batched = FALSE, !.failed = @ \/ lacks, !.hurt = @ \/ lacks, !.ring = sring]
           E == [x EXCEPT !.ring = sring]
           F == [E EXCEPT !.batched = FALSE]
<1>1. TakeOverRing(x, lacks) = z
  BY DEF TakeOverRing
<1>2. z \in SessionType /\ ~z.batched /\ (x.failed => z.hurt = (x.hurt \/ lacks))
      /\ z.failed = (x.failed \/ lacks) /\ (lacks => z.hurt) /\ z.replayed = x.replayed
  BY DEF SessionType
<1>3. x.failed => Effective(x, << >>, sring) = x
  BY DEF Effective
<1>4. ~x.failed => Effective(x, << >>, sring) = E
  BY PlayedNothing DEF Effective
<1>5. E \in SessionType /\ E.failed = x.failed /\ E.replayed = x.replayed
  BY DEF SessionType
<1>6. ASSUME ~x.failed, ~lacks PROVE z = F
  BY <1>6 DEF SessionType
<1> HIDE DEF z, E
<1>7. CASE x.failed
  BY <1>1, <1>2, <1>3, <1>7 DEF Sound
<1>8. CASE ~x.failed /\ lacks
  <2>1. ~E.replayed
    BY <1>4, <1>5, <1>8 DEF Sound, InFlow, Ordered
  <2> QED
    BY <1>1, <1>2, <1>5, <1>8, <2>1 DEF Sound
<1>9. CASE ~x.failed /\ ~lacks
  <2>1. Sound(F, t, W, clean)
    BY <1>4, <1>5, <1>9, RoleSound
  <2> QED
    BY <1>1, <1>2, <1>6, <1>9, <2>1
<1> QED
  BY <1>7, <1>8, <1>9

LEMMA FecFlow ==
    ASSUME SourceAssumption, SourceIInv, Flow, NEW fail, ReceiveFec(fail)
    PROVE  Flow'
<1> DEFINE f == FlushBatch(State, fail)
           t == [v \in Viewers |-> IF f.viewer[v].batched THEN TakeOverRing(f.viewer[v], v \in fail)
                                   ELSE f.viewer[v]]
<1>1. /\ State \in Part /\ State.viewer = viewer /\ sring \in Drained
      /\ sent \in Int /\ sent <= SentLast
  BY FlowConstants
<1>2. /\ viewer' = [v \in Viewers |->
                       IF Attached(v) THEN DeliverFec(t[v], v \in fail /\ refs > 1) ELSE t[v]]
      /\ batch' = << >> /\ shared' = FALSE /\ sring' = EmptyRing /\ subscribers' = subscribers
      /\ UNCHANGED wire
  BY DEF ReceiveFec
<1>3. sent' = sent /\ late' = late /\ lossy' = lossy
  BY <1>2 DEF wire
<1>4. ToCome' = ToCome
  BY <1>3 DEF ToCome
<1>5. f \in Part /\ f.viewer \in [Viewers -> SessionType]
  BY <1>1, BatchFlushed, PartFields
<1>6. \A v \in Viewers :
         /\ Attached(v) => Served(f.viewer[v], << >>, sring, shared, sent, ToCome, ~lossy)
         /\ ~Attached(v) => f.viewer[v] = viewer[v] /\ ~viewer[v].replayed /\ ~viewer[v].skipped
  BY FlushAll
<1> HIDE DEF f
<1>7. SourceIInv'
  BY FecStep
<1>8. InReach(sent, ToCome) /\ (late # None => late <= sent)
  BY DEF Flow
<1>9. ASSUME NEW v \in Viewers, Attached(v)
      PROVE  Served(viewer'[v], << >>, EmptyRing, FALSE, sent, ToCome, ~lossy)
  <2> DEFINE x == f.viewer[v]
             z == t[v]
             l == v \in fail
             y == viewer'[v]
  <2>1. x \in SessionType /\ Sound(Effective(x, << >>, sring), sent, ToCome, ~lossy)
    BY <1>5, <1>6, <1>9 DEF Served
  <2>2. z = IF x.batched THEN TakeOverRing(x, l) ELSE x
    OBVIOUS
  <2>3. l \in BOOLEAN
    OBVIOUS
  <2>4. y = DeliverFec(z, v \in fail /\ refs > 1)
    BY <1>2, <1>9
  <2> HIDE DEF x, z, l, t
  <2>5. z \in SessionType /\ ~z.batched /\ Sound(z, sent, ToCome, ~lossy)
    <3>1. CASE x.batched
      BY <1>1, <2>1, <2>2, <2>3, <3>1, TakeOverSound
    <3>2. CASE ~x.batched
      BY <2>1, <2>2, <3>2 DEF Effective
    <3> QED
      BY <3>1, <3>2
  <2>6. Sound(y, sent, ToCome, ~lossy)
    <3> HIDE DEF y
    <3> QED
      BY <1>1, <1>8, <2>4, <2>5, FecSound
  <2>7. ~y.batched
    <3> HIDE DEF y
    <3> QED
      BY <2>4, <2>5, DeliverFecTyped
  <2> HIDE DEF y
  <2>8. Effective(y, << >>, EmptyRing) = y
    BY <2>7 DEF Effective
  <2>9. Served(y, << >>, EmptyRing, FALSE, sent, ToCome, ~lossy)
    BY <2>6, <2>7, <2>8 DEF Served
  <2> QED
    BY <2>9 DEF y
<1>10. ASSUME NEW v \in Viewers, ~Attached(v)
       PROVE  ~viewer'[v].replayed /\ ~viewer'[v].skipped
  <2> DEFINE x == f.viewer[v]
             l == v \in fail
             z == TakeOverRing(x, l)
  <2>1. x \in SessionType /\ ~x.replayed /\ ~x.skipped
    BY <1>5, <1>6, <1>10
  <2>2. viewer'[v] = IF x.batched THEN z ELSE x
    BY <1>2, <1>10
  <2> HIDE DEF x, l
  <2>3. z.replayed = x.replayed /\ z.skipped = x.skipped
    BY <2>1 DEF TakeOverRing, SessionType
  <2> QED
    BY <2>1, <2>2, <2>3
<1> QED
  BY <1>2, <1>3, <1>4, <1>8, <1>9, <1>10 DEF Flow, Attached

\* A viewer that gets every packet.
LEMMA PrivateSound ==
    ASSUME SourceAssumption, SourceIInv, Flow, NEW v \in Viewers, Attached(v), ~viewer[v].batched,
           NEW t \in SentFirst..SentLast, sent <= t, NEW W, InReach(t, W), NEW i \in SentFirst..t,
           ToCome \subseteq W \cup {i}, t < i + Window, CollectedTogether(i), NEW fail
    PROVE  LET y == DeliverPrivate(viewer, i, fail)[v]
           IN  y \in SessionType /\ Sound(y, t, W, ~lossy) /\ y.since = viewer[v].since /\ ~y.batched
<1> DEFINE x == viewer[v]
           y == DeliverPrivate(viewer, i, fail)[v]
           z == [x EXCEPT !.hurt = TRUE]
<1>1. /\ viewer \in [Viewers -> SessionType] /\ x \in SessionType /\ batch \in Seq(Packets)
      /\ sring \in Drained /\ sent \in Int /\ Packets = SentFirst..SentLast /\ SentFirst \in Nat
      /\ SentLast \in Nat /\ Registered
  BY FlowConstants
<1>2. t \in Int /\ i \in Packets
  BY <1>1
<1>3. v \in Range(packetSubs)
  BY <1>1 DEF Registered, Attached
<1>4. /\ y = z \/ y = DeliverPacket(x, i)
      /\ y \in SessionType /\ y.batched = x.batched
  <2>1. y = z \/ y = DeliverPacket(x, i)
    BY <1>3 DEF DeliverPrivate
  <2>2. y \in SessionType /\ y.batched = x.batched
    BY <1>1, <1>2, DeliverPrivateTyped DEF SameRoles
  <2> QED
    BY <2>1, <2>2
<1>5. Sound(x, sent, ToCome, ~lossy)
  BY DEF Flow, Served, Effective
<1>6. Sound(x, t, ToCome, ~lossy)
  BY <1>1, <1>2, <1>5, SoundLater
<1>7. NearTo(x, i)
  BY DEF CollectedTogether, NearTo
<1>8. z.since = x.since
  BY <1>1 DEF SessionType
<1> HIDE DEF x, y
<1>9. Sound(z, t, W, ~lossy)
  BY <1>1, <1>2, <1>6, LackSound
<1>10. Sound(DeliverPacket(x, i), t, W, ~lossy) /\ DeliverPacket(x, i).since = x.since
  BY <1>1, <1>6, <1>7, DeliverSound
<1> HIDE DEF z
<1>11. y \in SessionType /\ Sound(y, t, W, ~lossy) /\ y.since = x.since /\ y.batched = x.batched
  BY <1>4, <1>8, <1>9, <1>10
<1>12. ~x.batched
  BY DEF x
<1> QED
  BY <1>11, <1>12 DEF y, x

\* The source's ring, for one that joined when v did.
LEMMA SharedSound ==
    ASSUME SourceAssumption, SourceIInv, Flow, NEW v \in Viewers, Attached(v), shared,
           NEW t \in SentFirst..SentLast, sent <= t, NEW W, InReach(t, W), NEW i \in SentFirst..t,
           ToCome \subseteq W \cup {i}, t < i + Window, CollectedTogether(i)
    PROVE  /\ Served(viewer[v], batch, sring, shared, t, ToCome, ~lossy)
           /\ InFlow(Watcher(viewer[v].since, Emptied(InsertPacket(sring, i))), t, W, ~lossy)
           /\ sring.phase = 1 => \A k \in Buffered(sring) : i < k + Window
<1>1. /\ viewer[v] \in SessionType /\ batch \in Seq(Packets) /\ sring \in Drained /\ sent \in Int
      /\ SentFirst \in Nat /\ SentLast \in Nat
  BY FlowConstants
<1>2. t \in Int /\ viewer[v].since \in Int
  BY <1>1 DEF SessionType
<1>3. Served(viewer[v], batch, sring, shared, sent, ToCome, ~lossy)
  BY DEF Flow
<1>4. Served(viewer[v], batch, sring, shared, t, ToCome, ~lossy)
  BY <1>1, <1>2, <1>3, ServedLater
<1>5. InFlow(Watcher(viewer[v].since, sring), t, ToCome, ~lossy)
  BY <1>4 DEF Served
<1>6. sring.phase = 1 => \A k \in Buffered(sring) : i < k + Window
  BY DEF CollectedTogether
<1>7. InFlow(Watcher(viewer[v].since, Emptied(InsertPacket(sring, i))), t, W, ~lossy)
  BY <1>1, <1>2, <1>5, <1>6, WatcherSound
<1> QED
  BY <1>4, <1>6, <1>7

LEMMA RoleKept ==
    ASSUME NEW x \in SessionType, NEW role \in BOOLEAN, role = x.batched
    PROVE  [x EXCEPT !.batched = role] = x
BY DEF SessionType

\* The source when the flush that comes before a promotion is over.
BeforePromotion(m, ready, fail) == IF ready = {} THEN m ELSE FlushBatch(m, fail)

\* What becomes of viewer v, was saying whether it was one of the batches.
Promotion(p, f, ready, v, was) ==
    /\ f.viewer[v] \in SessionType /\ f.viewer[v].batched = was
    /\ \E role \in BOOLEAN :
          (role <=> was \/ v \in ready) /\ p.viewer[v] = [f.viewer[v] EXCEPT !.batched = role]
    /\ p.batch = f.batch /\ (ready # {} => p.batch = << >>)

LEMMA PromotedIs ==
    ASSUME SourceAssumption, NEW m \in Part, NEW ready, NEW fail, NEW v \in Viewers
    PROVE  Promotion(Promoted(m, ready, fail), BeforePromotion(m, ready, fail), ready, v,
                     m.viewer[v].batched)
<1> DEFINE f == BeforePromotion(m, ready, fail)
           ww == [w \in Viewers |-> [f.viewer[w] EXCEPT !.batched = @ \/ w \in ready]]
           p == Promoted(m, ready, fail)
<1>1. p = [f EXCEPT !.viewer = ww]
  BY DEF Promoted, BeforePromotion
<1>2. f \in Part /\ SameRoles(m.viewer, f.viewer) /\ (ready # {} => f.batch = << >>)
  BY BatchFlushed DEF SameRoles, BeforePromotion
<1> DEFINE role == f.viewer[v].batched \/ v \in ready
<1>3. ww[v] = [f.viewer[v] EXCEPT !.batched = role] /\ role \in BOOLEAN
  OBVIOUS
<1> HIDE DEF f, ww, p
<1>4. p.viewer = ww /\ p.batch = f.batch
  BY <1>1, <1>2 DEF Part
<1>5. f.viewer[v] \in SessionType /\ f.viewer[v].batched = m.viewer[v].batched
  BY <1>2, PartFields DEF SameRoles
<1>6. role <=> m.viewer[v].batched \/ v \in ready
  BY <1>5
<1> HIDE DEF role
<1>7. \E b \in BOOLEAN :
         /\ b <=> m.viewer[v].batched \/ v \in ready
         /\ p.viewer[v] = [f.viewer[v] EXCEPT !.batched = b]
  BY <1>3, <1>4, <1>6
<1> QED
  BY <1>2, <1>4, <1>5, <1>7 DEF f, p, Promotion

\* A viewer of the batches, when the source's ring takes packet i.
LEMMA BatchedFlow ==
    ASSUME SourceAssumption, SourceIInv, Flow, NEW v \in Viewers, Attached(v), shared, viewer[v].batched,
           NEW t \in SentFirst..SentLast, sent <= t, NEW W, InReach(t, W), NEW i \in SentFirst..t,
           ToCome \subseteq W \cup {i}, t < i + Window, CollectedTogether(i),
           NEW m \in Part, m.viewer[v] = viewer[v], m.batch = batch,
           NEW fail, NEW noBatch, NEW ready, v \notin ready
    PROVE  LET r == InsertPacket(sring, i)
               p == Promoted(AppendPackets(m, r.out, fail, noBatch), ready, fail)
           IN  Served(p.viewer[v], p.batch, Emptied(r), shared, t, W, ~lossy)
<1> DEFINE r == InsertPacket(sring, i)
           R == Emptied(r)
           a == AppendPackets(m, r.out, fail, noBatch)
           f == BeforePromotion(a, ready, fail)
           p == Promoted(a, ready, fail)
           x == viewer[v]
           y == p.viewer[v]
           e == Played(Played(x, batch), r.out)
<1>1. /\ x \in SessionType /\ batch \in Seq(Packets) /\ sring \in Drained /\ i \in Packets /\ Registered
  <2>1. /\ x \in SessionType /\ batch \in Seq(Packets) /\ sring \in Drained /\ Registered
        /\ Packets = SentFirst..SentLast /\ SentFirst \in Nat /\ SentLast \in Nat
    BY FlowConstants
  <2> QED
    BY <2>1
<1>2. R \in Drained /\ r.out \in Seq(Packets)
  BY <1>1, InsertDrained
<1>3. /\ Served(x, batch, sring, shared, t, ToCome, ~lossy)
      /\ InFlow(Watcher(x.since, R), t, W, ~lossy)
      /\ sring.phase = 1 => \A k \in Buffered(sring) : i < k + Window
  BY SharedSound
<1> HIDE DEF r, R
<1>4. clients # 0
  <2>1. v \in Batched
    BY DEF Batched, Attached
  <2>2. IsFiniteSet(Batched) /\ clients = Cardinality(Batched)
    BY <1>1, BatchedFinite DEF Registered
  <2> QED
    BY <2>1, <2>2, FS_EmptySet
<1>5. a \in Part /\ SameRoles(m.viewer, a.viewer)
  BY <1>2, AppendPacketsTyped
<1>6. a.viewer[v].batched
  BY <1>5 DEF SameRoles
<1>7. /\ x.failed => a.viewer[v] = x
      /\ \A d \in SessionType : Gets(x, batch, d) => Gets(a.viewer[v], a.batch, Played(d, r.out))
  BY <1>2, <1>4, AppendPacketsGets
<1> HIDE DEF a, x
<1>17. Promotion(p, f, ready, v, a.viewer[v].batched)
  BY <1>5, PromotedIs
<1> HIDE DEF f, p
<1>8. f.viewer[v] \in SessionType /\ f.viewer[v].batched /\ p.batch = f.batch
  BY <1>6, <1>17 DEF Promotion
<1>9. PICK role \in BOOLEAN :
         /\ role <=> a.viewer[v].batched \/ v \in ready
         /\ y = [f.viewer[v] EXCEPT !.batched = role]
  BY <1>17 DEF Promotion
<1>10. y = f.viewer[v]
  <2>1. role = f.viewer[v].batched
    BY <1>6, <1>8, <1>9 DEF SessionType
  <2> HIDE DEF f, y
  <2> QED
    BY <1>8, <1>9, <2>1, RoleKept
<1>11. /\ x.failed => f.viewer[v] = x
       /\ \A d \in SessionType : Gets(x, batch, d) => Gets(f.viewer[v], f.batch, Played(d, r.out))
  <2>1. CASE ready = {}
    BY <1>7, <2>1 DEF BeforePromotion, f
  <2>2. CASE ready # {}
    <3>1. f = FlushBatch(a, fail)
      BY <2>2 DEF BeforePromotion, f
    <3>2. f.batch = << >>
      BY <1>5, <3>1, BatchFlushed
    <3>3. ASSUME x.failed PROVE f.viewer[v] = x
      <4>1. Dealt(a.viewer[v], f.viewer[v], << >>, Played(a.viewer[v], a.batch))
        BY <1>5, <1>6, <3>1, FlushGets
      <4> QED
        BY <1>7, <3>3, <4>1 DEF Dealt
    <3>4. ASSUME NEW d \in SessionType, Gets(x, batch, d) PROVE Gets(f.viewer[v], << >>, Played(d, r.out))
      <4>1. Gets(a.viewer[v], a.batch, Played(d, r.out))
        BY <1>7, <3>4
      <4> QED
        BY <1>5, <1>6, <3>1, <4>1, FlushedGets
    <3> QED
      BY <3>2, <3>3, <3>4
  <2> QED
    BY <2>1, <2>2
<1>12. p.batch \in Seq(Packets)
  <2>1. p \in Part
    BY <1>5, PromotedTyped DEF p
  <2> HIDE DEF p
  <2> QED
    BY <2>1, PartFields
<1> DEFINE u == p.batch
<1>13. y \in SessionType /\ u = f.batch /\ u \in Seq(Packets)
  BY <1>8, <1>10, <1>12
<1>14. x.batched
  BY DEF x
<1> HIDE DEF f, p, y, u
<1>15. CASE x.failed
  <2>1. y = x
    BY <1>10, <1>11, <1>15
  <2>2. Sound(x, t, W, ~lossy)
    BY <1>3, <1>15 DEF Served, Effective, Sound
  <2>3. Effective(y, u, R) = x
    BY <1>15, <2>1 DEF Effective
  <2>4. Served(y, u, R, shared, t, W, ~lossy)
    BY <1>3, <2>1, <2>2, <2>3 DEF Served
  <2> QED
    BY <2>4 DEF y, u, p, a, r, R
<1>16. CASE ~x.failed
  <2>1. Gets(y, u, e)
    <3>1. Gets(x, batch, Played(x, batch)) /\ Played(x, batch) \in SessionType
      BY <1>1, <1>16, GetsAtFirst
    <3> QED
      BY <1>10, <1>11, <1>13, <3>1
  <2>2. Alike(x, e)
    <3>1. Untouched(x, Played(x, batch)) /\ Played(x, batch) \in SessionType
      BY <1>1, PlayedIs, PlayedTyped
    <3>2. Untouched(Played(x, batch), e)
      BY <1>2, <3>1, PlayedIs
    <3> QED
      BY <3>1, <3>2 DEF Untouched, Alike
  <2>3. /\ y.batched = x.batched /\ y.fcc = x.fcc /\ y.snapshot = x.snapshot
        /\ y.pending = x.pending /\ y.since = x.since
    BY <2>1, <2>2 DEF Gets, Alike
  <2>4. /\ x.pending = << >> /\ x.fcc # "REQUESTED" /\ ~x.snapshot
        /\ Sound(Effective(x, batch, sring), t, ToCome, ~lossy)
    BY <1>3, <1>14 DEF Served
  <2>5. Gets(y, u, Played(Played(x, batch), InsertPacket(sring, i).out))
    BY <2>1 DEF r
  <2>6. Sound(Effective(y, u, Emptied(InsertPacket(sring, i))), t, W, ~lossy)
    BY <1>1, <1>3, <1>13, <1>14, <1>16, <2>4, <2>5, BatchSound
  <2>7. Sound(Effective(y, u, R), t, W, ~lossy)
    BY <2>6 DEF r, R
  <2>8. Served(y, u, R, shared, t, W, ~lossy)
    BY <1>3, <2>3, <2>4, <2>7 DEF Served
  <2> QED
    BY <2>8 DEF y, u, p, a, r, R
<1> QED
  BY <1>15, <1>16

\* One that gets every packet, which may be promoted to the batches.
LEMMA PrivateFlow ==
    ASSUME SourceAssumption, SourceIInv, Flow, NEW v \in Viewers, Attached(v), shared, ~viewer[v].batched,
           NEW t \in SentFirst..SentLast, sent <= t, NEW W, InReach(t, W), NEW i \in SentFirst..t,
           ToCome \subseteq W \cup {i}, t < i + Window, CollectedTogether(i),
           NEW fail, NEW noBatch, NEW m \in Part, m.viewer[v] = DeliverPrivate(viewer, i, fail)[v],
           NEW ready,
           v \in ready => Ready(AppendPackets(m, InsertPacket(sring, i).out, fail, noBatch).viewer[v],
                                InsertPacket(sring, i))
    PROVE  LET r == InsertPacket(sring, i)
               p == Promoted(AppendPackets(m, r.out, fail, noBatch), ready, fail)
           IN  Served(p.viewer[v], p.batch, Emptied(r), shared, t, W, ~lossy)
<1> DEFINE r == InsertPacket(sring, i)
           R == Emptied(r)
           a == AppendPackets(m, r.out, fail, noBatch)
           f == BeforePromotion(a, ready, fail)
           p == Promoted(a, ready, fail)
           x == m.viewer[v]
           y == p.viewer[v]
           u == p.batch
<1>1. sring \in Drained /\ i \in Packets
  <2>1. sring \in Drained /\ Packets = SentFirst..SentLast /\ SentFirst \in Nat /\ SentLast \in Nat
    BY FlowConstants
  <2> QED
    BY <2>1
<1>2. R \in Drained /\ r.out \in Seq(Packets) /\ R.phase = r.phase /\ R.base = r.base
  BY <1>1, InsertDrained
<1>3. /\ x \in SessionType /\ Sound(x, t, W, ~lossy) /\ x.since = viewer[v].since /\ ~x.batched
  BY PrivateSound
<1>4. InFlow(Watcher(x.since, R), t, W, ~lossy)
  BY <1>3, SharedSound
<1>5. v \in ready => Ready(a.viewer[v], r)
  OBVIOUS
<1> HIDE DEF r, R
<1>6. a \in Part /\ a.viewer[v] = x
  BY <1>2, <1>3, AppendPacketsTyped, AppendPacketsGets
<1> HIDE DEF a, x
<1>7. f.viewer[v] = x
  <2>1. CASE ready = {}
    BY <1>6, <2>1 DEF BeforePromotion
  <2>2. CASE ready # {}
    <3>1. FlushBatch(a, fail).viewer[v] = x
      BY <1>3, <1>6, FlushGets
    <3> QED
      BY <2>2, <3>1 DEF BeforePromotion
  <2> QED
    BY <2>1, <2>2
<1>11. Promotion(p, f, ready, v, a.viewer[v].batched)
  BY <1>6, PromotedIs
<1> HIDE DEF f, p
<1>8. PICK role \in BOOLEAN :
         (role <=> x.batched \/ v \in ready) /\ y = [x EXCEPT !.batched = role]
  <2>1. \E role \in BOOLEAN :
           /\ role <=> a.viewer[v].batched \/ v \in ready
           /\ y = [f.viewer[v] EXCEPT !.batched = role]
    BY <1>11 DEF Promotion
  <2> HIDE DEF y
  <2> QED
    BY <1>6, <1>7, <2>1
<1>12. ready # {} => u = << >>
  BY <1>11 DEF Promotion
<1> HIDE DEF f, y, u, p
<1>9. CASE v \notin ready
  <2>1. role = x.batched
    BY <1>3, <1>8, <1>9 DEF SessionType
  <2>2. y = x
    BY <1>3, <1>8, <2>1, RoleKept
  <2>3. Effective(y, u, R) = x
    BY <1>3, <2>2 DEF Effective
  <2>4. Served(y, u, R, shared, t, W, ~lossy)
    BY <1>3, <1>4, <2>2, <2>3 DEF Served
  <2> QED
    BY <2>4 DEF y, u, p, a, r, R
<1>10. CASE v \in ready
  <2>1. Ready(x, r)
    BY <1>5, <1>6, <1>10
  <2>2. /\ ~x.failed /\ ~x.snapshot /\ x.fcc # "REQUESTED" /\ x.pending = << >>
        /\ R.phase = 2 /\ x.ring.phase = 2 /\ x.ring.base = R.base
    BY <1>2, <2>1 DEF Ready
  <2>3. role = TRUE
    BY <1>8, <1>10
  <2>4. y = [x EXCEPT !.batched = TRUE]
    BY <1>8, <2>3
  <2>5. y \in SessionType
    BY <1>3, <2>4 DEF SessionType
  <2>6. u = << >>
    BY <1>10, <1>12
  <2>7. t \in Int /\ t <= SentLast
    <3>1. SentFirst \in Nat /\ SentLast \in Nat
      BY SourceConstants
    <3> QED
      BY <3>1
  <2>8. Sound(Effective(y, u, R), t, W, ~lossy)
    BY <1>2, <1>3, <1>4, <2>2, <2>4, <2>5, <2>6, <2>7, PromoteSound
  <2>9. y.pending = x.pending /\ y.fcc = x.fcc /\ y.snapshot = x.snapshot /\ y.since = x.since
    BY <1>3, <2>4 DEF SessionType
  <2>10. Served(y, u, R, shared, t, W, ~lossy)
    BY <1>4, <2>2, <2>8, <2>9 DEF Served
  <2> QED
    BY <2>10 DEF y, u, p, a, r, R
<1> QED
  BY <1>9, <1>10

\* Who is not subscribed gets nothing.
LEMMA AbsentFlow ==
    ASSUME SourceAssumption, SourceIInv, Flow, NEW v \in Viewers, ~Attached(v),
           NEW m \in Part, m.viewer[v] = viewer[v], NEW s \in Seq(Packets),
           NEW fail, NEW noBatch, NEW ready
    PROVE  LET p == Promoted(AppendPackets(m, s, fail, noBatch), ready, fail)
           IN  ~p.viewer[v].replayed /\ ~p.viewer[v].skipped
<1> DEFINE a == AppendPackets(m, s, fail, noBatch)
           f == BeforePromotion(a, ready, fail)
           p == Promoted(a, ready, fail)
           x == viewer[v]
<1>1. x \in SessionType /\ ~x.replayed /\ ~x.skipped
  BY FlowConstants DEF Flow
<1>2. a \in Part /\ a.viewer[v] = x
  BY AppendPacketsTyped, AppendPacketsGets
<1> HIDE DEF a, x
<1>3. f.viewer[v] = x
  BY <1>2, FlushGets DEF BeforePromotion
<1>4. Promotion(p, f, ready, v, a.viewer[v].batched)
  BY <1>2, PromotedIs
<1> HIDE DEF f, p
<1>5. PICK role \in BOOLEAN : p.viewer[v] = [f.viewer[v] EXCEPT !.batched = role]
  BY <1>4 DEF Promotion
<1>6. p.viewer[v].replayed = x.replayed /\ p.viewer[v].skipped = x.skipped
  BY <1>1, <1>3, <1>5 DEF SessionType
<1> QED
  BY <1>1, <1>6 DEF p, a

LEMMA ProcessFlow ==
    ASSUME SourceAssumption, SourceIInv, Flow, NEW i \in SentFirst..sent', sent' \in SentFirst..SentLast,
           sent <= sent', NEW fail, NEW noBatch, NEW again, Process(i, fail, noBatch, again),
           ToCome \subseteq ToCome' \cup {i}, InReach(sent', ToCome'), sent' < i + Window,
           CollectedTogether(i), lossy' = lossy, late' # None => late' <= sent'
    PROVE  Flow'
<1> DEFINE ww    == DeliverPrivate(viewer, i, fail)
           m     == [State EXCEPT !.viewer = DeliverPrivate(@, i, fail)]
           r     == InsertPacket(sring, i)
           a     == AppendPackets(m, r.out, fail, noBatch)
           ready == {v \in Range(packetSubs) : Ready(a.viewer[v], r)}
           p     == Promoted(a, ready, fail)
<1>1. /\ Supplied /\ Registered /\ viewer \in [Viewers -> SessionType] /\ batch \in Seq(Packets)
      /\ Len(batch) <= BatchCap /\ sring \in Drained /\ i \in Packets /\ shared \in BOOLEAN
  <2>1. /\ Supplied /\ Registered /\ viewer \in [Viewers -> SessionType] /\ batch \in Seq(Packets)
        /\ sring \in Drained /\ Packets = SentFirst..SentLast /\ SentFirst \in Nat /\ SentLast \in Nat
        /\ shared \in BOOLEAN
    BY FlowConstants
  <2>2. Len(batch) <= BatchCap
    BY <2>1 DEF Supplied
  <2> QED
    BY <2>1, <2>2
<1>2. m \in Part /\ m.viewer = ww /\ m.batch = batch
  <2>1. m = [viewer |-> ww, batch |-> batch]
    BY DEF State
  <2>2. ww \in [Viewers -> SessionType]
    BY <1>1, DeliverPrivateTyped
  <2> HIDE DEF ww, m
  <2> QED
    BY <1>1, <2>1, <2>2, PartIs
<1>3. \A v \in Viewers : v \in Range(packetSubs) <=> Attached(v) /\ ~viewer[v].batched
  BY <1>1 DEF Registered, Attached
<1>4. \A v \in Viewers : v \notin Range(packetSubs) => ww[v] = viewer[v]
  BY DEF DeliverPrivate
<1>5. /\ subscribers' = subscribers /\ shared' = shared /\ subscribers # << >>
      /\ \/ shared /\ sring' = Emptied(r) /\ viewer' = p.viewer /\ batch' = p.batch
         \/ ~shared /\ sring' = sring /\ viewer' = m.viewer /\ batch' = m.batch
  BY DEF Process, Emptied, Becomes
<1>6. r.out \in Seq(Packets)
  BY <1>1, InsertDrained
<1>7. ready \subseteq Range(packetSubs)
  OBVIOUS
<1>8. \A v \in ready : Ready(a.viewer[v], r)
  OBVIOUS
<1> HIDE DEF ready, m
<1>9. CASE shared /\ sring' = Emptied(r) /\ viewer' = p.viewer /\ batch' = p.batch
  <2>1. ASSUME NEW v \in Viewers, Attached(v)
        PROVE  Served(p.viewer[v], p.batch, Emptied(r), shared, sent', ToCome', ~lossy)
    <3>1. CASE viewer[v].batched
      <4>1. v \notin ready /\ m.viewer[v] = viewer[v]
        BY <1>2, <1>3, <1>4, <1>7, <3>1
      <4> HIDE DEF ww
      <4> QED
        BY <1>2, <1>9, <2>1, <3>1, <4>1, BatchedFlow
    <3>2. CASE ~viewer[v].batched
      <4>1. m.viewer[v] = DeliverPrivate(viewer, i, fail)[v]
        BY <1>2
      <4>2. v \in ready => Ready(AppendPackets(m, InsertPacket(sring, i).out, fail, noBatch).viewer[v],
                                 InsertPacket(sring, i))
        BY <1>8
      <4> HIDE DEF ww
      <4> QED
        BY <1>2, <1>9, <2>1, <3>2, <4>1, <4>2, PrivateFlow
    <3> QED
      BY <3>1, <3>2
  <2>2. ASSUME NEW v \in Viewers, ~Attached(v)
        PROVE  ~p.viewer[v].replayed /\ ~p.viewer[v].skipped
    <3>1. m.viewer[v] = viewer[v]
      BY <1>2, <1>3, <1>4, <2>2
    <3> HIDE DEF ww, r
    <3> QED
      BY <1>2, <1>6, <2>2, <3>1, AbsentFlow
  <2> HIDE DEF p, r
  <2> QED
    BY <1>5, <1>9, <2>1, <2>2 DEF Flow, Attached
<1>10. CASE ~shared /\ sring' = sring /\ viewer' = m.viewer /\ batch' = m.batch
  <2>1. ASSUME NEW v \in Viewers, Attached(v)
        PROVE  Served(ww[v], batch, sring, shared, sent', ToCome', ~lossy)
    <3>1. ~viewer[v].batched
      BY <1>10, <2>1 DEF Flow, Served
    <3>2. Sound(ww[v], sent', ToCome', ~lossy) /\ ~ww[v].batched
      BY <2>1, <3>1, PrivateSound
    <3> HIDE DEF ww
    <3>3. Effective(ww[v], batch, sring) = ww[v]
      BY <3>2 DEF Effective
    <3> QED
      BY <1>10, <3>2, <3>3 DEF Served
  <2>2. ASSUME NEW v \in Viewers, ~Attached(v)
        PROVE  ~ww[v].replayed /\ ~ww[v].skipped
    <3>1. ww[v] = viewer[v]
      BY <1>3, <1>4, <2>2
    <3> HIDE DEF ww
    <3> QED
      BY <2>2, <3>1 DEF Flow
  <2>3. sring = EmptyRing
    BY <1>10 DEF Flow
  <2> HIDE DEF ww
  <2> QED
    BY <1>2, <1>5, <1>10, <2>1, <2>2, <2>3 DEF Flow, Attached
<1> QED
  BY <1>5, <1>9, <1>10

LEMMA ArrivalFlows ==
    ASSUME SourceAssumption, SourceIInv, Flow, NEW fail, NEW noBatch,
           Receive(fail, noBatch) \/ ReceiveLate(fail, noBatch) \/ ReceiveAgain
    PROVE  Flow'
<1>1. /\ sent \in Int /\ sent \in (SentFirst - 1)..SentLast /\ late \in Packets \cup {None}
      /\ None \notin Packets /\ Window \in Nat \ {0} /\ Packets = SentFirst..SentLast
      /\ SentFirst \in Nat \ {0} /\ SentLast \in Nat
  BY FlowConstants
<1>2. InReach(sent, ToCome) /\ (late # None => late <= sent)
  BY DEF Flow
<1>3. CASE Receive(fail, noBatch)
  <2>1. /\ sent < SentLast /\ InWindow(sent + 1) /\ CollectedTogether(sent + 1)
        /\ Process(sent + 1, fail, noBatch, 0) /\ sent' = sent + 1 /\ late' = late /\ lossy' = lossy
    BY <1>3 DEF Receive
  <2>2. /\ sent + 1 \in SentFirst..sent' /\ sent' \in SentFirst..SentLast /\ sent <= sent'
        /\ sent' < (sent + 1) + Window /\ (late' # None => late' <= sent')
    BY <1>1, <1>2, <2>1
  <2>3. ToCome \subseteq ToCome' \cup {sent + 1}
    BY <1>1, <2>1 DEF ToCome
  <2>4. InReach(sent', ToCome')
    BY <1>1, <2>1 DEF ToCome, InReach, InWindow
  <2> QED
    BY <2>1, <2>2, <2>3, <2>4, ProcessFlow
<1>4. CASE ReceiveLate(fail, noBatch)
  <2>1. /\ late # None /\ CollectedTogether(late) /\ Process(late, fail, noBatch, 0)
        /\ late' = None /\ sent' = sent /\ lossy' = lossy
    BY <1>4 DEF ReceiveLate
  <2>2. late \in ToCome /\ late \in Packets
    BY <1>1, <2>1 DEF ToCome
  <2>3. /\ late \in SentFirst..sent' /\ sent' \in SentFirst..SentLast /\ sent <= sent'
        /\ sent' < late + Window
    BY <1>1, <1>2, <2>1, <2>2 DEF InReach
  <2>4. ToCome \subseteq ToCome' \cup {late} /\ ToCome' \subseteq ToCome
    BY <1>1, <2>1 DEF ToCome
  <2>5. InReach(sent', ToCome')
    BY <1>2, <2>1, <2>4 DEF InReach
  <2> QED
    BY <2>1, <2>3, <2>4, <2>5, ProcessFlow
<1>5. CASE ReceiveAgain
  <2>1. /\ sent >= SentFirst /\ CollectedTogether(sent) /\ Process(sent, {}, FALSE, 1)
        /\ sent' = sent /\ late' = late /\ lossy' = lossy
    BY <1>5 DEF ReceiveAgain, wire
  <2>2. ToCome' = ToCome
    BY <2>1 DEF ToCome
  <2>3. /\ sent \in SentFirst..sent' /\ sent' \in SentFirst..SentLast /\ sent <= sent'
        /\ sent' < sent + Window
    BY <1>1, <2>1
  <2> QED
    BY <1>2, <2>1, <2>2, <2>3, ProcessFlow
<1> QED
  BY <1>3, <1>4, <1>5

LEMMA FlowStep ==
    ASSUME SourceAssumption, SourceIInv, Flow, SourceNext
    PROVE  Flow'
<1>1. ASSUME NEW fail \in Fails, NEW noBatch \in BOOLEAN,
             Receive(fail, noBatch) \/ ReceiveLate(fail, noBatch)
      PROVE  Flow'
  BY <1>1, ArrivalFlows
<1>2. CASE ReceiveAgain
  BY <1>2, ArrivalFlows
<1>3. CASE Overtaken \/ Lost \/ ReceiveFails
  BY <1>3, WireFlows
<1>4. ASSUME NEW fail \in Fails, ReceiveFec(fail) PROVE Flow'
  BY <1>4, FecFlow
<1>5. ASSUME NEW v \in Viewers, NEW fail \in Fails,
             \/ SessionJoin(v, "none", FALSE, fail) \/ SessionJoin(v, "none", TRUE, fail)
             \/ SessionJoin(v, "REQUESTED", FALSE, fail) \/ SessionJoin(v, "ACTIVE", FALSE, fail)
      PROVE  Flow'
  BY <1>5, SessionJoinFlow
<1>6. ASSUME NEW v \in Viewers, NEW fail \in Fails, TickFlushes(v, fail) PROVE Flow'
  BY <1>6, FlushFlow
<1>7. ASSUME NEW v \in Viewers, NEW fail \in Fails, TickTimesOut(v, fail) PROVE Flow'
  BY <1>7, DepartureFlows
<1>8. ASSUME NEW v \in Viewers, FccActive(v) \/ SnapshotFallback(v) PROVE Flow'
  BY <1>8, ViewerFlows
<1>9. ASSUME NEW v \in Viewers, Leave(v) \/ TickDetaches(v) PROVE Flow'
  BY <1>9, DepartureFlows
<1> QED
  BY <1>1, <1>2, <1>3, <1>4, <1>5, <1>6, <1>7, <1>8, <1>9 DEF SourceNext

LEMMA FlowInductive == SourceAssumption => (SourceSpec => [](SourceIInv /\ Flow))
<1> SUFFICES ASSUME SourceAssumption PROVE SourceSpec => [](SourceIInv /\ Flow)
  OBVIOUS
<1>1. SourceSpec => []SourceIInv
  BY SourceInductive
<1>2. SourceInit => Flow
  BY SourceInitFlow
<1>3. SourceIInv /\ Flow /\ [SourceNext]_sourceVars => Flow'
  <2>1. ASSUME SourceIInv, Flow, UNCHANGED sourceVars PROVE Flow'
    <3>1. /\ UNCHANGED <<registry, shared, sring, batch, viewer>>
          /\ sent' = sent /\ late' = late /\ lossy' = lossy
      BY <2>1 DEF sourceVars, wire
    <3>2. ToCome' = ToCome
      BY <3>1 DEF ToCome
    <3>3. sent \in Int /\ InReach(sent, ToCome) /\ (late # None => late <= sent)
      BY <2>1, FlowConstants DEF Flow
    <3> QED
      BY <2>1, <3>1, <3>2, <3>3, WireFlow
  <2> QED
    BY <2>1, FlowStep
<1> QED
  BY <1>1, <1>2, <1>3, PTL DEF SourceSpec

\* mcast_source_promote_ready: whoever joins, leaves or runs out of memory, and
\* however often viewers go over to the batches and FEC packets throw them back,
\* no viewer's client gets a packet twice or out of order; and unless the network
\* lost one or the viewer had no memory for it, none that was sent between two
\* that it gets is left out.  For any number of viewers and any size of batch.
THEOREM SeamlessHandoff == SourceSpec => []HandoffIntact
<1>1. SourceAssumption /\ SourceIInv /\ Flow => HandoffIntact
  BY FlowMeans
<1> QED
  BY <1>1, FlowInductive, SourceAssumption, PTL
=============================================================================
