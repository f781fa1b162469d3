-------------------------- MODULE RtpReorderProofs --------------------------
(***************************************************************************)
(* Proofs about the reorder ring of rtp_reorder.c, alone and in a session  *)
(* of fcc.c.                                                               *)
(*                                                                         *)
(* RtpReorder, one stream of packets, for every size of the window and of  *)
(* the sequence numbers, and any network whose packets lag and jump less   *)
(* than half the range of the numbers:                                     *)
(*                                                                         *)
(*   - WindowInv is an invariant: there is a position in the sender's      *)
(*     stream at which the window begins, although the code knows the      *)
(*     positions only modulo SeqMod;                                       *)
(*   - Reordered: packets leave in order and once, none that was stored is *)
(*     lost.  Neither depends on the count of packets being right.         *)
(*                                                                         *)
(* FccSession, the session of fcc.c that feeds the ring first from unicast *)
(* and then from the group:                                                *)
(*                                                                         *)
(*   - FccInv follows from the inductive FccIInv: besides the types, that  *)
(*     one stop request is sent and the packets kept are those from the    *)
(*     stop position on (Bookkeeping), and that the ring's window lies in  *)
(*     the stream with all the client got before it (FlowInOrder);         *)
(*   - KeptIsDelivered, an action property, follows from FccIInv alone;    *)
(*   - Seamless needs SmoothSwitch besides: when nothing was lost, unicast *)
(*     and the group together are one stream without a hole, the ring      *)
(*     holds each packet that the client has not got, and counts them.     *)
(***************************************************************************)
EXTENDS RtpReorder, FccSession, TLAPS, FiniteSetTheorems, WellFoundedInduction

USE RingAssumption

-----------------------------------------------------------------------------
(* Remainders.                                                             *)

LEMMA LeastNat ==
    ASSUME NEW S, S \subseteq Nat, S # {}
    PROVE  \E k \in S : \A j \in S : k <= j
<1> DEFINE Less == {ss \in Nat \X Nat : ss[1] < ss[2]}
<1>1. IsWellFoundedOn(Less, Nat)
  BY NatLessThanWellFounded, Zenon DEF OpToRel
<1>2. \A j, k \in Nat : <<j, k>> \in Less <=> j < k
  OBVIOUS
<1> HIDE DEF Less
<1>3. PICK k \in S : \A j \in S : ~(<<j, k>> \in Less)
  BY <1>1, WFMin
<1>4. ASSUME NEW j \in S PROVE k <= j
  <2>1. j \in Nat /\ k \in Nat /\ ~(<<j, k>> \in Less)
    BY <1>3
  <2>2. ~(j < k)
    BY <1>2, <2>1
  <2> QED
    BY <2>1, <2>2
<1> QED
  BY <1>3, <1>4

LEMMA Divided ==
    ASSUME NEW a \in Int, NEW m \in Nat \ {0}
    PROVE  /\ a \div m \in Int /\ a % m \in 0..(m - 1)
           /\ m * (a \div m) \in Int /\ a = m * (a \div m) + (a % m)
OBVIOUS

\* A multiple of m that is less than m away from 0 is 0.
LEMMA SmallMultiple ==
    ASSUME NEW m \in Nat \ {0}, NEW q \in Int, NEW d \in Int, d = m * q, -m < d, d < m
    PROVE  q = 0
<1>1. CASE q >= 1
  <2>1. PICK e \in Nat : q = 1 + e
    <3>1. q - 1 \in Nat /\ q = 1 + (q - 1)
      BY <1>1
    <3> QED
      BY <3>1
  <2>2. m * e \in Nat /\ m * q = m + m * e
    BY <2>1
  <2> QED
    BY <2>2
<1>2. CASE q <= -1
  <2>1. PICK e \in Nat : q = -1 - e
    <3>1. -1 - q \in Nat /\ q = -1 - (-1 - q)
      BY <1>2
    <3> QED
      BY <3>1
  <2>2. m * e \in Nat /\ m * q = -m - m * e
    BY <2>1
  <2> QED
    BY <2>2
<1> QED
  BY <1>1, <1>2

LEMMA ModUnique ==
    ASSUME NEW m \in Nat \ {0}, NEW a \in Int, NEW q \in Int, NEW r \in 0..(m - 1),
           a = m * q + r
    PROVE  a % m = r
<1> DEFINE p == a \div m
           t == a % m
<1>1. p \in Int /\ t \in 0..(m - 1) /\ a = m * p + t
  BY Divided
<1> HIDE DEF p, t
<1>2. m * (p - q) = m * p - m * q /\ m * p \in Int /\ m * q \in Int /\ p - q \in Int
  BY <1>1
<1>3. m * (p - q) = r - t
  BY <1>1, <1>2
<1>4. p - q = 0
  BY <1>1, <1>2, <1>3, SmallMultiple
<1>5. m * (p - q) = 0
  BY <1>4
<1> QED
  BY <1>1, <1>3, <1>5 DEF t

\* Two numbers with the same remainder and less than m apart are the same.
LEMMA ModSame ==
    ASSUME NEW m \in Nat \ {0}, NEW a \in Int, NEW b \in Int, a % m = b % m,
           -m < a - b, a - b < m
    PROVE  a = b
<1>1. /\ a \div m \in Int /\ m * (a \div m) \in Int /\ a = m * (a \div m) + (a % m)
      /\ b \div m \in Int /\ m * (b \div m) \in Int /\ b = m * (b \div m) + (b % m)
      /\ a % m \in Int
  <2>1. m \in Nat \ {0} /\ a \in Int /\ b \in Int
    OBVIOUS
  <2> QED
    BY ONLY <2>1, Divided
<1> DEFINE p == a \div m
           q == b \div m
<1>2. p \in Int /\ q \in Int /\ a - b = m * p - m * q
  BY <1>1
<1> HIDE DEF p, q
<1>3. p - q \in Int /\ a - b = m * (p - q)
  BY <1>2
<1>4. p - q = 0
  BY <1>3, SmallMultiple
<1> QED
  BY <1>3, <1>4

\* A remainder may be taken before adding to it.
LEMMA ModShift ==
    ASSUME NEW m \in Nat \ {0}, NEW a \in Int, NEW j \in Int
    PROVE  ((a % m) + j) % m = (a + j) % m
<1> DEFINE p == a \div m
           t == a % m
           u == (t + j) % m
           v == (t + j) \div m
<1>1. p \in Int /\ t \in 0..(m - 1) /\ a = m * p + t
  BY Divided
<1>2. t + j \in Int
  BY <1>1
<1>3. v \in Int /\ u \in 0..(m - 1) /\ t + j = m * v + u
  BY <1>2, Divided
<1> HIDE DEF p, t, u, v
<1>4. p + v \in Int /\ m * (p + v) = m * p + m * v /\ m * p \in Int /\ m * v \in Int
  BY <1>1, <1>3
<1>5. a + j \in Int /\ a + j = m * (p + v) + u
  BY <1>1, <1>3, <1>4
<1>6. (a + j) % m = u
  BY <1>3, <1>4, <1>5, ModUnique
<1> QED
  BY <1>6 DEF u, t

LEMMA Sizes ==
    /\ SeqMod \in Nat \ {0} /\ Window \in Nat \ {0}
    /\ SeqMod \div Window \in Nat /\ SeqMod = Window * (SeqMod \div Window)
    /\ SeqMod \div 2 \in Nat /\ SeqMod = 2 * (SeqMod \div 2)
<1>1. SeqMod \div 2 \in Nat /\ SeqMod \div 2 > 0
  OBVIOUS
<1>2. SeqMod \in Nat \ {0} /\ SeqMod = 2 * (SeqMod \div 2)
  BY <1>1
<1>3. SeqMod \div Window \in Int /\ SeqMod = Window * (SeqMod \div Window) + (SeqMod % Window)
  BY Divided
<1>4. SeqMod = Window * (SeqMod \div Window)
  BY <1>3
<1>5. SeqMod \div Window >= 0
  OBVIOUS
<1> QED
  BY <1>1, <1>2, <1>3, <1>4, <1>5

\* The slot of a packet j after the one with number b.
LEMMA SlotShift ==
    ASSUME NEW b \in Nat, NEW j \in Int
    PROVE  SlotOf((b % SeqMod) + j) = SlotOf(b + j) /\ SlotOf(b + j) \in 0..(Window - 1)
<1> DEFINE c == SeqMod \div Window
           p == b \div SeqMod
           t == b % SeqMod
           u == (t + j) % Window
           v == (t + j) \div Window
<1>1. c \in Nat /\ SeqMod = Window * c /\ SeqMod \in Nat \ {0} /\ Window \in Nat \ {0}
  BY Sizes
<1>2. p \in Int /\ t \in Int /\ b = SeqMod * p + t
  BY <1>1, Divided
<1>3. v \in Int /\ u \in 0..(Window - 1) /\ t + j = Window * v + u
  <2>1. t + j \in Int
    BY <1>2
  <2> HIDE DEF t
  <2> QED
    BY <1>1, <2>1, Divided
<1> HIDE DEF c, p, t, u, v
<1>4. c * p + v \in Int /\ Window * (c * p + v) = (Window * c) * p + Window * v
      /\ (Window * c) * p \in Int /\ Window * v \in Int
  BY <1>1, <1>2, <1>3
<1>5. b + j \in Int /\ b + j = Window * (c * p + v) + u
  BY <1>1, <1>2, <1>3, <1>4
<1>6. (b + j) % Window = u
  BY ONLY <1>1, <1>3, <1>4, <1>5, ModUnique
<1> QED
  BY <1>3, <1>6 DEF SlotOf, u, t

\* The signed difference of numbers is that of positions half a range apart.
LEMMA DiffIs ==
    ASSUME NEW i \in Nat, NEW b \in Nat,
           -(SeqMod \div 2) <= i - b, i - b < SeqMod \div 2
    PROVE  SeqDiff(i, b % SeqMod) = i - b
<1> DEFINE h == SeqMod \div 2
           t == b % SeqMod
           p == b \div SeqMod
<1>1. h \in Nat /\ SeqMod = 2 * h /\ SeqMod \in Nat \ {0}
  BY Sizes
<1>2. p \in Int /\ t \in 0..(SeqMod - 1) /\ b = SeqMod * p + t /\ SeqMod * p \in Int
  <2>1. SeqMod \in Nat \ {0} /\ b \in Int
    BY <1>1
  <2> QED
    BY ONLY <2>1, Divided
<1> HIDE DEF p, t
<1>3. i - t \in Int /\ i - t = SeqMod * p + (i - b)
  BY <1>2
<1>4. CASE i - b >= 0
  <2>1. i - b \in 0..(SeqMod - 1)
    BY <1>1, <1>4
  <2>2. (i - t) % SeqMod = i - b
    BY ONLY <1>1, <1>2, <1>3, <2>1, ModUnique
  <2> QED
    BY <1>1, <2>2 DEF SeqDiff, t
<1>5. CASE i - b < 0
  <2>1. i - b + SeqMod \in 0..(SeqMod - 1) /\ i - b + SeqMod >= h
    BY <1>1, <1>5
  <2>2. p - 1 \in Int /\ SeqMod * (p - 1) = SeqMod * p - SeqMod
    BY <1>1, <1>2
  <2>3. i - t = SeqMod * (p - 1) + (i - b + SeqMod)
    BY <1>1, <1>2, <1>3, <2>2
  <2>4. (i - t) % SeqMod = i - b + SeqMod
    BY ONLY <1>1, <1>3, <2>1, <2>2, <2>3, ModUnique
  <2> QED
    BY <1>1, <2>1, <2>4 DEF SeqDiff, t
<1> QED
  BY <1>4, <1>5
-----------------------------------------------------------------------------
(* The members of a set of numbers, in their order.                        *)

Rank(S, j) == Cardinality({l \in S : l <= j})

Nth(S, k) == CHOOSE j \in S : Rank(S, j) = k

LEMMA FiniteBelow ==
    ASSUME NEW n \in Nat, NEW S, S \subseteq 0..(n - 1)
    PROVE  IsFiniteSet(S) /\ Cardinality(S) \in Nat /\ \A x \in S : x \in Nat /\ x < n
<1>1. 0 \in Int /\ n - 1 \in Int
  OBVIOUS
<1>2. IsFiniteSet(0..(n - 1))
  BY ONLY <1>1, FS_Interval
<1>3. S \in SUBSET (0..(n - 1))
  OBVIOUS
<1>4. IsFiniteSet(S)
  BY ONLY <1>2, <1>3, FS_Subset
<1>5. \A x \in S : x \in Nat /\ x < n
  OBVIOUS
<1> QED
  BY <1>4, <1>5, FS_CardinalityType

LEMMA RankGrows ==
    ASSUME NEW n \in Nat, NEW S, S \subseteq 0..(n - 1), NEW j \in S, NEW m \in S
    PROVE  /\ IsFiniteSet(S) /\ Cardinality(S) \in Nat
           /\ Rank(S, j) \in 1..Cardinality(S)
           /\ j < m => Rank(S, j) < Rank(S, m)
<1>1. IsFiniteSet(S) /\ \A x \in S : x \in Nat /\ x < n
  BY FiniteBelow
<1>2. ASSUME NEW T, T \subseteq S
      PROVE  IsFiniteSet(T) /\ Cardinality(T) \in Nat /\ Cardinality(T) <= Cardinality(S)
  BY <1>1, <1>2, FS_Subset, FS_CardinalityType
<1>3. Rank(S, j) \in 1..Cardinality(S)
  <2>1. {l \in S : l <= j} # {}
    OBVIOUS
  <2>2. IsFiniteSet({l \in S : l <= j}) /\ Rank(S, j) \in Nat /\ Rank(S, j) <= Cardinality(S)
    BY <1>2 DEF Rank
  <2>3. Rank(S, j) # 0
    BY <2>1, <2>2, FS_EmptySet DEF Rank
  <2> QED
    BY <1>1, <2>2, <2>3, FS_CardinalityType
<1>4. ASSUME j < m PROVE Rank(S, j) < Rank(S, m)
  <2> DEFINE A == {l \in S : l <= j}
             B == {l \in S : l <= m}
  <2>1. IsFiniteSet(B) /\ IsFiniteSet(A)
    BY <1>2
  <2>3. A \subseteq B
    <3>1. ASSUME NEW l \in S, l <= j PROVE l <= m
      <4>1. l \in Nat /\ j \in Nat /\ m \in Nat
        BY <1>1
      <4> QED
        BY <1>4, <3>1, <4>1
    <3> QED
      BY <3>1
  <2>4. m \in B /\ m \notin A
    BY <1>1, <1>4
  <2>2. Cardinality(A) < Cardinality(B)
    <3> HIDE DEF A, B
    <3> QED
      <4>1. A \in SUBSET B
        BY <2>3
      <4>2. Cardinality(A) <= Cardinality(B) /\ (Cardinality(B) = Cardinality(A) => B = A)
        BY ONLY <2>1, <4>1, FS_Subset
      <4>3. Cardinality(A) \in Nat /\ Cardinality(B) \in Nat
        BY <2>1, FS_CardinalityType
      <4> QED
        BY <2>4, <4>2, <4>3
  <2> QED
    BY <2>2 DEF Rank
<1> QED
  BY <1>1, <1>3, <1>4, FS_CardinalityType

LEMMA NthExists ==
    ASSUME NEW n \in Nat, NEW S, S \subseteq 0..(n - 1), NEW k \in 1..Cardinality(S)
    PROVE  \E j \in S : Rank(S, j) = k
<1> DEFINE Below(m) == {l \in S : l < m}
           U == {m \in Nat : Cardinality(Below(m)) >= k}
<1>1. IsFiniteSet(S) /\ \A x \in S : x \in Nat /\ x < n
  BY FiniteBelow
<1>2. ASSUME NEW m PROVE IsFiniteSet(Below(m)) /\ Cardinality(Below(m)) \in Nat
  BY <1>1, FS_Subset, FS_CardinalityType
<1>3. n \in U
  <2>1. Below(n) = S
    BY <1>1
  <2>2. Cardinality(S) \in Nat
    BY <1>1, FS_CardinalityType
  <2>3. Cardinality(Below(n)) >= k
    <3> HIDE DEF Below
    <3> QED
      BY <2>1, <2>2
  <2> QED
    BY <2>3
<1>4. U \subseteq Nat /\ U # {}
  BY <1>3
<1>5. PICK m \in U : \A x \in U : m <= x
  <2> HIDE DEF U
  <2> QED
    BY <1>4, LeastNat
<1>6. m # 0
  <2>1. Below(0) = {}
    <3>1. ASSUME NEW l \in S PROVE ~(l < 0)
      BY <1>1
    <3> QED
      BY <3>1
  <2>2. Cardinality({}) = 0
    BY FS_EmptySet
  <2>3. Cardinality(Below(m)) >= k
    OBVIOUS
  <2> HIDE DEF Below
  <2> QED
    BY <2>1, <2>2, <2>3
<1>7. m - 1 \in Nat /\ ~(Cardinality(Below(m - 1)) >= k)
  <2>1. m \in Nat /\ m - 1 \in Nat
    BY <1>6
  <2>2. m - 1 \notin U
    <3>1. ~(m <= m - 1)
      BY <2>1
    <3> QED
      BY <1>5, <3>1
  <2> QED
    BY <2>1, <2>2
<1>8. m - 1 \in S
  <2>1. SUFFICES ASSUME m - 1 \notin S PROVE FALSE
    OBVIOUS
  <2>2. Below(m) = Below(m - 1)
    <3>1. ASSUME NEW l \in S PROVE l < m <=> l < m - 1
      <4>1. l \in Nat /\ l # m - 1
        BY <2>1
      <4> QED
        BY <1>7, <4>1
    <3> QED
      BY <3>1
  <2>3. Cardinality(Below(m)) >= k
    OBVIOUS
  <2> HIDE DEF Below
  <2> QED
    BY <1>7, <2>2, <2>3
<1>9. Below(m) = Below(m - 1) \cup {m - 1} /\ m - 1 \notin Below(m - 1)
  <2>1. ASSUME NEW l \in S PROVE l < m <=> l < m - 1 \/ l = m - 1
    BY <1>7
  <2> QED
    BY <1>7, <1>8, <2>1
<1>10. Cardinality(Below(m)) = Cardinality(Below(m - 1)) + 1
  <2>1. IsFiniteSet(Below(m - 1))
    BY <1>2
  <2> HIDE DEF Below
  <2> QED
    BY <1>9, <2>1, FS_AddElement
<1>11. Cardinality(Below(m)) = k
  <2>1. Cardinality(Below(m)) >= k /\ Cardinality(Below(m - 1)) \in Nat
    BY <1>2
  <2> HIDE DEF Below
  <2> QED
    BY <1>7, <1>10, <2>1
<1>12. {l \in S : l <= m - 1} = Below(m)
  <2>1. ASSUME NEW l \in S PROVE l < m <=> l <= m - 1
    BY <1>7
  <2> QED
    BY <2>1
<1>13. Rank(S, m - 1) = k
  BY <1>11, <1>12 DEF Rank
<1> QED
  BY <1>8, <1>13

LEMMA Enumerated ==
    ASSUME NEW n \in Nat, NEW S, S \subseteq 0..(n - 1)
    PROVE  /\ Cardinality(S) \in Nat
           /\ \A k \in 1..Cardinality(S) : Nth(S, k) \in S
           /\ \A k, l \in 1..Cardinality(S) : k < l => Nth(S, k) < Nth(S, l)
           /\ \A j \in S : \E k \in 1..Cardinality(S) : Nth(S, k) = j
<1>1. ASSUME NEW k \in 1..Cardinality(S)
      PROVE  Nth(S, k) \in S /\ Rank(S, Nth(S, k)) = k
  BY NthExists DEF Nth
<1>2. ASSUME NEW k \in 1..Cardinality(S), NEW l \in 1..Cardinality(S), k < l
      PROVE  Nth(S, k) < Nth(S, l)
  <2> DEFINE a == Nth(S, k)
             b == Nth(S, l)
  <2>1. a \in S /\ b \in S /\ Rank(S, a) = k /\ Rank(S, b) = l
    BY <1>1
  <2> HIDE DEF a, b
  <2>2. b < a => Rank(S, b) < Rank(S, a)
    BY <2>1, RankGrows
  <2>3. a \in Nat /\ b \in Nat
    BY <2>1
  <2>4. k \in Nat /\ l \in Nat
    BY <2>1, RankGrows
  <2>5. a # b /\ ~(b < a)
    BY <1>2, <2>1, <2>2, <2>4
  <2> QED
    BY <2>3, <2>5 DEF a, b
<1>3. ASSUME NEW j \in S
      PROVE  \E k \in 1..Cardinality(S) : Nth(S, k) = j
  <2> DEFINE k == Rank(S, j)
             a == Nth(S, k)
  <2>1. k \in 1..Cardinality(S)
    BY RankGrows
  <2>2. a \in S /\ Rank(S, a) = k
    BY <1>1, <2>1
  <2> HIDE DEF a
  <2>3. /\ j < a => Rank(S, j) < Rank(S, a)
        /\ a < j => Rank(S, a) < Rank(S, j)
    BY <2>2, RankGrows
  <2>4. k \in Int /\ a \in Nat /\ j \in Nat
    BY <2>1, <2>2
  <2>5. a = j
    <3> HIDE DEF k
    <3>1. Rank(S, j) = k
      BY DEF k
    <3> QED
      BY <2>2, <2>3, <2>4, <3>1
  <2> QED
    BY <2>1, <2>5 DEF a
<1>4. Cardinality(S) \in Nat
  BY FiniteBelow
<1> QED
  BY <1>1, <1>2, <1>3, <1>4
-----------------------------------------------------------------------------
(* A ring whose window begins at position b, when n is the newest one.     *)

Aligned(r, b, n) ==
    /\ r \in RingType(Nat) /\ b \in Nat /\ n \in Nat \cup {None}
    /\ r.base = b % SeqMod
    /\ b <= n + 1 /\ n < b + Window
    /\ \A s \in 0..(Window - 1) :
          r.slots[s] # None => s = SlotOf(r.slots[s]) /\ b <= r.slots[s] /\ r.slots[s] <= n

\* What a call delivers lies between the old and the new begin of the window,
\* in order, and with what is left it is all that was stored.
Delivered(r, b, q, c) ==
    /\ b <= c
    /\ \A k \in 1..Len(q.out) : b <= q.out[k] /\ q.out[k] < c
    /\ \A k, l \in 1..Len(q.out) : k < l => q.out[k] < q.out[l]
    /\ \A i \in Buffered(r) : i \in Buffered(q) \/ \E k \in 1..Len(q.out) : q.out[k] = i

LEMMA CountRange == CountMod \in Nat \ {0}
BY DEF CountMod

LEMMA RingFields ==
    ASSUME NEW r \in RingType(Nat)
    PROVE  /\ r.phase \in 0..2 /\ r.base \in 0..(SeqMod - 1) /\ r.count \in 0..(CountMod - 1)
           /\ r.slots \in [0..(Window - 1) -> Nat \cup {None}] /\ r.out \in Seq(Nat)
BY DEF RingType

LEMMA StoredPlace ==
    ASSUME NEW r, NEW b, NEW n, Aligned(r, b, n), NEW i \in Buffered(r)
    PROVE  /\ i \in Nat /\ b <= i /\ i <= n /\ i < b + Window
           /\ SlotOf(i) \in 0..(Window - 1) /\ r.slots[SlotOf(i)] = i /\ i # None
<1>1. PICK s \in 0..(Window - 1) : i = r.slots[s] /\ i # None
  BY DEF Buffered
<1>2. i \in Nat
  <2>1. r.slots \in [0..(Window - 1) -> Nat \cup {None}]
    BY RingFields DEF Aligned
  <2> QED
    BY <1>1, <2>1
<1>3. s = SlotOf(i) /\ b <= i /\ i <= n
  BY <1>1 DEF Aligned
<1>4. b \in Nat /\ n \in Int /\ n < b + Window
  BY DEF Aligned, None
<1>5. i \in Nat
  BY <1>2
<1> QED
  BY <1>1, <1>2, <1>3, <1>4, <1>5

\* The slot j after base_seq holds the packet j after the begin, or nothing.
LEMMA SlotContent ==
    ASSUME NEW r, NEW b, NEW n, Aligned(r, b, n), NEW j \in 0..(Window - 1)
    PROVE  /\ SlotOf(r.base + j) = SlotOf(b + j) /\ SlotOf(b + j) \in 0..(Window - 1)
           /\ r.slots[SlotOf(b + j)] # None =>
                 /\ r.slots[SlotOf(b + j)] = b + j /\ b + j <= n
                 /\ b + j \in Buffered(r) /\ b + j \in Nat
<1>1. b \in Nat /\ r.base = b % SeqMod /\ j \in Int
  BY DEF Aligned
<1>2. SlotOf(r.base + j) = SlotOf(b + j) /\ SlotOf(b + j) \in 0..(Window - 1)
  BY <1>1, SlotShift
<1>3. ASSUME r.slots[SlotOf(b + j)] # None
      PROVE  /\ r.slots[SlotOf(b + j)] = b + j /\ b + j <= n
             /\ b + j \in Buffered(r) /\ b + j \in Nat
  <2> DEFINE i == r.slots[SlotOf(b + j)]
  <2>1. i \in Buffered(r)
    BY <1>2, <1>3 DEF Buffered
  <2>2. i \in Nat /\ b <= i /\ i <= n /\ i < b + Window
    BY <2>1, StoredPlace
  <2>3. SlotOf(b + j) = SlotOf(i)
    BY <1>2, <1>3 DEF Aligned
  <2> HIDE DEF i
  <2>4. i = b + j
    <3>1. b + j \in Int /\ i \in Int /\ (b + j) % Window = i % Window
      BY <1>1, <2>2, <2>3 DEF SlotOf
    <3>2. -Window < (b + j) - i /\ (b + j) - i < Window
      BY <1>1, <2>2
    <3>3. Window \in Nat \ {0}
      OBVIOUS
    <3> QED
      BY ONLY <3>1, <3>2, <3>3, ModSame
  <2> QED
    BY <2>1, <2>2, <2>4 DEF i
<1> QED
  BY <1>2, <1>3

\* Clearing the first m slots leaves what lies m or more after the begin.
LEMMA ClearedSlots ==
    ASSUME NEW r, NEW b, NEW n, Aligned(r, b, n), NEW m \in 0..Window
    PROVE  /\ Cleared(r.slots, r.base, m) \in [0..(Window - 1) -> Nat \cup {None}]
           /\ \A t \in 0..(Window - 1) :
                 Cleared(r.slots, r.base, m)[t] # None =>
                    /\ Cleared(r.slots, r.base, m)[t] = r.slots[t]
                    /\ b + m <= r.slots[t]
           /\ \A i \in Buffered(r) :
                 b + m <= i => Cleared(r.slots, r.base, m)[SlotOf(i)] = i
<1> DEFINE c == Cleared(r.slots, r.base, m)
<1>0. /\ r.slots \in [0..(Window - 1) -> Nat \cup {None}]
      /\ b \in Nat /\ n \in Int
  <2>1. b \in Nat /\ n \in Int
    BY DEF Aligned, None
  <2> QED
    BY <2>1, RingFields DEF Aligned
<1>1. c \in [0..(Window - 1) -> Nat \cup {None}]
  BY <1>0 DEF Cleared
<1>2. ASSUME NEW t \in 0..(Window - 1), c[t] # None
      PROVE  c[t] = r.slots[t] /\ b + m <= r.slots[t]
  <2>1. c[t] = r.slots[t] /\ ~\E j \in 0..(m - 1) : t = SlotOf(r.base + j)
    BY <1>2 DEF Cleared
  <2>2. r.slots[t] \in Buffered(r)
    BY <1>2, <2>1 DEF Buffered
  <2>3. t = SlotOf(r.slots[t])
    BY <1>2, <2>1 DEF Aligned
  <2> DEFINE i == r.slots[t]
             j == i - b
  <2>4. i \in Nat /\ b <= i /\ i < b + Window
    BY <2>2, StoredPlace
  <2> HIDE DEF i
  <2>5. j \in 0..(Window - 1) /\ b + j = i
    BY <1>0, <2>4
  <2>6. SlotOf(r.base + j) = SlotOf(b + j)
    <3> HIDE DEF j
    <3> QED
      BY <2>5, SlotContent
  <2>7. t = SlotOf(r.base + j)
    BY <2>3, <2>5, <2>6 DEF i
  <2>8. ~(j \in 0..(m - 1))
    BY <2>1, <2>7
  <2>9. b + m <= i
    BY <1>0, <2>4, <2>5, <2>8
  <2> QED
    BY <2>1, <2>9 DEF i
<1>3. ASSUME NEW i \in Buffered(r), b + m <= i
      PROVE  c[SlotOf(i)] = i
  <2>1. i \in Nat /\ i < b + Window /\ SlotOf(i) \in 0..(Window - 1) /\ r.slots[SlotOf(i)] = i /\ i # None
    BY StoredPlace
  <2>2. ASSUME NEW j \in 0..(m - 1), SlotOf(i) = SlotOf(r.base + j)
        PROVE  FALSE
    <3>1. j \in 0..(Window - 1)
      OBVIOUS
    <3>2. SlotOf(i) = SlotOf(b + j)
      BY <2>2, <3>1, SlotContent
    <3>3. r.slots[SlotOf(b + j)] = b + j
      BY <2>1, <3>1, <3>2, SlotContent
    <3>4. i = b + j
      BY <2>1, <3>2, <3>3
    <3> QED
      BY <1>0, <1>3, <2>1, <3>4
  <2> QED
    BY <2>1, <2>2 DEF Cleared
<1> QED
  BY <1>1, <1>2, <1>3
-----------------------------------------------------------------------------
(* The two flushes.                                                        *)

LEMMA RunExists ==
    ASSUME NEW r
    PROVE  /\ RunLength(r.slots, r.base) \in 0..Window
           /\ \A j \in 0..(RunLength(r.slots, r.base) - 1) : r.slots[SlotOf(r.base + j)] # None
           /\ \/ RunLength(r.slots, r.base) = Window
              \/ r.slots[SlotOf(r.base + RunLength(r.slots, r.base))] = None
<1> DEFINE U == {k \in Nat : k = Window \/ r.slots[SlotOf(r.base + k)] = None}
<1>1. U \subseteq Nat /\ U # {}
  OBVIOUS
<1>2. PICK k \in U : \A j \in U : k <= j
  <2> HIDE DEF U
  <2> QED
    BY <1>1, LeastNat
<1>3. k \in 0..Window
  BY <1>2
<1>4. ASSUME NEW j \in 0..(k - 1) PROVE r.slots[SlotOf(r.base + j)] # None
  <2>1. j \in Nat /\ j < k
    BY <1>3
  <2>2. j \notin U
    BY <1>2, <1>3, <2>1
  <2> QED
    BY <2>1, <2>2
<1>5. k = Window \/ r.slots[SlotOf(r.base + k)] = None
  BY <1>2
<1> QED
  BY <1>3, <1>4, <1>5 DEF RunLength

\* What q delivered are the k packets from position b on.
RunOut(q, b, k) == Len(q.out) = k /\ \A j \in 1..k : q.out[j] = b + j - 1

\* How many packets flush_consecutive takes out.
Flushed(r) ==
    LET run == RunLength(r.slots, r.base) IN IF run < r.count THEN run ELSE r.count

LEMMA FlushDelivers ==
    ASSUME NEW r, NEW b, NEW n, Aligned(r, b, n), r.out = << >>
    PROVE  /\ Flushed(r) \in 0..Window
           /\ Aligned(FlushConsecutive(r), b + Flushed(r), n)
           /\ Delivered(r, b, FlushConsecutive(r), b + Flushed(r))
           /\ FlushConsecutive(r).phase = r.phase
           /\ FlushConsecutive(r).count = r.count - Flushed(r)
           /\ RunOut(FlushConsecutive(r), b, Flushed(r))
<1> DEFINE run == RunLength(r.slots, r.base)
           k == IF run < r.count THEN run ELSE r.count
           c == b + k
           q == FlushConsecutive(r)
           d == [j \in 1..k |-> r.slots[SlotOf(r.base + j - 1)]]
<1>1. /\ r \in RingType(Nat)
      /\ r.phase \in 0..2 /\ r.base \in 0..(SeqMod - 1) /\ r.count \in 0..(CountMod - 1)
      /\ r.slots \in [0..(Window - 1) -> Nat \cup {None}]
  BY RingFields DEF Aligned
<1>2. b \in Nat /\ r.base = b % SeqMod /\ n \in Int /\ n \in Nat \cup {None} /\ b <= n + 1 /\ n < b + Window
  BY DEF Aligned, None
<1>3. run \in 0..Window
  BY RunExists
<1>4. k \in 0..Window /\ k <= r.count /\ k <= run /\ r.count \in Nat /\ r.count < CountMod
  <2> DEFINE x == r.count
             y == run
  <2>1. x \in 0..(CountMod - 1) /\ y \in 0..Window /\ CountMod \in Nat
    BY <1>1, <1>3, CountRange
  <2> HIDE DEF x, y
  <2>2. x \in Nat /\ x < CountMod /\ y \in Nat
    BY <2>1
  <2>3. /\ (IF y < x THEN y ELSE x) \in 0..Window
        /\ (IF y < x THEN y ELSE x) <= x /\ (IF y < x THEN y ELSE x) <= y
    BY <2>1, <2>2
  <2> QED
    BY <2>2, <2>3 DEF x, y
<1>5. ASSUME NEW j \in 0..(k - 1)
      PROVE  r.slots[SlotOf(r.base + j)] = b + j /\ b + j <= n /\ b + j \in Nat
  <2>1. j \in 0..(run - 1) /\ j \in 0..(Window - 1)
    BY <1>3, <1>4
  <2>2. r.slots[SlotOf(r.base + j)] # None
    BY <2>1, RunExists
  <2> QED
    BY <2>1, <2>2, SlotContent
<1>0. k = Flushed(r)
  BY DEF Flushed
<1> HIDE DEF run
<1>6. /\ q = [r EXCEPT !.slots = Cleared(r.slots, r.base, k), !.base = (r.base + k) % SeqMod,
                      !.count = r.count - k, !.out = r.out \o d]
  BY DEF FlushConsecutive, run
<1> HIDE DEF k
<1>7. d \in Seq(Nat) /\ Len(d) = k /\ \A j \in 1..k : d[j] = b + j - 1
  <2>1. ASSUME NEW j \in 1..k
        PROVE  r.slots[SlotOf(r.base + j - 1)] = b + j - 1 /\ b + j - 1 \in Nat
    <3>1. j - 1 \in 0..(k - 1) /\ r.base + (j - 1) = r.base + j - 1 /\ b + (j - 1) = b + j - 1
      BY <1>1, <1>2, <1>4
    <3> QED
      BY <1>5, <3>1
  <2>2. k \in Nat
    BY <1>4
  <2> QED
    BY <2>1, <2>2
<1> HIDE DEF d
<1>8. r.out \o d = d
  BY <1>7
<1>9. /\ q.slots = Cleared(r.slots, r.base, k) /\ q.base = (r.base + k) % SeqMod
      /\ q.count = r.count - k /\ q.out = d /\ q.phase = r.phase
      /\ q \in [phase : 0..2, base : {(r.base + k) % SeqMod}, slots : {Cleared(r.slots, r.base, k)},
                count : {r.count - k}, out : {d}]
  <2> HIDE DEF q
  <2> QED
    BY <1>1, <1>6, <1>8 DEF RingType
<1> HIDE DEF q
<1>10. Cleared(r.slots, r.base, k) \in [0..(Window - 1) -> Nat \cup {None}]
  BY <1>4, ClearedSlots
<1>11. (r.base + k) % SeqMod = c % SeqMod /\ (r.base + k) % SeqMod \in 0..(SeqMod - 1)
  <2>1. SeqMod \in Nat \ {0} /\ b \in Int /\ k \in Int
    BY <1>2, <1>4, Sizes
  <2>2. ((b % SeqMod) + k) % SeqMod = (b + k) % SeqMod
    BY <2>1, ModShift
  <2>3. (b + k) % SeqMod \in 0..(SeqMod - 1)
    <3>1. SeqMod \in Nat \ {0} /\ b + k \in Int
      BY <2>1
    <3> QED
      BY ONLY <3>1, Divided
  <2> QED
    BY <1>2, <2>2, <2>3
<1>12. r.count - k \in 0..(CountMod - 1)
  <2> DEFINE x == r.count
  <2>1. x \in Nat /\ x < CountMod /\ k <= x /\ k \in Nat
    BY <1>4
  <2> HIDE DEF x
  <2>2. x - k \in 0..(CountMod - 1)
    BY ONLY <2>1, CountRange
  <2> QED
    BY <2>2 DEF x
<1>13. q \in RingType(Nat)
  BY <1>7, <1>9, <1>10, <1>11, <1>12 DEF RingType
<1>14. c \in Nat /\ b <= c /\ c <= n + 1 /\ n < c + Window
  <2>1. CASE k = 0
    BY <1>2, <2>1
  <2>2. CASE k > 0
    <3>1. k - 1 \in 0..(k - 1)
      BY <1>4, <2>2
    <3>2. b + (k - 1) <= n
      BY <1>5, <3>1
    <3> QED
      BY <1>2, <1>4, <3>2
  <2> QED
    BY <1>4, <2>1, <2>2
<1>15. Aligned(q, c, n)
  <2>1. ASSUME NEW s \in 0..(Window - 1), q.slots[s] # None
        PROVE  s = SlotOf(q.slots[s]) /\ c <= q.slots[s] /\ q.slots[s] <= n
    <3>1. q.slots[s] = r.slots[s] /\ c <= r.slots[s]
      BY <1>4, <1>9, <2>1, ClearedSlots
    <3>2. s = SlotOf(r.slots[s]) /\ r.slots[s] <= n
      BY <2>1, <3>1 DEF Aligned
    <3> QED
      BY <3>1, <3>2
  <2> HIDE DEF c
  <2>2. q.base = c % SeqMod
    BY <1>9, <1>11
  <2> QED
    BY <1>2, <1>13, <1>14, <2>1, <2>2 DEF Aligned
<1>16. Delivered(r, b, q, c)
  <2>1. ASSUME NEW j \in 1..Len(q.out) PROVE q.out[j] = b + j - 1 /\ b <= q.out[j] /\ q.out[j] < c /\ j \in Int
    <3>1. j \in 1..k /\ q.out[j] = b + j - 1
      BY <1>7, <1>9
    <3>2. b + j - 1 >= b /\ b + j - 1 < b + k /\ j \in Int
      BY ONLY <1>2, <1>4, <3>1, Window \in Nat
    <3> QED
      BY <3>1, <3>2
  <2>2. ASSUME NEW j \in 1..Len(q.out), NEW l \in 1..Len(q.out), j < l PROVE q.out[j] < q.out[l]
    <3>1. q.out[j] = b + j - 1 /\ q.out[l] = b + l - 1 /\ j \in Int /\ l \in Int
      BY <2>1
    <3> QED
      BY ONLY <1>2, <2>2, <3>1
  <2>3. ASSUME NEW i \in Buffered(r) PROVE i \in Buffered(q) \/ \E j \in 1..Len(q.out) : q.out[j] = i
    <3>1. i \in Nat /\ b <= i /\ SlotOf(i) \in 0..(Window - 1) /\ i # None
      BY StoredPlace
    <3>2. CASE c <= i
      <4>1. q.slots[SlotOf(i)] = i
        BY <1>4, <1>9, <3>2, ClearedSlots
      <4> QED
        BY <3>1, <4>1 DEF Buffered
    <3>3. CASE i < c
      <4>1. i - b + 1 \in 1..k
        BY ONLY <1>2, <1>4, <3>1, <3>3, Window \in Nat DEF c
      <4>2. i - b + 1 \in 1..Len(q.out) /\ q.out[i - b + 1] = i
        <5>1. i - b + 1 \in 1..Len(q.out)
          BY <1>7, <1>9, <4>1
        <5>2. q.out[i - b + 1] = b + (i - b + 1) - 1
          BY <2>1, <5>1
        <5> QED
          BY <1>2, <3>1, <5>1, <5>2
      <4> QED
        BY <4>2
    <3> QED
      BY <1>14, <3>1, <3>2, <3>3
  <2> HIDE DEF c
  <2> QED
    BY <1>14, <2>1, <2>2, <2>3 DEF Delivered
<1> HIDE DEF c
<1>17. c = b + Flushed(r)
  BY <1>0 DEF c
<1>18. RunOut(q, b, k)
  BY <1>7, <1>9 DEF RunOut
<1> QED
  BY <1>0, <1>4, <1>9, <1>15, <1>16, <1>17, <1>18 DEF q

\* h is what r stores of the m positions from b on, in order.
FirstOf(h, r, b, m) ==
    /\ h \in Seq(Nat)
    /\ \A k \in 1..Len(h) : b <= h[k] /\ h[k] < b + m
    /\ \A k, l \in 1..Len(h) : k < l => h[k] < h[l]
    /\ \A i \in Buffered(r) : i < b + m => \E k \in 1..Len(h) : h[k] = i

LEMMA HeldInOrder ==
    ASSUME NEW r, NEW b, NEW n, Aligned(r, b, n), NEW m \in 0..Window
    PROVE  FirstOf(Held(r.slots, r.base, m), r, b, m)
<1> DEFINE S == {j \in 0..(m - 1) : r.slots[SlotOf(r.base + j)] # None}
           h == Held(r.slots, r.base, m)
           N == Cardinality(S)
<1>1. b \in Nat /\ m \in Nat /\ m <= Window
  BY DEF Aligned
<1>2. S \subseteq 0..(m - 1)
  OBVIOUS
<1>3. h = [k \in 1..N |-> r.slots[SlotOf(r.base + Nth(S, k))]]
  BY DEF Held, Nth, Rank
<1>4. ASSUME NEW j \in S
      PROVE  /\ j \in Nat /\ j < m /\ r.slots[SlotOf(r.base + j)] = b + j
             /\ b + j \in Nat /\ b + j <= n
  <2>1. j \in 0..(Window - 1) /\ j \in Nat /\ j < m /\ r.slots[SlotOf(r.base + j)] # None
    BY <1>1
  <2> QED
    BY <2>1, SlotContent
<1>5. ASSUME NEW i \in Buffered(r), i < b + m
      PROVE  i - b \in S /\ b + (i - b) = i
  <2>1. i \in Nat /\ b <= i /\ i < b + Window /\ r.slots[SlotOf(i)] = i /\ i # None
    BY StoredPlace
  <2>2. i - b \in 0..(m - 1) /\ i - b \in 0..(Window - 1) /\ b + (i - b) = i
    BY ONLY <1>1, <1>5, <2>1, Window \in Nat
  <2> DEFINE j == i - b
  <2> HIDE DEF j
  <2>3. j \in 0..(m - 1) /\ j \in 0..(Window - 1) /\ b + j = i
    BY <2>2 DEF j
  <2>4. SlotOf(r.base + j) = SlotOf(i)
    BY <2>3, SlotContent
  <2>5. j \in S
    BY <2>1, <2>3, <2>4
  <2> QED
    BY <2>3, <2>5 DEF j
<1> HIDE DEF S
<1>6. /\ N \in Nat
      /\ \A k \in 1..N : Nth(S, k) \in S
      /\ \A k, l \in 1..N : k < l => Nth(S, k) < Nth(S, l)
      /\ \A j \in S : \E k \in 1..N : Nth(S, k) = j
  BY ONLY <1>1, <1>2, Enumerated
<1> HIDE DEF N, h
<1>7. ASSUME NEW k \in 1..N
      PROVE  h[k] = b + Nth(S, k) /\ h[k] \in Nat /\ Nth(S, k) \in Nat /\ Nth(S, k) < m /\ h[k] <= n
  BY <1>3, <1>4, <1>6
<1>8. h \in Seq(Nat) /\ Len(h) = N
  <2>1. \A k \in 1..N : r.slots[SlotOf(r.base + Nth(S, k))] \in Nat
    BY <1>4, <1>6
  <2> QED
    BY <1>3, <1>6, <2>1
<1>9. ASSUME NEW k \in 1..Len(h) PROVE b <= h[k] /\ h[k] < b + m
  BY <1>1, <1>7, <1>8
<1>10. ASSUME NEW k \in 1..Len(h), NEW l \in 1..Len(h), k < l PROVE h[k] < h[l]
  <2>1. h[k] = b + Nth(S, k) /\ h[l] = b + Nth(S, l) /\ Nth(S, k) \in Nat /\ Nth(S, l) \in Nat
    BY <1>7, <1>8
  <2>2. Nth(S, k) < Nth(S, l)
    BY <1>6, <1>8, <1>10
  <2> QED
    BY <1>1, <2>1, <2>2
<1>11. ASSUME NEW i \in Buffered(r), i < b + m PROVE \E k \in 1..Len(h) : h[k] = i
  <2>1. i - b \in S /\ b + (i - b) = i
    BY <1>5, <1>11
  <2>2. PICK k \in 1..N : Nth(S, k) = i - b
    BY <1>6, <2>1
  <2>3. h[k] = i
    BY <1>7, <2>1, <2>2
  <2> QED
    BY <1>8, <2>3
<1> QED
  BY <1>8, <1>9, <1>10, <1>11 DEF FirstOf, h

LEMMA ForceDelivers ==
    ASSUME NEW r, NEW b, NEW n, Aligned(r, b, n), r.out = << >>,
           NEW i \in Nat, b + Window <= i, SeqDiff(i, r.base) = i - b
    PROVE  /\ Aligned(ForceFlushUntil(r, i), i - Window + 1, i)
           /\ Delivered(r, b, ForceFlushUntil(r, i), i - Window + 1)
           /\ ForceFlushUntil(r, i).phase = r.phase
<1> DEFINE m == i - b - Window + 1
           c == i - Window + 1
           reach == IF m < Window THEN m ELSE Window
           h == Held(r.slots, r.base, reach)
           q == ForceFlushUntil(r, i)
<1>1. /\ r \in RingType(Nat)
      /\ r.phase \in 0..2 /\ r.base \in 0..(SeqMod - 1) /\ r.count \in 0..(CountMod - 1)
      /\ r.slots \in [0..(Window - 1) -> Nat \cup {None}]
  BY RingFields DEF Aligned
<1>2. /\ b \in Nat /\ r.base = b % SeqMod /\ n \in Int /\ b <= n + 1 /\ n < b + Window
      /\ i \in Nat /\ Window \in Nat \ {0}
  BY DEF Aligned, None
<1>3. m \in Nat /\ m > 0 /\ c = b + m /\ c \in Nat /\ c <= i + 1 /\ i < c + Window
  BY ONLY <1>2, b + Window <= i
<1>4. reach \in 0..Window /\ reach <= m /\ (reach < Window => reach = m)
  <2> HIDE DEF m
  <2> QED
    BY ONLY <1>2, <1>3
<1>5. q = [r EXCEPT !.slots = Cleared(r.slots, r.base, reach), !.base = (r.base + m) % SeqMod,
                    !.count = (r.count - Len(h)) % CountMod, !.out = r.out \o h]
  <2>1. SeqDiff(i, r.base) - Window + 1 = m
    BY <1>2
  <2>2. ~(m <= 0)
    BY <1>3
  <2> HIDE DEF m
  <2> QED
    BY <2>1, <2>2 DEF ForceFlushUntil
<1> HIDE DEF reach, q, m, c, h
<1>6. /\ h \in Seq(Nat)
      /\ \A k \in 1..Len(h) : b <= h[k] /\ h[k] < b + reach
      /\ \A k, l \in 1..Len(h) : k < l => h[k] < h[l]
      /\ \A x \in Buffered(r) : x < b + reach => \E k \in 1..Len(h) : h[k] = x
  <2>1. FirstOf(Held(r.slots, r.base, reach), r, b, reach)
    BY <1>4, HeldInOrder
  <2> QED
    BY <2>1 DEF FirstOf, h
<1>7. r.out \o h = h
  BY <1>6
<1>8. /\ q.slots = Cleared(r.slots, r.base, reach) /\ q.base = (r.base + m) % SeqMod
      /\ q.out = h /\ q.phase = r.phase
      /\ q \in [phase : 0..2, base : {(r.base + m) % SeqMod}, slots : {Cleared(r.slots, r.base, reach)},
                count : {(r.count - Len(h)) % CountMod}, out : {h}]
  BY <1>1, <1>5, <1>7 DEF RingType
<1>9. Cleared(r.slots, r.base, reach) \in [0..(Window - 1) -> Nat \cup {None}]
  BY <1>4, ClearedSlots
<1>10. (r.base + m) % SeqMod = c % SeqMod /\ (r.base + m) % SeqMod \in 0..(SeqMod - 1)
  <2>1. SeqMod \in Nat \ {0} /\ b \in Int /\ m \in Int
    BY <1>2, <1>3, Sizes
  <2>2. ((b % SeqMod) + m) % SeqMod = (b + m) % SeqMod
    BY <2>1, ModShift
  <2>3. b + m \in Int
    BY <2>1
  <2>4. (b + m) % SeqMod \in 0..(SeqMod - 1)
    BY ONLY <2>1, <2>3, Divided
  <2> QED
    BY <1>2, <1>3, <2>2, <2>4
<1>11. (r.count - Len(h)) % CountMod \in 0..(CountMod - 1)
  <2> DEFINE x == r.count - Len(h)
  <2>1. x \in Int
    <3>1. r.count \in Int /\ Len(h) \in Int
      BY <1>1, <1>6, CountRange
    <3> QED
      BY <3>1
  <2> HIDE DEF x
  <2>2. x % CountMod \in 0..(CountMod - 1)
    BY <2>1, CountRange, Divided
  <2> QED
    BY <2>2 DEF x
<1>12. q \in RingType(Nat)
  BY <1>6, <1>8, <1>9, <1>10, <1>11 DEF RingType
\* All of a window is emptied by a packet two windows ahead.
<1>13. ASSUME NEW x \in Nat, x < b + Window PROVE b + reach <= x <=> c <= x
  BY ONLY <1>2, <1>3, <1>4, <1>13
<1>14. Aligned(q, c, i)
  <2>1. ASSUME NEW s \in 0..(Window - 1), q.slots[s] # None
        PROVE  s = SlotOf(q.slots[s]) /\ c <= q.slots[s] /\ q.slots[s] <= i
    <3>1. q.slots[s] = r.slots[s] /\ b + reach <= r.slots[s]
      BY <1>4, <1>8, <2>1, ClearedSlots
    <3>2. s = SlotOf(r.slots[s]) /\ r.slots[s] <= n /\ r.slots[s] \in Buffered(r)
      BY <2>1, <3>1 DEF Aligned, Buffered
    <3>3. r.slots[s] \in Nat /\ r.slots[s] < b + Window
      BY <3>2, StoredPlace
    <3>4. c <= r.slots[s]
      BY <1>13, <3>1, <3>3
    <3>5. r.slots[s] <= i
      <4> DEFINE x == r.slots[s]
      <4>1. x \in Nat /\ x < b + Window
        BY <3>3
      <4> HIDE DEF x
      <4>2. x <= i
        BY ONLY <1>2, <4>1, b + Window <= i
      <4> QED
        BY <4>2 DEF x
    <3> QED
      BY <3>1, <3>2, <3>4, <3>5
  <2>2. q.base = c % SeqMod
    BY <1>8, <1>10
  <2> QED
    BY <1>3, <1>12, <2>1, <2>2 DEF Aligned
<1>15. Delivered(r, b, q, c)
  <2>1. b <= c
    BY <1>2, <1>3
  <2>2. ASSUME NEW k \in 1..Len(q.out) PROVE b <= q.out[k] /\ q.out[k] < c
    <3> DEFINE x == h[k]
    <3>1. x \in Nat /\ b <= x /\ x < b + reach
      BY <1>6, <1>8
    <3> HIDE DEF x
    <3>2. x \in Nat
      BY <3>1
    <3>3. x < c
      BY ONLY <1>2, <1>3, <1>4, <3>1, <3>2
    <3> QED
      BY <1>8, <3>1, <3>3 DEF x
  <2>3. ASSUME NEW x \in Buffered(r) PROVE x \in Buffered(q) \/ \E k \in 1..Len(q.out) : q.out[k] = x
    <3>1. x \in Nat /\ SlotOf(x) \in 0..(Window - 1) /\ x # None
      BY StoredPlace
    <3>2. CASE b + reach <= x
      <4>1. q.slots[SlotOf(x)] = x
        BY <1>4, <1>8, <3>2, ClearedSlots
      <4> QED
        BY <3>1, <4>1 DEF Buffered
    <3>3. CASE ~(b + reach <= x)
      <4>1. x < b + reach
        BY ONLY <1>2, <1>4, <3>1, <3>3
      <4> QED
        BY <1>6, <1>8, <4>1
    <3> QED
      BY <3>2, <3>3
  <2> QED
    BY <1>6, <1>8, <2>1, <2>2, <2>3 DEF Delivered
<1> QED
  BY <1>8, <1>14, <1>15 DEF q, c
-----------------------------------------------------------------------------
(* rtp_reorder_insert, way by way.                                         *)

Newer(n, i) == IF i > n THEN i ELSE n

LEMMA NewerIs ==
    ASSUME NEW n \in Nat \cup {None}, NEW i \in Nat
    PROVE  /\ Newer(n, i) \in Nat
           /\ n \in Int /\ i \in Nat /\ n <= Newer(n, i) /\ i <= Newer(n, i)
           /\ Newer(n, i) = n \/ Newer(n, i) = i
BY DEF Newer, None

\* A packet of the window that is stored: its slot was free or held a copy.
LEMMA PutKeeps ==
    ASSUME NEW r, NEW b, NEW n, Aligned(r, b, n),
           NEW i \in Nat, b <= i, i < b + Window
    PROVE  /\ Aligned(Put(r, i), b, Newer(n, i))
           /\ Put(r, i).out = r.out /\ Put(r, i).phase = r.phase
           /\ Buffered(r) \subseteq Buffered(Put(r, i)) /\ i \in Buffered(Put(r, i))
<1> DEFINE q == Put(r, i)
           N == Newer(n, i)
           t == SlotOf(i)
           x == (r.count + 1) % CountMod
<1>1. /\ r \in RingType(Nat) /\ r.out \in Seq(Nat)
      /\ r.phase \in 0..2 /\ r.base \in 0..(SeqMod - 1) /\ r.count \in 0..(CountMod - 1)
      /\ r.slots \in [0..(Window - 1) -> Nat \cup {None}]
  BY RingFields DEF Aligned
<1>2. /\ b \in Nat /\ r.base = b % SeqMod /\ n \in Nat \cup {None}
      /\ b <= n + 1 /\ n < b + Window
  BY DEF Aligned
<1>3. N \in Nat /\ n \in Int /\ i \in Nat /\ n <= N /\ i <= N /\ (N = n \/ N = i)
  BY <1>2, NewerIs
<1> HIDE DEF N
<1>4. t \in 0..(Window - 1)
  <2>1. i \in Int /\ Window \in Nat \ {0}
    BY <1>3
  <2> QED
    BY <2>1, Divided DEF SlotOf
<1>5. x \in 0..(CountMod - 1)
  <2> DEFINE y == r.count + 1
  <2>1. y \in Int
    BY <1>1, CountRange
  <2> HIDE DEF y
  <2>2. y % CountMod \in 0..(CountMod - 1)
    BY <2>1, CountRange, Divided
  <2> QED
    BY <2>2 DEF y
<1>6. q = [r EXCEPT !.slots = [r.slots EXCEPT ![t] = i], !.count = x]
  BY <1>1 DEF Put, RingType
<1> HIDE DEF q, x, t
<1>7. /\ q.slots = [r.slots EXCEPT ![t] = i] /\ q.base = r.base /\ q.out = r.out /\ q.phase = r.phase
      /\ q \in [phase : 0..2, base : {r.base}, slots : {[r.slots EXCEPT ![t] = i]}, count : {x}, out : {r.out}]
  BY <1>1, <1>6 DEF RingType
<1>8. [r.slots EXCEPT ![t] = i] \in [0..(Window - 1) -> Nat \cup {None}]
  BY <1>1, <1>4
<1>9. q \in RingType(Nat)
  BY <1>1, <1>5, <1>7, <1>8 DEF RingType
<1>10. ASSUME NEW s \in 0..(Window - 1)
       PROVE  q.slots[s] = IF s = t THEN i ELSE r.slots[s]
  BY <1>1, <1>4, <1>7
<1>11. i # None
  BY <1>3 DEF None
<1>12. ASSUME r.slots[t] # None PROVE r.slots[t] = i
  <2> DEFINE j == i - b
  <2>1. j \in 0..(Window - 1) /\ b + j = i
    BY ONLY <1>2, <1>3, b <= i, i < b + Window, Window \in Nat
  <2> HIDE DEF j
  <2>2. r.slots[SlotOf(b + j)] = b + j
    BY <1>12, <2>1, SlotContent DEF t
  <2> QED
    BY <2>1, <2>2 DEF t
<1>13. Aligned(q, b, N)
  <2>1. ASSUME NEW s \in 0..(Window - 1), q.slots[s] # None
        PROVE  s = SlotOf(q.slots[s]) /\ b <= q.slots[s] /\ q.slots[s] <= N
    <3>1. CASE s = t
      BY <1>3, <1>10, <3>1 DEF t
    <3>2. CASE s # t
      <4>1. q.slots[s] = r.slots[s]
        BY <1>10, <3>2
      <4>2. s = SlotOf(r.slots[s]) /\ b <= r.slots[s] /\ r.slots[s] <= n /\ r.slots[s] \in Buffered(r)
        BY <2>1, <4>1 DEF Aligned, Buffered
      <4>3. r.slots[s] \in Nat
        BY <4>2, StoredPlace
      <4>4. r.slots[s] <= N
        <5> DEFINE y == r.slots[s]
        <5>1. y \in Nat /\ y <= n
          BY <4>2, <4>3
        <5> HIDE DEF y
        <5>2. y <= N
          BY ONLY <1>3, <5>1
        <5> QED
          BY <5>2 DEF y
      <4> QED
        BY <4>1, <4>2, <4>4
    <3> QED
      BY <3>1, <3>2
  <2>2. b <= N + 1 /\ N < b + Window
    BY ONLY <1>2, <1>3, b <= i, i < b + Window, Window \in Nat
  <2> QED
    BY <1>2, <1>3, <1>7, <1>9, <2>1, <2>2 DEF Aligned
<1>14. i \in Buffered(q)
  BY <1>4, <1>10, <1>11 DEF Buffered
<1>15. ASSUME NEW y \in Buffered(r) PROVE y \in Buffered(q)
  <2>1. SlotOf(y) \in 0..(Window - 1) /\ r.slots[SlotOf(y)] = y /\ y # None
    BY StoredPlace
  <2>2. q.slots[SlotOf(y)] = y
    BY <1>10, <1>12, <2>1
  <2> QED
    BY <2>1, <2>2 DEF Buffered
<1> QED
  BY <1>7, <1>13, <1>14, <1>15 DEF q, N

\* What is stored later leaves what was delivered alone.
LEMMA DeliveredMore ==
    ASSUME NEW r, NEW b, NEW f, NEW c, NEW q, Delivered(r, b, f, c), q.out = f.out,
           Buffered(f) \subseteq Buffered(q)
    PROVE  Delivered(r, b, q, c)
BY DEF Delivered

\* Nothing delivered, nothing dropped.
LEMMA DeliveredNothing ==
    ASSUME NEW r, NEW b \in Nat, NEW q, q.out = << >>, Buffered(r) \subseteq Buffered(q)
    PROVE  Delivered(r, b, q, b)
<1>1. 1..Len(q.out) = {}
  OBVIOUS
<1> QED
  BY <1>1 DEF Delivered
\* Packet i is in the ring or has left it.
Has(q, i) == i \in Buffered(q) \/ \E k \in 1..Len(q.out) : q.out[k] = i

\* Of the positions from lo to c, which packet i made ring q out of r pass, only
\* those a window before it were given up, and none while r collected.
Passed(r, i, q, lo, c) ==
    /\ lo <= i => Has(q, i)
    /\ r.phase = 1 /\ q.phase = 2 => lo < c
    /\ \A p \in Nat :
          lo <= p /\ p < c /\ (r.phase = 2 => i < p + Window) =>
             \E k \in 1..Len(q.out) : q.out[k] = p

\* The ring q after packet i was inserted into r: what left it lies from lo to
\* the begin c of its window.
Inserted(r, n, i, q, lo, c) ==
    /\ lo \in Nat /\ Aligned(q, c, Newer(n, i)) /\ Delivered(r, lo, q, c)
    /\ Passed(r, i, q, lo, c)
    /\ q.phase \in {1, 2}
    /\ q.phase = 1 => /\ r.phase # 2 /\ q.out = << >>
                      /\ {c, Newer(n, i)} \subseteq Buffered(q)

\* Nothing passed.
LEMMA PassedNothing ==
    ASSUME NEW r, NEW i, NEW q, NEW b \in Nat, b <= i => Has(q, i), r.phase = 1 => q.phase # 2
    PROVE  Passed(r, i, q, b, b)
BY DEF Passed

\* Everything from lo on was delivered.
LEMMA PassedRun ==
    ASSUME NEW r, NEW i, NEW q, NEW lo \in Nat, NEW k \in Nat, r.phase = 1 => k > 0,
           lo <= i => Has(q, i), RunOut(q, lo, k)
    PROVE  Passed(r, i, q, lo, lo + k)
<1>1. ASSUME NEW p \in Nat, lo <= p, p < lo + k PROVE \E j \in 1..Len(q.out) : q.out[j] = p
  <2> DEFINE j == p - lo + 1
  <2>1. j \in 1..k /\ lo + j - 1 = p
    BY <1>1
  <2> HIDE DEF j
  <2> QED
    BY <2>1 DEF RunOut
<1>2. r.phase = 1 /\ q.phase = 2 => lo < lo + k
  OBVIOUS
<1> QED
  BY <1>1, <1>2 DEF Passed

\* Setting phase and base_seq.
Placed(r, y, x) == [r EXCEPT !.base = y, !.phase = x]

InPhase(r, x) == [r EXCEPT !.phase = x]

\* q is r but for phase and base_seq.
SameStore(r, q, y, x) ==
    /\ q \in RingType(Nat) /\ q.base = y /\ q.phase = x
    /\ q.slots = r.slots /\ q.out = r.out

LEMMA PhaseSet ==
    ASSUME NEW r \in RingType(Nat), NEW x \in 0..2, NEW y \in 0..(SeqMod - 1)
    PROVE  /\ SameStore(r, Placed(r, y, x), y, x)
           /\ SameStore(r, InPhase(r, x), r.base, x)
BY DEF RingType, SameStore, Placed, InPhase

\* Phase 0: the window begins at the first packet.
LEMMA FirstInsert ==
    ASSUME NEW r, NEW b, NEW n, Aligned(r, b, n), r.phase = 0, r.out = << >>,
           n = None, Buffered(r) = {}, NEW i \in Nat
    PROVE  Inserted(r, n, i, InsertPacket(r, i), i, i)
<1> DEFINE p == [r EXCEPT !.base = i % SeqMod, !.phase = 1]
           q == Put(p, i)
<1>1. InsertPacket(r, i) = q
  BY DEF InsertPacket
<1>2. r \in RingType(Nat)
  BY DEF Aligned
<1>3. i \in Nat /\ i % SeqMod \in 0..(SeqMod - 1) /\ Newer(n, i) = i /\ Newer(i, i) = i
  <2>1. i \in Nat /\ i \in Int
    OBVIOUS
  <2>2. i % SeqMod \in 0..(SeqMod - 1)
    BY <2>1, Sizes, Divided
  <2> QED
    BY <2>1, <2>2 DEF Newer, None
<1>4. /\ p \in RingType(Nat) /\ p.base = i % SeqMod /\ p.phase = 1
      /\ p.out = << >> /\ p.slots = r.slots
  <2>1. i % SeqMod \in 0..(SeqMod - 1) /\ 1 \in 0..2
    BY <1>3
  <2>2. SameStore(r, Placed(r, i % SeqMod, 1), i % SeqMod, 1)
    BY ONLY <1>2, <2>1, PhaseSet
  <2>3. p = Placed(r, i % SeqMod, 1)
    BY DEF Placed
  <2> HIDE DEF p
  <2> QED
    BY <2>2, <2>3 DEF SameStore
<1> HIDE DEF p
<1>5. Aligned(p, i, i)
  <2>1. ASSUME NEW s \in 0..(Window - 1) PROVE p.slots[s] = None
    BY <1>4 DEF Buffered
  <2>2. i <= i + 1 /\ i < i + Window
    BY <1>3
  <2> QED
    BY <1>3, <1>4, <2>1, <2>2 DEF Aligned
<1>6. /\ Aligned(q, i, i) /\ q.out = << >> /\ q.phase = 1 /\ i \in Buffered(q)
  <2>1. i <= i /\ i < i + Window
    BY <1>3
  <2> QED
    BY <1>3, <1>4, <1>5, <2>1, PutKeeps
<1> HIDE DEF q
<1>7. Delivered(r, i, q, i)
  BY <1>3, <1>6, DeliveredNothing
<1>8. r.phase # 2 /\ r.phase # 1
  OBVIOUS
<1>9. Passed(r, i, q, i, i)
  BY <1>3, <1>6, <1>8, PassedNothing DEF Has
<1> QED
  BY <1>1, <1>3, <1>6, <1>7, <1>8, <1>9 DEF Inserted

\* Phase 1: the begin of the window moves down to the least packet so far.
LEMMA CollectedKeeps ==
    ASSUME NEW r, NEW b, NEW n, Aligned(r, b, n), {b, n} \subseteq Buffered(r),
           NEW i \in Nat, SeqDiff(i, r.base) = i - b,
           \A k \in Buffered(r) : -Window < i - k /\ i - k < Window
    PROVE  \E lo \in Nat :
              /\ Aligned(Collected(r, i), lo, Newer(n, i))
              /\ Collected(r, i).out = r.out /\ Collected(r, i).phase = r.phase
              /\ Buffered(r) \subseteq Buffered(Collected(r, i))
              /\ {lo, i, Newer(n, i)} \subseteq Buffered(Collected(r, i))
<1>1. r \in RingType(Nat) /\ b \in Nat /\ n \in Nat \cup {None} /\ r.base = b % SeqMod
      /\ b <= n + 1 /\ n < b + Window
  BY DEF Aligned
<1>2. b \in Nat /\ n \in Nat /\ i \in Nat
  BY <1>1, StoredPlace
<1>3. Window \in Nat
  OBVIOUS
<1>4. ASSUME NEW k \in Buffered(r) PROVE k \in Nat /\ -Window < i - k /\ i - k < Window
  BY StoredPlace
<1>5. i < b + Window /\ n < i + Window
  <2>1. i - b < Window /\ -Window < i - n
    BY <1>4
  <2> QED
    BY ONLY <1>2, <1>3, <2>1
<1>6. CASE r.slots[SlotOf(i)] # None
  <2> DEFINE x == r.slots[SlotOf(i)]
  <2>1. SlotOf(i) \in 0..(Window - 1)
    <3>1. i \in Int /\ Window \in Nat \ {0}
      BY <1>2
    <3> QED
      BY <3>1, Divided DEF SlotOf
  <2>2. x \in Buffered(r) /\ SlotOf(i) = SlotOf(x)
    BY <1>6, <2>1 DEF Buffered, Aligned
  <2> HIDE DEF x
  <2>3. x \in Nat /\ -Window < i - x /\ i - x < Window /\ x <= n
    BY <1>4, <2>2, StoredPlace
  <2>4. i = x
    <3>1. Window \in Nat \ {0} /\ i \in Int /\ x \in Int /\ i % Window = x % Window
      BY <1>2, <2>2, <2>3 DEF SlotOf
    <3> QED
      BY ONLY <2>3, <3>1, ModSame
  <2>5. Newer(n, i) = n
    BY <1>2, <2>3, <2>4 DEF Newer
  <2>6. Collected(r, i) = r
    BY <1>6 DEF Collected
  <2> QED
    BY <1>1, <2>2, <2>4, <2>5, <2>6
<1>7. CASE r.slots[SlotOf(i)] = None
  <2> DEFINE lo == IF i < b THEN i ELSE b
             base == IF SeqDiff(i, r.base) < 0 THEN i % SeqMod ELSE r.base
             p == [r EXCEPT !.base = base]
  <2>1. lo \in Nat /\ lo <= b /\ lo <= i /\ (lo = i \/ lo = b) /\ i < lo + Window /\ n < lo + Window /\ lo <= n + 1
    BY ONLY <1>1, <1>2, <1>3, <1>5
  <2>2. base = lo % SeqMod
    BY <1>1, <1>2
  <2> HIDE DEF lo, base
  <2>3. base \in 0..(SeqMod - 1)
    <3>1. lo \in Int
      BY <2>1
    <3> QED
      BY <2>2, <3>1, Sizes, Divided
  <2>4. Collected(r, i) = Put(p, i)
    BY <1>7 DEF Collected, base
  <2>5. p \in RingType(Nat) /\ p.base = base /\ p.slots = r.slots /\ p.out = r.out /\ p.phase = r.phase
    BY <1>1, <2>3 DEF RingType
  <2> HIDE DEF p
  <2>6. Aligned(p, lo, n)
    <3>1. ASSUME NEW s \in 0..(Window - 1), p.slots[s] # None
          PROVE  s = SlotOf(p.slots[s]) /\ lo <= p.slots[s] /\ p.slots[s] <= n
      <4> DEFINE x == r.slots[s]
      <4>1. x \in Buffered(r) /\ s = SlotOf(x) /\ x <= n
        BY <2>5, <3>1 DEF Buffered, Aligned
      <4> HIDE DEF x
      <4>2. x \in Nat /\ b <= x
        BY <4>1, StoredPlace
      <4>3. lo <= x
        BY ONLY <1>2, <2>1, <4>2
      <4> QED
        BY <2>5, <4>1, <4>3 DEF x
    <3> QED
      BY <1>1, <2>1, <2>2, <2>5, <3>1 DEF Aligned
  <2>7. Buffered(p) = Buffered(r)
    BY <2>5 DEF Buffered
  <2>8. /\ Aligned(Put(p, i), lo, Newer(n, i))
        /\ Put(p, i).out = p.out /\ Put(p, i).phase = p.phase
        /\ Buffered(p) \subseteq Buffered(Put(p, i)) /\ i \in Buffered(Put(p, i))
    BY ONLY <2>1, <2>6, PutKeeps, i \in Nat
  <2>9. Newer(n, i) = n \/ Newer(n, i) = i
    BY DEF Newer
  <2>10. {lo, i, Newer(n, i)} \subseteq Buffered(Put(p, i))
    BY <2>1, <2>7, <2>8, <2>9
  <2> QED
    BY <2>1, <2>4, <2>5, <2>7, <2>8, <2>10
<1> QED
  BY <1>6, <1>7

LEMMA CollectInsert ==
    ASSUME NEW r, NEW b, NEW n, Aligned(r, b, n), {b, n} \subseteq Buffered(r), r.phase = 1,
           r.out = << >>, NEW i \in Nat, SeqDiff(i, r.base) = i - b,
           \A k \in Buffered(r) : -Window < i - k /\ i - k < Window
    PROVE  \E lo, c \in Nat : lo <= i /\ Inserted(r, n, i, InsertPacket(r, i), lo, c)
<1> DEFINE p == Collected(r, i)
           f == [p EXCEPT !.phase = 2]
           N == Newer(n, i)
<1>1. PICK lo \in Nat : /\ Aligned(p, lo, N) /\ p.out = << >> /\ p.phase = 1
                        /\ Buffered(r) \subseteq Buffered(p) /\ {lo, i, N} \subseteq Buffered(p)
  BY CollectedKeeps
<1>2. InsertPacket(r, i) = IF p.count < Collect THEN p ELSE FlushConsecutive(f)
  BY DEF InsertPacket
<1> HIDE DEF p, N
<1>0. lo <= i
  BY <1>1, StoredPlace
<1>3. CASE p.count < Collect
  <2>1. Delivered(r, lo, p, lo)
    BY <1>1, DeliveredNothing
  <2>2. Passed(r, i, p, lo, lo)
    BY <1>1, PassedNothing DEF Has
  <2>3. Inserted(r, n, i, p, lo, lo)
    BY <1>1, <2>1, <2>2 DEF Inserted, N
  <2> QED
    BY <1>0, <1>2, <1>3, <2>3
<1>4. CASE ~(p.count < Collect)
  <2>1. /\ f \in RingType(Nat) /\ f.phase = 2 /\ f.base = p.base /\ f.slots = p.slots /\ f.out = p.out
    <3>1. p \in RingType(Nat) /\ 2 \in 0..2 /\ p.base \in 0..(SeqMod - 1)
      BY <1>1, RingFields DEF Aligned
    <3>2. SameStore(p, InPhase(p, 2), p.base, 2)
      BY ONLY <3>1, PhaseSet
    <3>3. f = InPhase(p, 2)
      BY DEF InPhase
    <3> HIDE DEF f
    <3> QED
      BY <3>2, <3>3 DEF SameStore
  <2> HIDE DEF f
  <2>2. Aligned(f, lo, N)
    BY <1>1, <2>1 DEF Aligned
  <2> DEFINE g == FlushConsecutive(f)
             k == Flushed(f)
             c == lo + k
  <2>3. /\ k \in 0..Window /\ Aligned(g, c, N) /\ Delivered(f, lo, g, c) /\ g.phase = f.phase
        /\ RunOut(g, lo, k)
    <3>1. f.out = << >>
      BY <1>1, <2>1
    <3> QED
      BY <2>2, <3>1, FlushDelivers
  <2>4. Buffered(r) \subseteq Buffered(f) /\ {lo, i} \subseteq Buffered(f)
    <3>1. Buffered(f) = Buffered(p)
      BY ONLY <2>1 DEF Buffered
    <3> QED
      BY ONLY <1>1, <3>1
  <2>5. k > 0
    <3>1. f.count = p.count /\ f.count > 0
      <4>1. p.count \in 0..(CountMod - 1) /\ Collect \in Nat \ {0} /\ CountMod \in Nat
        BY <1>1, RingFields, CountRange DEF Aligned
      <4>2. f.count = p.count
        BY DEF f
      <4> QED
        BY <1>4, <4>1, <4>2
    <3>2. RunLength(f.slots, f.base) # 0
      <4>1. f.slots[SlotOf(lo)] # None /\ f.base = lo % SeqMod
        BY <2>2, <2>4, StoredPlace DEF Aligned
      <4>2. SlotOf(f.base + 0) = SlotOf(lo + 0) /\ f.base \in Int /\ f.base + 0 = f.base /\ lo + 0 = lo
        <5>1. f.base \in 0..(SeqMod - 1)
          BY <2>1, RingFields
        <5> QED
          BY <4>1, <5>1, SlotShift
      <4>3. f.slots[SlotOf(f.base + 0)] # None
        BY <4>1, <4>2
      <4>4. \/ RunLength(f.slots, f.base) = Window
            \/ f.slots[SlotOf(f.base + RunLength(f.slots, f.base))] = None
        BY RunExists
      <4> QED
        BY <4>3, <4>4
    <3>3. RunLength(f.slots, f.base) \in 0..Window
      BY RunExists
    <3> QED
      BY <3>1, <3>2, <3>3 DEF Flushed
  <2> HIDE DEF f, g, k
  <2>6. Delivered(r, lo, g, c)
    BY <2>3, <2>4 DEF Delivered
  <2>7. Passed(r, i, g, lo, c)
    <3>1. Has(g, i)
      BY <2>3, <2>4 DEF Delivered, Has
    <3>2. k \in Nat
      BY <2>3
    <3> QED
      BY <2>3, <2>5, <3>1, <3>2, PassedRun
  <2>8. c \in Nat /\ g.phase = 2
    BY <2>1, <2>3
  <2>9. Inserted(r, n, i, g, lo, c)
    BY <2>3, <2>6, <2>7, <2>8 DEF Inserted, N
  <2> QED
    BY <1>0, <1>2, <1>4, <2>8, <2>9 DEF f, g
<1> QED
  BY <1>3, <1>4

\* The expected packet while nothing waits: the window moves on by one.
PassedOn(r, i) == [r EXCEPT !.base = (r.base + 1) % SeqMod, !.out = Append(r.out, i)]

LEMMA StraightThrough ==
    ASSUME NEW r, NEW b, NEW n, Aligned(r, b, n), r.phase = 2, r.out = << >>,
           NEW i \in Nat, i = b, r.slots[SlotOf(i)] = None
    PROVE  Inserted(r, n, i, PassedOn(r, i), b, b + 1)
<1> DEFINE q == PassedOn(r, i)
           y == (r.base + 1) % SeqMod
           N == Newer(n, i)
<1>1. /\ r \in RingType(Nat)
      /\ r.phase \in 0..2 /\ r.base \in 0..(SeqMod - 1) /\ r.count \in 0..(CountMod - 1)
      /\ r.slots \in [0..(Window - 1) -> Nat \cup {None}] /\ r.out \in Seq(Nat)
  BY RingFields DEF Aligned
<1>2. b \in Nat /\ r.base = b % SeqMod /\ n \in Nat \cup {None} /\ b <= n + 1 /\ n < b + Window
  BY DEF Aligned
<1>3. N \in Nat /\ n \in Int /\ i \in Nat /\ n <= N /\ i <= N /\ (N = n \/ N = i)
  BY <1>2, NewerIs
<1> HIDE DEF N
<1>4. y = (b + 1) % SeqMod /\ y \in 0..(SeqMod - 1)
  <2>1. SeqMod \in Nat \ {0} /\ b \in Int /\ 1 \in Int /\ b + 1 \in Int
    BY <1>2, Sizes
  <2>2. ((b % SeqMod) + 1) % SeqMod = (b + 1) % SeqMod
    BY ONLY <2>1, ModShift
  <2>3. (b + 1) % SeqMod \in 0..(SeqMod - 1)
    BY ONLY <2>1, Divided
  <2> QED
    BY <1>2, <2>2, <2>3
<1>5. q = [r EXCEPT !.base = y, !.out = <<i>>]
  BY DEF PassedOn
<1> HIDE DEF q, y
<1>6. /\ q.slots = r.slots /\ q.base = y /\ q.out = <<i>> /\ q.phase = 2 /\ q \in RingType(Nat)
  <2> DEFINE d == <<i>>
  <2>1. d \in Seq(Nat) /\ q = [r EXCEPT !.base = y, !.out = d] /\ r.phase = 2
    BY <1>5
  <2> HIDE DEF d
  <2>2. /\ q.slots = r.slots /\ q.base = y /\ q.out = d /\ q.phase = r.phase /\ q \in RingType(Nat)
    BY ONLY <1>1, <1>4, <2>1 DEF RingType
  <2> QED
    BY <2>1, <2>2 DEF d
<1>7. Aligned(q, b + 1, N)
  <2>1. ASSUME NEW s \in 0..(Window - 1), q.slots[s] # None
        PROVE  s = SlotOf(q.slots[s]) /\ b + 1 <= q.slots[s] /\ q.slots[s] <= N
    <3> DEFINE x == r.slots[s]
    <3>1. x \in Buffered(r) /\ s = SlotOf(x) /\ x <= n /\ x # None
      BY <1>6, <2>1 DEF Buffered, Aligned
    <3>2. x # i
      BY <3>1
    <3> HIDE DEF x
    <3>3. x \in Nat /\ b <= x
      BY <3>1, StoredPlace
    <3>4. b + 1 <= x /\ x <= N
      BY ONLY <1>2, <1>3, <3>1, <3>2, <3>3, i = b
    <3> QED
      BY <1>6, <3>1, <3>4 DEF x
  <2>2. b + 1 \in Nat /\ b + 1 <= N + 1 /\ N < b + 1 + Window
    BY ONLY <1>2, <1>3, i = b, Window \in Nat \ {0}
  <2>3. q.base = (b + 1) % SeqMod
    BY <1>4, <1>6
  <2> QED
    BY <1>3, <1>6, <2>1, <2>2, <2>3 DEF Aligned
<1>8. Delivered(r, b, q, b + 1)
  <2>1. Len(q.out) = 1 /\ q.out[1] = b
    BY <1>6
  <2>2. ASSUME NEW k \in 1..Len(q.out) PROVE k = 1 /\ q.out[k] = b
    BY <2>1
  <2>3. Buffered(q) = Buffered(r)
    BY <1>6 DEF Buffered
  <2>4. b <= b /\ b < b + 1 /\ b <= b + 1
    BY <1>2
  <2> QED
    BY <2>1, <2>2, <2>3, <2>4 DEF Delivered
<1>9. Passed(r, i, q, b, b + 1)
  <2>1. Len(q.out) = 1 /\ q.out[1] = b /\ q.out[1] = i /\ 1 \in 1..Len(q.out)
    BY <1>6
  <2>2. Has(q, i)
    BY <2>1 DEF Has
  <2>3. \A j \in 1..1 : q.out[j] = b + j - 1
    BY <1>2, <2>1
  <2>4. r.phase # 1
    OBVIOUS
  <2> QED
    BY <1>2, <2>1, <2>2, <2>3, <2>4, PassedRun DEF RunOut
<1> QED
  BY <1>2, <1>6, <1>7, <1>8, <1>9 DEF Inserted, N, q

\* Phase 2, the expected packet.
LEMMA ExpectedInsert ==
    ASSUME NEW r, NEW b, NEW n, Aligned(r, b, n), r.phase = 2, r.out = << >>,
           NEW i \in Nat, i = b
    PROVE  \E c \in Nat : Inserted(r, n, i, Expected(r, i), b, c)
<1>1. b \in Nat /\ b + 1 \in Nat /\ b <= i /\ i < b + Window
  BY DEF Aligned
<1>2. CASE r.count = 0 /\ r.slots[SlotOf(i)] = None
  <2>1. Expected(r, i) = PassedOn(r, i)
    BY <1>2 DEF Expected, PassedOn
  <2>2. Inserted(r, n, i, PassedOn(r, i), b, b + 1)
    BY <1>2, StraightThrough
  <2> QED
    BY <1>1, <2>1, <2>2
<1>3. CASE ~(r.count = 0 /\ r.slots[SlotOf(i)] = None)
  <2> DEFINE p == Put(r, i)
             N == Newer(n, i)
  <2>1. Expected(r, i) = FlushConsecutive(p)
    BY <1>3 DEF Expected
  <2>2. /\ Aligned(p, b, N) /\ p.out = << >> /\ p.phase = 2
        /\ Buffered(r) \subseteq Buffered(p) /\ i \in Buffered(p)
    BY <1>1, PutKeeps
  <2> HIDE DEF p, N
  <2> DEFINE g == FlushConsecutive(p)
             k == Flushed(p)
             c == b + k
  <2>3. /\ k \in 0..Window /\ Aligned(g, c, N) /\ Delivered(p, b, g, c) /\ g.phase = 2
        /\ RunOut(g, b, k)
    BY <2>2, FlushDelivers
  <2> HIDE DEF g, k
  <2>4. Delivered(r, b, g, c)
    BY <2>2, <2>3 DEF Delivered
  <2>5. Passed(r, i, g, b, c)
    <3>1. Has(g, i)
      BY <2>2, <2>3 DEF Delivered, Has
    <3>2. k \in Nat /\ r.phase # 1
      BY <2>3
    <3> QED
      BY <1>1, <2>3, <3>1, <3>2, PassedRun
  <2>6. c \in Nat
    BY <1>1, <2>3
  <2>7. Inserted(r, n, i, g, b, c)
    BY <1>1, <2>3, <2>4, <2>5 DEF Inserted, N
  <2> QED
    BY <2>1, <2>6, <2>7 DEF g
<1> QED
  BY <1>2, <1>3

\* Phase 2, a packet ahead of a hole.
LEMMA AheadInsert ==
    ASSUME NEW r, NEW b, NEW n, Aligned(r, b, n), r.phase = 2, r.out = << >>,
           NEW i \in Nat, b < i, SeqDiff(i, r.base) = i - b
    PROVE  \E c \in Nat : Inserted(r, n, i, Ahead(r, i), b, c)
<1> DEFINE f == ForceFlushUntil(r, i)
           s == f.slots[SlotOf(i)]
           N == Newer(n, i)
<1>1. b \in Nat /\ n \in Nat \cup {None} /\ b <= n + 1 /\ n < b + Window
  BY DEF Aligned
<1>2. N \in Nat /\ n \in Int /\ i \in Nat /\ n <= N /\ i <= N /\ (N = n \/ N = i)
  BY <1>1, NewerIs
<1>3. PICK c \in Nat, m \in {n, i} :
         /\ Aligned(f, c, m) /\ Delivered(r, b, f, c) /\ f.phase = 2
         /\ c <= i /\ i < c + Window /\ Newer(m, i) = N
         /\ c = b \/ c = i - Window + 1
  <2>1. CASE i < b + Window
    <3>1. SeqDiff(i, r.base) - Window + 1 <= 0
      BY <1>1, <1>2, <2>1
    <3>2. f = r
      BY <3>1 DEF ForceFlushUntil
    <3>3. Delivered(r, b, r, b)
      BY <1>1, DeliveredNothing
    <3>4. b <= i
      BY <1>1, <1>2
    <3> QED
      BY <1>1, <2>1, <3>2, <3>3, <3>4
  <2>2. CASE ~(i < b + Window)
    <3>1. b + Window <= i
      BY ONLY <1>1, <1>2, <2>2, Window \in Nat
    <3>2. /\ Aligned(f, i - Window + 1, i) /\ Delivered(r, b, f, i - Window + 1) /\ f.phase = 2
      BY <3>1, ForceDelivers
    <3>3. /\ i - Window + 1 \in Nat /\ i - Window + 1 <= i /\ i < (i - Window + 1) + Window
      BY ONLY <1>1, <1>2, <3>1, Window \in Nat \ {0}
    <3>4. Newer(i, i) = N
      <4>1. n < i
        BY ONLY <1>1, <1>2, <3>1, Window \in Nat
      <4> QED
        BY <1>2, <4>1 DEF Newer
    <3> QED
      BY <3>2, <3>3, <3>4
  <2> QED
    BY <2>1, <2>2
<1>4. Ahead(r, i) = IF s # None /\ s % SeqMod = i % SeqMod THEN f ELSE Put(f, i)
  BY DEF Ahead
<1> HIDE DEF f, N
<1>7. ASSUME NEW q, Has(q, i) PROVE Passed(r, i, q, b, c)
  <2>1. ASSUME NEW p \in Nat, b <= p, p < c, i < p + Window PROVE FALSE
    BY ONLY <1>1, <1>2, <1>3, <2>1, Window \in Nat \ {0}
  <2>2. r.phase = 2
    OBVIOUS
  <2> QED
    BY <1>7, <2>1, <2>2 DEF Passed
<1>5. CASE s # None /\ s % SeqMod = i % SeqMod
  <2> DEFINE j == i - c
  <2>1. j \in 0..(Window - 1) /\ c + j = i
    BY ONLY <1>2, <1>3, Window \in Nat
  <2> HIDE DEF j
  <2>2. c + j <= m
    <3>1. f.slots[SlotOf(c + j)] # None
      BY <1>5, <2>1
    <3> QED
      BY <1>3, <2>1, <3>1, SlotContent
  <2>3. N = m
    <3>1. i <= m /\ m \in Int
      BY <1>2, <2>1, <2>2
    <3> QED
      BY <1>2, <1>3, <3>1 DEF Newer
  <2>4. Has(f, i)
    BY <1>3, <1>5, <2>1, SlotContent DEF Has
  <2>5. Inserted(r, n, i, f, b, c)
    BY <1>1, <1>3, <1>7, <2>3, <2>4 DEF Inserted, N
  <2> QED
    BY <1>4, <1>5, <2>5
<1>6. CASE ~(s # None /\ s % SeqMod = i % SeqMod)
  <2> DEFINE q == Put(f, i)
  <2>1. /\ Aligned(q, c, N) /\ q.out = f.out /\ q.phase = 2 /\ Buffered(f) \subseteq Buffered(q)
        /\ Has(q, i)
    BY <1>3, PutKeeps DEF Has
  <2> HIDE DEF q
  <2>2. Delivered(r, b, q, c)
    BY <1>3, <2>1, DeliveredMore
  <2>3. Inserted(r, n, i, q, b, c)
    BY <1>1, <1>7, <2>1, <2>2 DEF Inserted, N
  <2> QED
    BY <1>4, <1>6, <2>3 DEF q
<1> QED
  BY <1>5, <1>6

LEMMA ActiveInsert ==
    ASSUME NEW r, NEW b, NEW n, Aligned(r, b, n), r.phase = 2, r.out = << >>,
           NEW i \in Nat, SeqDiff(i, r.base) = i - b
    PROVE  \E c \in Nat : Inserted(r, n, i, InsertPacket(r, i), b, c)
<1>1. b \in Nat /\ n \in Nat \cup {None} /\ b <= n + 1
  BY DEF Aligned
<1>2. i \in Nat /\ n \in Int
  BY <1>1 DEF None
<1>3. CASE i = b
  <2>1. SeqDiff(i, r.base) = 0
    BY <1>2, <1>3
  <2>2. InsertPacket(r, i) = Expected(r, i)
    BY <2>1 DEF InsertPacket
  <2> QED
    BY <1>3, <2>2, ExpectedInsert
<1>4. CASE i < b
  <2>1. SeqDiff(i, r.base) < 0 /\ SeqDiff(i, r.base) # 0 /\ ~(SeqDiff(i, r.base) > 0)
    BY <1>1, <1>2, <1>4
  <2>2. InsertPacket(r, i) = r
    BY <2>1 DEF InsertPacket
  <2>3. Newer(n, i) = n
    BY <1>1, <1>2, <1>4 DEF Newer
  <2>4. Delivered(r, b, r, b)
    BY <1>1, DeliveredNothing
  <2>5. Passed(r, i, r, b, b)
    BY <1>1, <1>2, <1>4, PassedNothing
  <2>6. Inserted(r, n, i, r, b, b)
    BY <1>1, <2>3, <2>4, <2>5 DEF Inserted
  <2> QED
    BY <1>1, <2>2, <2>6
<1>5. CASE b < i
  <2>1. SeqDiff(i, r.base) > 0 /\ SeqDiff(i, r.base) # 0 /\ ~(SeqDiff(i, r.base) < 0)
    BY <1>1, <1>2, <1>5
  <2>2. InsertPacket(r, i) = Ahead(r, i)
    BY <2>1 DEF InsertPacket
  <2> QED
    BY <1>5, <2>2, AheadInsert
<1> QED
  BY <1>1, <1>2, <1>3, <1>4, <1>5
-----------------------------------------------------------------------------
(* The steps of RtpReorder.                                                *)

USE ReorderAssumption

\* What a step may deliver, and what it may not lose.
OrderStep ==
    \A k \in 1..Len(ring'.out) :
        (IF k = 1 THEN lastOut ELSE ring'.out[k - 1]) < ring'.out[k]

KeepStep ==
    ring'.phase # 0 =>
        \A i \in Buffered(ring) :
            i \in Buffered(ring') \/ \E k \in 1..Len(ring'.out) : ring'.out[k] = i

\* The ring the caller hands to rtp_reorder_insert: what was delivered before
\* is gone.
Taken == [ring EXCEPT !.out = << >>]

LEMMA RingWider ==
    ASSUME NEW P, P \subseteq Nat, NEW r \in RingType(P)
    PROVE  r \in RingType(Nat)
<1>1. r.slots \in [0..(Window - 1) -> Nat \cup {None}] /\ r.out \in Seq(Nat)
  BY DEF RingType
<1> QED
  BY <1>1 DEF RingType

LEMMA RingNarrower ==
    ASSUME NEW P, NEW r \in RingType(Nat), Buffered(r) \subseteq P,
           \A k \in 1..Len(r.out) : r.out[k] \in P
    PROVE  r \in RingType(P)
<1>1. r.slots \in [0..(Window - 1) -> P \cup {None}]
  BY DEF RingType, Buffered
<1>2. r.out \in Seq(P)
  <2>1. r.out \in Seq(Nat)
    BY DEF RingType
  <2>2. /\ Len(r.out) \in Nat /\ DOMAIN r.out = 1..Len(r.out)
        /\ r.out = [k \in 1..Len(r.out) |-> r.out[k]]
    BY ONLY <2>1
  <2>3. r.out \in [1..Len(r.out) -> P]
    BY <2>2
  <2> QED
    BY ONLY <2>2, <2>3
<1> QED
  BY <1>1, <1>2 DEF RingType

LEMMA TakenIs ==
    ASSUME TypeOK, NEW b \in 0..(Last + 1), WindowAt(b)
    PROVE  /\ Taken \in RingType(Positions)
           /\ Aligned(Taken, b, newest) /\ Taken.out = << >> /\ Taken.phase = ring.phase
           /\ Buffered(Taken) = Buffered(ring)
<1> DEFINE e == << >>
           q == [ring EXCEPT !.out = e]
<1>1. e \in Seq(Positions) /\ Taken = q
  BY DEF Taken
<1>2. ring \in RingType(Positions) /\ newest \in Positions \cup {None}
  BY DEF TypeOK
<1> HIDE DEF e
<1>3. /\ q \in RingType(Positions) /\ q.out = e /\ q.phase = ring.phase /\ q.base = ring.base
      /\ q.slots = ring.slots
  BY ONLY <1>1, <1>2 DEF RingType
<1> HIDE DEF q
<1>4. Buffered(q) = Buffered(ring)
  BY ONLY <1>3 DEF Buffered
<1>5. b \in Nat
  OBVIOUS
<1>6. Aligned(q, b, newest)
  <2>1. q \in RingType(Nat) /\ newest \in Nat \cup {None}
    BY <1>2, <1>3, RingWider DEF Positions
  <2> QED
    BY <1>3, <1>5, <2>1 DEF Aligned, WindowAt
<1> QED
  BY <1>1, <1>3, <1>4, <1>6 DEF e

\* A packet the network hands over is less than half the range from base_seq.
LEMMA ArrivalNear ==
    ASSUME TypeOK, NEW b \in 0..(Last + 1), WindowAt(b), newest # None, NEW i \in Arrivals
    PROVE  i \in Positions /\ SeqDiff(i, ring.base) = i - b
<1>1. i \in Positions /\ newest - MaxLate <= i /\ i <= newest + MaxJump
  BY DEF Arrivals
<1>2. b \in Nat /\ ring.base = b % SeqMod /\ b <= newest + 1 /\ newest < b + Window
  BY DEF WindowAt
<1>3. i \in Nat /\ newest \in Nat
  BY <1>1 DEF Positions, TypeOK
<1> DEFINE h == SeqMod \div 2
<1>4. h \in Nat /\ MaxLate + MaxJump + Window < h /\ MaxLate \in Nat /\ MaxJump \in Nat /\ Window \in Nat \ {0}
  BY Sizes
<1> HIDE DEF h
<1>5. -h < i - b /\ i - b < h
  BY ONLY <1>1, <1>2, <1>3, <1>4
<1> QED
  BY <1>1, <1>2, <1>3, <1>5, DiffIs DEF h

\* Every way through rtp_reorder_insert.
LEMMA InsertPlaces ==
    ASSUME TypeOK, NEW b \in 0..(Last + 1), WindowAt(b), NEW i \in Arrivals
    PROVE  /\ i \in Positions
           /\ \E lo, c \in Nat : /\ Inserted(Taken, newest, i, InsertPacket(Taken, i), lo, c)
                                 /\ lastOut < lo
<1>1. /\ Aligned(Taken, b, newest) /\ Taken.out = << >> /\ Taken.phase = ring.phase
      /\ Buffered(Taken) = Buffered(ring)
  BY TakenIs
<1>2. /\ b \in Nat /\ ring.phase \in 0..2 /\ Taken.base = b % SeqMod /\ ring.base = b % SeqMod
      /\ lastOut < b
  BY <1>1, RingFields DEF Aligned, WindowAt, TypeOK
<1>3. CASE ring.phase = 0
  <2>1. newest = None /\ Buffered(ring) = {} /\ lastOut = None
    BY <1>3 DEF WindowAt
  <2>2. i \in Positions
    BY <2>1 DEF Arrivals, Positions
  <2>3. i \in Nat /\ lastOut < i
    BY <2>1, <2>2 DEF Positions, None
  <2>4. Inserted(Taken, newest, i, InsertPacket(Taken, i), i, i)
    BY <1>1, <1>3, <2>1, <2>3, FirstInsert
  <2> QED
    BY <2>2, <2>3, <2>4
<1>4. CASE ring.phase = 1
  <2>1. newest # None /\ {b, newest} \subseteq Buffered(ring) /\ lastOut = None
    BY <1>4 DEF WindowAt
  <2>2. i \in Positions /\ i \in Nat /\ SeqDiff(i, Taken.base) = i - b
    BY <1>2, <2>1, ArrivalNear DEF Positions
  <2>3. ASSUME NEW k \in Buffered(Taken) PROVE -Window < i - k /\ i - k < Window
    <3>1. -InitSpread < i - k /\ i - k < InitSpread
      BY <1>1, <1>4, <2>1 DEF Arrivals
    <3>2. k \in Nat /\ i \in Nat
      BY <1>1, <2>2, StoredPlace DEF Positions
    <3> QED
      BY <3>1, <3>2
  <2>4. PICK lo \in Nat, c \in Nat : Inserted(Taken, newest, i, InsertPacket(Taken, i), lo, c)
    BY <1>1, <1>4, <2>1, <2>2, <2>3, CollectInsert
  <2>5. lastOut < lo
    BY <2>1 DEF None
  <2> QED
    BY <2>2, <2>4, <2>5
<1>5. CASE ring.phase = 2
  <2>1. newest # None
    BY <1>5 DEF WindowAt
  <2>2. i \in Positions /\ i \in Nat /\ SeqDiff(i, Taken.base) = i - b
    BY <1>2, <2>1, ArrivalNear DEF Positions
  <2>3. PICK c \in Nat : Inserted(Taken, newest, i, InsertPacket(Taken, i), b, c)
    BY <1>1, <1>5, <2>2, ActiveInsert
  <2> QED
    BY <1>2, <2>2, <2>3
<1> QED
  BY <1>2, <1>3, <1>4, <1>5

\* A call of rtp_reorder_insert keeps the window in place and delivers in order.
LEMMA InsertStep ==
    ASSUME WindowInv, NEW i \in Arrivals, Insert(i)
    PROVE  WindowInv' /\ OrderStep /\ KeepStep
<1>1. PICK b \in 0..(Last + 1) : WindowAt(b)
  BY DEF WindowInv, WindowAligned
<1>2. TypeOK /\ newest \in Positions \cup {None} /\ lastOut \in Positions \cup {None}
  BY DEF WindowInv, TypeOK
<1>3. i \in Positions
  BY <1>1, <1>2, InsertPlaces
<1>4. PICK lo \in Nat, c \in Nat : /\ Inserted(Taken, newest, i, InsertPacket(Taken, i), lo, c)
                                   /\ lastOut < lo
  BY <1>1, <1>2, InsertPlaces
<1>5. /\ ring' = InsertPacket(Taken, i) /\ newest' = Newer(newest, i)
      /\ lastOut' = IF ring'.out = << >> THEN lastOut ELSE ring'.out[Len(ring'.out)]
  BY DEF Insert, Taken, Newer
<1>6. /\ Aligned(ring', c, newest') /\ Delivered(Taken, lo, ring', c)
      /\ ring'.phase \in {1, 2}
      /\ ring'.phase = 1 => /\ Taken.phase # 2 /\ ring'.out = << >>
                            /\ {c, newest'} \subseteq Buffered(ring')
  BY <1>4, <1>5 DEF Inserted
<1>7. Taken.phase = ring.phase /\ Buffered(Taken) = Buffered(ring)
  BY <1>1, <1>2, TakenIs
<1>8. newest' \in Positions /\ newest' \in Nat /\ newest' # None
  <2>1. newest \in Nat \cup {None} /\ i \in Nat
    BY <1>2, <1>3 DEF Positions
  <2>2. Newer(newest, i) \in Nat /\ (Newer(newest, i) = newest \/ Newer(newest, i) = i)
    BY <2>1, NewerIs
  <2>3. Newer(newest, i) # None
    BY <2>2 DEF None
  <2> QED
    BY <1>2, <1>3, <1>5, <2>2, <2>3
<1>9. ring' \in RingType(Positions) /\ ring'.out \in Seq(Positions) /\ ring'.base = c % SeqMod
      /\ c <= newest' + 1 /\ newest' < c + Window
  <2> DEFINE q == ring'
             m == newest'
  <2>1. /\ Aligned(q, c, m) /\ Delivered(Taken, lo, q, c) /\ m \in 0..Last /\ m \in Nat
    BY <1>6, <1>8 DEF Positions
  <2> HIDE DEF q, m
  <2>2. q \in RingType(Nat) /\ q.base = c % SeqMod /\ c <= m + 1 /\ m < c + Window
    BY <2>1 DEF Aligned
  <2>3. ASSUME NEW x \in Buffered(q) PROVE x \in Positions
    <3>1. x \in Nat /\ x <= m
      BY <2>1, StoredPlace
    <3> QED
      BY <2>1, <3>1 DEF Positions
  <2>4. ASSUME NEW k \in 1..Len(q.out) PROVE q.out[k] \in Positions
    <3>1. q.out[k] \in Nat
      <4>1. q.out \in Seq(Nat) /\ k \in 1..Len(q.out)
        BY <2>2, RingFields
      <4> QED
        BY ONLY <4>1
    <3>2. q.out[k] < c
      BY <2>1 DEF Delivered
    <3> QED
      BY <2>1, <2>2, <3>1, <3>2 DEF Positions
  <2>5. q \in RingType(Positions)
    BY <2>2, <2>3, <2>4, RingNarrower
  <2>6. q.out \in Seq(Positions)
    BY <2>5 DEF RingType
  <2> QED
    BY <2>2, <2>5, <2>6 DEF q, m
<1>10. lastOut \in Int /\ lo <= c
  BY <1>2, <1>6 DEF Positions, None, Delivered
<1>11. lastOut' \in Positions \cup {None} /\ lastOut' < c
  <2>1. CASE ring'.out = << >>
    <3>1. lastOut' = lastOut
      BY <1>5, <2>1
    <3>2. lastOut < c
      BY ONLY <1>4, <1>10
    <3> QED
      BY <1>2, <3>1, <3>2
  <2>2. CASE ring'.out # << >>
    <3>1. Len(ring'.out) \in 1..Len(ring'.out)
      BY <1>9, <2>2
    <3>2. ring'.out[Len(ring'.out)] \in Positions
      BY <1>9, <3>1
    <3>3. ring'.out[Len(ring'.out)] < c
      BY <1>6, <3>1 DEF Delivered
    <3> QED
      BY <1>5, <2>2, <3>2, <3>3
  <2> QED
    BY <2>1, <2>2
<1>12. OrderStep
  <2>1. ASSUME NEW k \in 1..Len(ring'.out)
        PROVE  (IF k = 1 THEN lastOut ELSE ring'.out[k - 1]) < ring'.out[k]
    <3>1. CASE k = 1
      <4> DEFINE x == ring'.out[k]
      <4>1. x \in Nat /\ lo <= x
        <5>1. lo <= ring'.out[k]
          BY <1>6 DEF Delivered
        <5>2. ring'.out \in Seq(Positions) /\ k \in 1..Len(ring'.out)
          BY <1>9
        <5>3. ring'.out[k] \in Positions
          BY ONLY <5>2
        <5>4. ring'.out[k] \in Nat
          BY <5>3 DEF Positions
        <5> QED
          BY <5>1, <5>4
      <4> HIDE DEF x
      <4>2. lastOut < x
        BY ONLY <1>4, <1>10, <4>1
      <4> QED
        BY <3>1, <4>2 DEF x
    <3>2. CASE k # 1
      <4>1. k - 1 \in 1..Len(ring'.out) /\ k - 1 < k
        BY <1>9, <3>2
      <4>2. ring'.out[k - 1] < ring'.out[k]
        BY <1>6, <4>1 DEF Delivered
      <4> QED
        BY <3>2, <4>2
    <3> QED
      BY <3>1, <3>2
  <2> QED
    BY <2>1 DEF OrderStep
<1>13. KeepStep
  BY <1>6, <1>7 DEF Delivered, KeepStep
<1>14. c \in 0..(Last + 1)
  <2> DEFINE z == newest'
  <2>1. z \in 0..Last /\ c <= z + 1 /\ c \in Nat /\ Last \in Nat
    BY <1>8, <1>9 DEF Positions
  <2> HIDE DEF z
  <2>2. z \in Nat /\ z <= Last
    BY ONLY <2>1
  <2>3. c <= Last + 1
    BY ONLY <2>1, <2>2
  <2> QED
    BY ONLY <2>1, <2>3
<1>15. WindowAt(c)'
  <2>1. \A s \in 0..(Window - 1) :
           ring'.slots[s] # None =>
              s = SlotOf(ring'.slots[s]) /\ c <= ring'.slots[s] /\ ring'.slots[s] <= newest'
    BY <1>6 DEF Aligned
  <2>2. ring'.phase # 2 => lastOut' = None
    <3>1. ASSUME ring'.phase # 2 PROVE lastOut' = lastOut /\ ring.phase # 2
      BY <1>5, <1>6, <1>7, <3>1
    <3>2. ring.phase # 2 => lastOut = None
      BY <1>1 DEF WindowAt
    <3> QED
      BY <3>1, <3>2
  <2>3. ring'.phase # 0
    BY <1>6
  <2>4. ring'.phase = 1 => {c, newest'} \subseteq Buffered(ring')
    BY <1>6
  <2> QED
    BY <1>8, <1>9, <1>11, <2>1, <2>2, <2>3, <2>4 DEF WindowAt, Buffered
<1>16. TypeOK'
  BY <1>8, <1>9, <1>11 DEF TypeOK, RingType, Positions
<1> QED
  BY <1>12, <1>13, <1>14, <1>15, <1>16 DEF WindowInv, WindowAligned

\* rtp_reorder_init: the window of an empty ring may begin anywhere.
LEMMA EmptyAligned ==
    /\ EmptyRing \in RingType(Positions) /\ EmptyRing.phase = 0 /\ EmptyRing.base = 0 % SeqMod
    /\ EmptyRing.out = << >> /\ Buffered(EmptyRing) = {}
    /\ \A s \in 0..(Window - 1) : EmptyRing.slots[s] = None
<1> DEFINE e == << >>
           t == [s \in 0..(Window - 1) |-> None]
<1>1. EmptyRing = [phase |-> 0, base |-> 0, slots |-> t, count |-> 0, out |-> e]
  BY DEF EmptyRing
<1>2. e \in Seq(Positions)
  OBVIOUS
<1>3. /\ t \in [0..(Window - 1) -> Positions \cup {None}]
      /\ \A s \in 0..(Window - 1) : t[s] = None
  OBVIOUS
<1>4. 0 \in 0..(CountMod - 1)
  BY CountRange
<1>5. 0 \in 0..(SeqMod - 1) /\ 0 % SeqMod = 0
  BY Sizes
<1> HIDE DEF t, e
<1>6. /\ EmptyRing \in RingType(Positions) /\ EmptyRing.phase = 0 /\ EmptyRing.base = 0
      /\ EmptyRing.out = e /\ EmptyRing.slots = t
  BY <1>1, <1>2, <1>3, <1>4, <1>5 DEF RingType
<1>7. Buffered(EmptyRing) = {}
  BY <1>3, <1>6 DEF Buffered
<1> QED
  BY <1>3, <1>5, <1>6, <1>7 DEF e

LEMMA InitWindow == Init => WindowInv
<1> SUFFICES ASSUME Init PROVE WindowInv
  OBVIOUS
<1>1. ring = EmptyRing /\ newest = None /\ lastOut = None
  BY DEF Init
<1>2. TypeOK
  BY <1>1, EmptyAligned DEF TypeOK
<1>3. 0 \in 0..(Last + 1)
  OBVIOUS
<1>4. WindowAt(0)
  <2>1. None < 0 /\ 0 <= None + 1 /\ None < 0 + Window
    BY DEF None
  <2> QED
    BY <1>1, <2>1, EmptyAligned DEF WindowAt
<1> QED
  BY <1>2, <1>3, <1>4 DEF WindowInv, WindowAligned

LEMMA ReinitStep ==
    ASSUME Reinit
    PROVE  WindowInv' /\ OrderStep /\ KeepStep
<1>1. Init'
  BY DEF Reinit, Init
<1>2. WindowInv'
  BY <1>1, InitWindow, PTL
<1>3. ring'.out = << >> /\ ring'.phase = 0
  BY EmptyAligned DEF Reinit
<1>4. 1..Len(ring'.out) = {}
  BY <1>3
<1> QED
  BY <1>2, <1>3, <1>4 DEF OrderStep, KeepStep

-----------------------------------------------------------------------------
\* The window of rtp_reorder.c begins at one position of the sender's stream:
\* across the wrap of the sequence number, under loss, duplication and delay,
\* base_seq is the number of that position, every stored packet lies within a
\* window of it in its own slot, and all that was delivered lies before it.
THEOREM WindowInvariant == Spec => []WindowInv
<1>1. WindowInv /\ [Next]_vars => WindowInv'
  <2> SUFFICES ASSUME WindowInv, [Next]_vars PROVE WindowInv'
    OBVIOUS
  <2>1. ASSUME NEW i \in Arrivals, Insert(i) PROVE WindowInv'
    BY <2>1, InsertStep
  <2>2. CASE Reinit
    BY <2>2, ReinitStep
  <2>3. CASE UNCHANGED vars
    BY <2>3 DEF WindowInv, WindowAligned, WindowAt, TypeOK, vars, Buffered
  <2> QED
    BY <2>1, <2>2, <2>3 DEF Next
<1> QED
  BY <1>1, InitWindow, PTL DEF Spec

\* What rtp_reorder.c promises the client: packets leave in the sender's order
\* and none twice, and one that was stored is delivered when it leaves its
\* slot, whatever count says.
THEOREM ReorderedDelivery == Spec => Reordered
<1>1. WindowInv /\ [Next]_vars => [OrderStep]_vars /\ [KeepStep]_vars
  <2> SUFFICES ASSUME WindowInv, Next PROVE OrderStep /\ KeepStep
    OBVIOUS
  <2>1. ASSUME NEW i \in Arrivals, Insert(i) PROVE OrderStep /\ KeepStep
    BY <2>1, InsertStep
  <2>2. CASE Reinit
    BY <2>2, ReinitStep
  <2> QED
    BY <2>1, <2>2 DEF Next
<1>2. Spec => [][OrderStep]_vars /\ [][KeepStep]_vars
  BY <1>1, WindowInvariant, PTL DEF Spec
<1> QED
  BY <1>2 DEF Reordered, InOrder, StoredIsDelivered, OrderStep, KeepStep

HIDE ReorderAssumption

-----------------------------------------------------------------------------
(* The ring of an FCC session: the packets that one call takes in.         *)

\* The types do not depend on where the window begins.
LEMMA SlotInt ==
    ASSUME NEW j \in Int
    PROVE  SlotOf(j) \in 0..(Window - 1)
<1>1. Window \in Nat \ {0}
  OBVIOUS
<1> QED
  BY <1>1, Divided DEF SlotOf

LEMMA CountInt ==
    ASSUME NEW k \in Int
    PROVE  k % CountMod \in 0..(CountMod - 1)
BY CountRange, Divided

LEMMA NumberInt ==
    ASSUME NEW k \in Int
    PROVE  k % SeqMod \in 0..(SeqMod - 1)
BY Sizes, Divided

LEMMA DiffInt ==
    ASSUME NEW a \in Int, NEW b \in Int
    PROVE  SeqDiff(a, b) \in Int
<1>1. a - b \in Int
  OBVIOUS
<1>2. (a - b) % SeqMod \in 0..(SeqMod - 1)
  BY <1>1, NumberInt
<1> QED
  BY <1>2, Sizes DEF SeqDiff

LEMMA PlacedTyped ==
    ASSUME NEW P, NEW r \in RingType(P), NEW x \in 0..2, NEW y \in 0..(SeqMod - 1)
    PROVE  /\ Placed(r, y, x) \in RingType(P) /\ Placed(r, y, x).out = r.out
           /\ InPhase(r, x) \in RingType(P) /\ InPhase(r, x).out = r.out
BY DEF RingType, Placed, InPhase

LEMMA PutTyped ==
    ASSUME NEW P, NEW r \in RingType(P), NEW i \in P, P \subseteq Nat
    PROVE  Put(r, i) \in RingType(P) /\ Put(r, i).out = r.out /\ Put(r, i).phase = r.phase
<1> DEFINE x == (r.count + 1) % CountMod
           t == [r.slots EXCEPT ![SlotOf(i)] = i]
<1>1. SlotOf(i) \in 0..(Window - 1)
  <2>1. i \in Int
    OBVIOUS
  <2> QED
    BY <2>1, SlotInt
<1>2. t \in [0..(Window - 1) -> P \cup {None}]
  BY <1>1 DEF RingType
<1>3. x \in 0..(CountMod - 1)
  <2>1. r.count + 1 \in Int
    BY CountRange DEF RingType
  <2> QED
    BY <2>1, CountInt
<1>4. Put(r, i) = [r EXCEPT !.slots = t, !.count = x]
  BY DEF Put, RingType
<1> HIDE DEF x, t
<1> QED
  BY <1>2, <1>3, <1>4 DEF RingType

LEMMA ClearedTyped ==
    ASSUME NEW P, NEW s \in [0..(Window - 1) -> P \cup {None}], NEW b, NEW k
    PROVE  Cleared(s, b, k) \in [0..(Window - 1) -> P \cup {None}]
BY DEF Cleared

LEMMA FlushTyped ==
    ASSUME NEW P, NEW r \in RingType(P), r.out = << >>
    PROVE  FlushConsecutive(r) \in RingType(P) /\ FlushConsecutive(r).phase = r.phase
<1> DEFINE k == Flushed(r)
           s == Cleared(r.slots, r.base, k)
           d == [j \in 1..k |-> r.slots[SlotOf(r.base + j - 1)]]
           y == (r.base + k) % SeqMod
<1>1. /\ r.slots \in [0..(Window - 1) -> P \cup {None}] /\ r.base \in 0..(SeqMod - 1)
      /\ r.count \in 0..(CountMod - 1) /\ r.count \in Nat /\ r.base \in Nat
  BY Sizes, CountRange DEF RingType
<1>2. k \in 0..Window /\ k <= r.count /\ k <= RunLength(r.slots, r.base)
  <2>1. RunLength(r.slots, r.base) \in 0..Window
    BY RunExists
  <2> QED
    BY <1>1, <2>1 DEF Flushed
<1>3. FlushConsecutive(r) = [r EXCEPT !.slots = s, !.base = y, !.count = r.count - k, !.out = r.out \o d]
  BY DEF FlushConsecutive, Flushed
<1> HIDE DEF k
<1>4. d \in Seq(P)
  <2>1. ASSUME NEW j \in 1..k PROVE r.slots[SlotOf(r.base + j - 1)] \in P
    <3>1. j - 1 \in 0..(RunLength(r.slots, r.base) - 1) /\ r.base + (j - 1) = r.base + j - 1
      BY <1>1, <1>2, RunExists
    <3>2. r.slots[SlotOf(r.base + (j - 1))] # None
      BY <3>1, RunExists
    <3>3. SlotOf(r.base + (j - 1)) \in 0..(Window - 1)
      <4>1. r.base + (j - 1) \in Int
        BY <1>1, <3>1
      <4> QED
        BY <4>1, SlotInt
    <3> QED
      BY <1>1, <3>1, <3>2, <3>3
  <2>2. k \in Nat
    BY <1>2
  <2> QED
    BY <2>1, <2>2
<1>5. s \in [0..(Window - 1) -> P \cup {None}]
  BY <1>1, ClearedTyped
<1>6. y \in 0..(SeqMod - 1)
  <2>1. r.base + k \in Int
    BY <1>1, <1>2
  <2> QED
    BY <2>1, NumberInt
<1>7. r.count - k \in 0..(CountMod - 1)
  <2> DEFINE x == r.count
  <2>1. x \in 0..(CountMod - 1) /\ k \in Nat /\ k <= x /\ x \in Nat
    BY <1>1, <1>2
  <2> HIDE DEF x
  <2>2. x - k \in 0..(CountMod - 1)
    BY ONLY <2>1, CountRange
  <2> QED
    BY <2>2 DEF x
<1>8. r.out \o d = d
  BY <1>4
<1> HIDE DEF s, d, y
<1> QED
  BY <1>3, <1>4, <1>5, <1>6, <1>7, <1>8 DEF RingType

LEMMA HeldTyped ==
    ASSUME NEW P, NEW s \in [0..(Window - 1) -> P \cup {None}], NEW b \in Int, NEW m \in Nat
    PROVE  Held(s, b, m) \in Seq(P) /\ Len(Held(s, b, m)) \in Nat
<1> DEFINE S == {j \in 0..(m - 1) : s[SlotOf(b + j)] # None}
<1>1. S \subseteq 0..(m - 1)
  OBVIOUS
<1>2. Held(s, b, m) = [k \in 1..Cardinality(S) |-> s[SlotOf(b + Nth(S, k))]]
  BY DEF Held, Nth, Rank
<1>3. ASSUME NEW j \in S PROVE s[SlotOf(b + j)] \in P
  <2>1. SlotOf(b + j) \in 0..(Window - 1)
    BY SlotInt
  <2> QED
    BY <2>1
<1> HIDE DEF S
<1>4. Cardinality(S) \in Nat /\ \A k \in 1..Cardinality(S) : Nth(S, k) \in S
  BY <1>1, Enumerated
<1>5. \A k \in 1..Cardinality(S) : s[SlotOf(b + Nth(S, k))] \in P
  BY <1>3, <1>4
<1>6. Held(s, b, m) \in Seq(P)
  BY <1>2, <1>4, <1>5
<1> QED
  BY <1>6

LEMMA ForceTyped ==
    ASSUME NEW P, NEW r \in RingType(P), r.out = << >>, NEW i \in Int
    PROVE  ForceFlushUntil(r, i) \in RingType(P) /\ ForceFlushUntil(r, i).phase = r.phase
<1> DEFINE n == SeqDiff(i, r.base) - Window + 1
           reach == IF n < Window THEN n ELSE Window
           h == Held(r.slots, r.base, reach)
           s == Cleared(r.slots, r.base, reach)
           y == (r.base + n) % SeqMod
           x == (r.count - Len(h)) % CountMod
<1>1. /\ r.slots \in [0..(Window - 1) -> P \cup {None}] /\ r.base \in 0..(SeqMod - 1)
      /\ r.count \in 0..(CountMod - 1) /\ r.count \in Int /\ r.base \in Int
  BY Sizes, CountRange DEF RingType
<1>2. SeqDiff(i, r.base) \in Int
  BY <1>1, DiffInt
<1>3. n \in Int
  BY <1>2
<1>4. CASE n <= 0
  BY <1>4 DEF ForceFlushUntil
<1>5. CASE ~(n <= 0)
  <2>1. ForceFlushUntil(r, i) = [r EXCEPT !.slots = s, !.base = y, !.count = x, !.out = r.out \o h]
    BY <1>5 DEF ForceFlushUntil
  <2>2. reach \in Nat
    BY <1>3, <1>5
  <2>8. n \in Int
    BY <1>3
  <2> HIDE DEF n, reach
  <2>3. h \in Seq(P) /\ Len(h) \in Nat
    BY <1>1, <2>2, HeldTyped
  <2>4. s \in [0..(Window - 1) -> P \cup {None}]
    BY <1>1, ClearedTyped
  <2>5. y \in 0..(SeqMod - 1)
    <3>1. r.base + n \in Int
      BY <1>1, <2>8
    <3> QED
      BY <3>1, NumberInt
  <2>6. x \in 0..(CountMod - 1)
    <3>1. r.count - Len(h) \in Int
      BY <1>1, <2>3
    <3> QED
      BY <3>1, CountInt
  <2>7. r.out \o h = h
    BY <2>3
  <2> HIDE DEF h, s, x, y
  <2> QED
    BY <2>1, <2>3, <2>4, <2>5, <2>6, <2>7 DEF RingType
<1> QED
  BY <1>4, <1>5

LEMMA InsertTyped ==
    ASSUME NEW P, P \subseteq Nat, NEW r \in RingType(P), r.out = << >>, NEW i \in P
    PROVE  InsertPacket(r, i) \in RingType(P)
<1>1. /\ r.phase \in 0..2 /\ r.base \in 0..(SeqMod - 1) /\ r.base \in Int /\ i \in Int
      /\ r.slots \in [0..(Window - 1) -> P \cup {None}]
  BY Sizes DEF RingType
<1>2. SeqDiff(i, r.base) \in Int
  BY <1>1, DiffInt
<1>3. i % SeqMod \in 0..(SeqMod - 1)
  BY <1>1, NumberInt
<1>4. CASE r.phase = 0
  <2> DEFINE p == [r EXCEPT !.base = i % SeqMod, !.phase = 1]
  <2>1. InsertPacket(r, i) = Put(p, i)
    BY <1>4 DEF InsertPacket
  <2>2. p \in RingType(P)
    <3>1. p = Placed(r, i % SeqMod, 1) /\ 1 \in 0..2
      BY DEF Placed
    <3>2. Placed(r, i % SeqMod, 1) \in RingType(P)
      BY ONLY <1>3, <3>1, PlacedTyped, r \in RingType(P)
    <3> HIDE DEF p
    <3> QED
      BY <3>1, <3>2
  <2> HIDE DEF p
  <2> QED
    BY <2>1, <2>2, PutTyped
<1>5. CASE r.phase = 1
  <2> DEFINE c == Collected(r, i)
             f == [c EXCEPT !.phase = 2]
             y == IF SeqDiff(i, r.base) < 0 THEN i % SeqMod ELSE r.base
             p == [r EXCEPT !.base = y]
  <2>1. InsertPacket(r, i) = IF c.count < Collect THEN c ELSE FlushConsecutive(f)
    BY <1>5 DEF InsertPacket
  <2>2. p \in RingType(P) /\ p.out = << >>
    <3>1. y \in 0..(SeqMod - 1)
      BY <1>1, <1>3
    <3> HIDE DEF y
    <3> QED
      BY <3>1 DEF RingType
  <2>3. c = r \/ c = Put(p, i)
    BY DEF Collected
  <2> HIDE DEF p
  <2>4. c \in RingType(P) /\ c.out = << >>
    <3>1. Put(p, i) \in RingType(P) /\ Put(p, i).out = << >>
      BY <2>2, PutTyped
    <3> HIDE DEF c
    <3> QED
      BY <2>3, <3>1
  <2> HIDE DEF c
  <2>5. f \in RingType(P) /\ f.out = << >>
    <3>1. f = InPhase(c, 2) /\ 2 \in 0..2 /\ c.base \in 0..(SeqMod - 1)
      BY <2>4 DEF InPhase, RingType
    <3> QED
      BY <2>4, <3>1, PlacedTyped
  <2> HIDE DEF f
  <2> QED
    BY <2>1, <2>4, <2>5, FlushTyped
<1>6. CASE r.phase = 2
  <2>1. CASE SeqDiff(i, r.base) = 0
    <3>1. InsertPacket(r, i) = Expected(r, i)
      BY <1>6, <2>1 DEF InsertPacket
    <3>2. CASE r.count = 0 /\ r.slots[SlotOf(i)] = None
      <4> DEFINE y == (r.base + 1) % SeqMod
                 d == Append(r.out, i)
      <4>1. Expected(r, i) = [r EXCEPT !.base = y, !.out = d]
        BY <3>2 DEF Expected
      <4>2. y \in 0..(SeqMod - 1) /\ d \in Seq(P)
        <5>1. r.base + 1 \in Int
          BY <1>1
        <5>2. y \in 0..(SeqMod - 1)
          BY <5>1, NumberInt
        <5>3. d \in Seq(P)
          OBVIOUS
        <5> QED
          BY <5>2, <5>3
      <4> HIDE DEF y, d
      <4> QED
        BY <3>1, <4>1, <4>2 DEF RingType
    <3>3. CASE ~(r.count = 0 /\ r.slots[SlotOf(i)] = None)
      <4>1. Expected(r, i) = FlushConsecutive(Put(r, i))
        BY <3>3 DEF Expected
      <4>2. Put(r, i) \in RingType(P) /\ Put(r, i).out = << >>
        BY PutTyped
      <4> QED
        BY <3>1, <4>1, <4>2, FlushTyped
    <3> QED
      BY <3>2, <3>3
  <2>2. CASE SeqDiff(i, r.base) < 0
    BY <1>2, <1>6, <2>2 DEF InsertPacket
  <2>3. CASE SeqDiff(i, r.base) > 0
    <3> DEFINE f == ForceFlushUntil(r, i)
    <3>1. f \in RingType(P)
      BY <1>1, ForceTyped
    <3>2. Ahead(r, i) = f \/ Ahead(r, i) = Put(f, i)
      BY DEF Ahead
    <3>3. InsertPacket(r, i) = Ahead(r, i)
      BY <1>2, <1>6, <2>3 DEF InsertPacket
    <3> HIDE DEF f
    <3> QED
      BY <3>1, <3>2, <3>3, PutTyped
  <2> QED
    BY <1>2, <2>1, <2>2, <2>3
<1> QED
  BY <1>1, <1>4, <1>5, <1>6

-----------------------------------------------------------------------------
(* One packet through the ring to the client.                              *)

In(s, p) == \E k \in 1..Len(s) : s[k] = p

Ascending(s) == \A k, l \in 1..Len(s) : k < l => s[k] < s[l]

LEMMA SeqFacts ==
    ASSUME NEW S, NEW s \in Seq(S)
    PROVE  /\ Len(s) \in Nat
           /\ \A k \in 1..Len(s) : s[k] \in S
           /\ s # << >> => 1 \in 1..Len(s)
           /\ S \subseteq Nat => s \in Seq(Nat)
           /\ << >> \o s = s
OBVIOUS

LEMMA Concat ==
    ASSUME NEW S, NEW s \in Seq(S), NEW t \in Seq(S)
    PROVE  /\ s \o t \in Seq(S) /\ Len(s \o t) = Len(s) + Len(t)
           /\ Len(s) \in Nat /\ Len(t) \in Nat
           /\ \A k \in 1..Len(s) : (s \o t)[k] = s[k]
           /\ \A k \in 1..Len(t) : (s \o t)[Len(s) + k] = t[k]
           /\ \A p : In(s \o t, p) <=> In(s, p) \/ In(t, p)
<1> DEFINE u == s \o t
<1>1. u \in Seq(S) /\ Len(u) = Len(s) + Len(t) /\ Len(s) \in Nat /\ Len(t) \in Nat
  OBVIOUS
<1>2. \A k \in 1..Len(s) : u[k] = s[k]
  OBVIOUS
<1>3. \A k \in 1..Len(t) : u[Len(s) + k] = t[k]
  OBVIOUS
<1> HIDE DEF u
<1>4. ASSUME NEW p PROVE In(u, p) <=> In(s, p) \/ In(t, p)
  <2>1. ASSUME NEW k \in 1..Len(u), u[k] = p PROVE In(s, p) \/ In(t, p)
    <3>1. CASE k <= Len(s)
      <4>1. k \in 1..Len(s)
        BY <1>1, <3>1
      <4> QED
        BY <1>2, <2>1, <4>1 DEF In
    <3>2. CASE ~(k <= Len(s))
      <4>1. k - Len(s) \in 1..Len(t) /\ Len(s) + (k - Len(s)) = k
        BY <1>1, <3>2
      <4>2. t[k - Len(s)] = p
        BY <1>3, <2>1, <4>1
      <4> QED
        BY <4>1, <4>2 DEF In
    <3> QED
      BY <3>1, <3>2
  <2>2. ASSUME NEW k \in 1..Len(s), s[k] = p PROVE In(u, p)
    <3>1. k \in 1..Len(u)
      BY <1>1
    <3> QED
      BY <1>2, <2>2, <3>1 DEF In
  <2>3. ASSUME NEW k \in 1..Len(t), t[k] = p PROVE In(u, p)
    <3>1. Len(s) + k \in 1..Len(u)
      BY <1>1
    <3> QED
      BY <1>3, <2>3, <3>1 DEF In
  <2> QED
    BY <2>1, <2>2, <2>3 DEF In
<1> QED
  BY <1>1, <1>2, <1>3, <1>4 DEF u

\* What is delivered later comes after what was delivered before.
LEMMA AscendingOn ==
    ASSUME NEW s \in Seq(Nat), NEW t \in Seq(Nat), NEW b \in Nat, Ascending(s), Ascending(t),
           \A k \in 1..Len(s) : s[k] < b, \A k \in 1..Len(t) : b <= t[k]
    PROVE  Ascending(s \o t)
<1> DEFINE u == s \o t
<1>1. /\ u \in Seq(Nat) /\ Len(u) = Len(s) + Len(t) /\ Len(s) \in Nat /\ Len(t) \in Nat
      /\ \A k \in 1..Len(s) : u[k] = s[k]
      /\ \A k \in 1..Len(t) : u[Len(s) + k] = t[k]
  BY Concat
<1> HIDE DEF u
<1>2. ASSUME NEW k \in 1..Len(u), ~(k \in 1..Len(s))
      PROVE  k - Len(s) \in 1..Len(t) /\ u[k] = t[k - Len(s)]
  <2>1. k - Len(s) \in 1..Len(t) /\ Len(s) + (k - Len(s)) = k
    BY <1>1, <1>2
  <2> QED
    BY <1>1, <2>1
<1>3. ASSUME NEW k \in 1..Len(u), NEW l \in 1..Len(u), k < l PROVE u[k] < u[l]
  <2>1. CASE k \in 1..Len(s) /\ l \in 1..Len(s)
    BY <1>1, <1>3, <2>1 DEF Ascending
  <2>2. CASE k \in 1..Len(s) /\ ~(l \in 1..Len(s))
    <3>1. u[k] = s[k] /\ s[k] \in Nat /\ s[k] < b
      <4>1. k \in 1..Len(s)
        BY <2>2
      <4>2. s[k] \in Nat
        BY <4>1
      <4> QED
        BY <1>1, <4>1, <4>2
    <3>2. l - Len(s) \in 1..Len(t) /\ u[l] = t[l - Len(s)]
      BY <1>2, <2>2
    <3>3. t[l - Len(s)] \in Nat /\ b <= t[l - Len(s)]
      BY <3>2
    <3> QED
      BY ONLY b \in Nat, <3>1, <3>2, <3>3
  <2>3. CASE ~(k \in 1..Len(s)) /\ ~(l \in 1..Len(s))
    <3>1. k - Len(s) \in 1..Len(t) /\ u[k] = t[k - Len(s)]
      BY <1>2, <2>3
    <3>2. l - Len(s) \in 1..Len(t) /\ u[l] = t[l - Len(s)]
      BY <1>2, <2>3
    <3>3. k - Len(s) < l - Len(s)
      BY <1>1, <1>3
    <3> QED
      BY <3>1, <3>2, <3>3 DEF Ascending
  <2>4. ~(k \in 1..Len(s)) => ~(l \in 1..Len(s))
    BY <1>1, <1>3
  <2> QED
    BY <2>1, <2>2, <2>3, <2>4
<1> QED
  BY <1>3 DEF Ascending, u

LEMMA Streams ==
    ASSUME FccAssumption
    PROVE  /\ UniFirst \in Nat /\ LiveFirst \in Nat /\ StreamEnd \in Nat
           /\ UniFirst <= LiveFirst /\ LiveFirst <= StreamEnd
           /\ StreamEnd - UniFirst < SeqMod \div 2
           /\ MaxLead \in 0..(Window - 1) /\ MaxOverrun \in 0..(Window - 1)
           /\ StreamPositions \subseteq Nat
           /\ \A p : p \in StreamPositions <=> p \in Nat /\ UniFirst <= p /\ p <= StreamEnd
BY DEF FccAssumption, StreamPositions

\* The ring and what the client got, of the right types.
Typed(x) ==
    /\ x.reorder \in RingType(StreamPositions) /\ x.reorder.out = << >>
    /\ x.played \in Seq(StreamPositions) /\ x.apart \in BOOLEAN

\* r with what it delivered taken away.
Emptied(r) == [r EXCEPT !.out = << >>]

LEMMA EmptiedIs ==
    ASSUME NEW P, P \subseteq Nat, NEW r \in RingType(P)
    PROVE  /\ Emptied(r) \in RingType(P) /\ Emptied(r).out = << >>
           /\ Emptied(r).phase = r.phase /\ Emptied(r).base = r.base
           /\ Emptied(r).slots = r.slots /\ Emptied(r).count = r.count
           /\ Buffered(Emptied(r)) = Buffered(r)
           /\ \A b, n : Aligned(r, b, n) <=> Aligned(Emptied(r), b, n)
<1> DEFINE e == << >>
           q == [r EXCEPT !.out = e]
<1>1. e \in Seq(P) /\ Emptied(r) = q
  BY DEF Emptied
<1> HIDE DEF e
<1>2. /\ q \in RingType(P) /\ q.out = e /\ q.phase = r.phase /\ q.base = r.base
      /\ q.slots = r.slots /\ q.count = r.count
  BY ONLY <1>1, r \in RingType(P) DEF RingType
<1> HIDE DEF q
<1>3. Buffered(q) = Buffered(r)
  BY ONLY <1>2 DEF Buffered
<1>4. q \in RingType(Nat) /\ r \in RingType(Nat)
  BY ONLY <1>2, P \subseteq Nat, r \in RingType(P), RingWider
<1>5. ASSUME NEW b, NEW n PROVE Aligned(r, b, n) <=> Aligned(q, b, n)
  BY ONLY <1>2, <1>4 DEF Aligned
<1> QED
  BY <1>1, <1>2, <1>3, <1>5 DEF e

LEMMA HandledIs ==
    ASSUME NEW x, NEW i
    PROVE  /\ Handled(x, i).reorder = Emptied(InsertPacket(x.reorder, i))
           /\ Handled(x, i).played = x.played \o InsertPacket(x.reorder, i).out
           /\ Handled(x, i).apart = (x.apart \/ Apart(x.reorder, i))
BY DEF Handled, Emptied

LEMMA HandledTyped ==
    ASSUME FccAssumption, NEW x, Typed(x), NEW i \in StreamPositions
    PROVE  Typed(Handled(x, i))
<1> DEFINE r == InsertPacket(x.reorder, i)
<1>1. StreamPositions \subseteq Nat
  BY Streams
<1>2. r \in RingType(StreamPositions)
  BY <1>1, InsertTyped DEF Typed
<1> HIDE DEF r
<1>3. r.out \in Seq(StreamPositions)
  BY <1>2 DEF RingType
<1>4. x.played \o r.out \in Seq(StreamPositions)
  BY <1>3, Concat DEF Typed
<1>5. Emptied(r) \in RingType(StreamPositions) /\ Emptied(r).out = << >>
  BY <1>1, <1>2, EmptiedIs
<1>6. Handled(x, i).apart \in BOOLEAN
  BY HandledIs DEF Typed, Apart
<1> QED
  BY <1>4, <1>5, <1>6, HandledIs DEF Typed, r

\* A window that begins at b, with n the newest packet, and all that the client
\* got before it.
Flowing(x, b, n) ==
    /\ Aligned(x.reorder, b, n)
    /\ x.reorder.phase = 0 => n = None /\ Buffered(x.reorder) = {}
    /\ x.reorder.phase # 0 => UniFirst <= b /\ n \in StreamPositions
    /\ x.reorder.phase = 1 => {b, n} \subseteq Buffered(x.reorder)
    /\ x.reorder.phase = 2 <=> x.played # << >>
    /\ Ascending(x.played)
    /\ \A k \in 1..Len(x.played) : x.played[k] < b

\* From z to the begin b of the window the client got every packet, but for
\* those before its first one.
NoHole(x, b, z) ==
    x.reorder.phase = 2 =>
        \A p \in StreamPositions : z <= p /\ p < b /\ x.played[1] <= p => In(x.played, p)

\* Packet j is in the ring, the client got it or has begun after it.
Kept(x, j) ==
    \/ j \in Buffered(x.reorder)
    \/ In(x.played, j)
    \/ x.played # << >> /\ j < x.played[1]

\* What the step from x to y by packet i leaves of it, when c is the new begin.
Onwards(x, b, i, y, c) ==
    /\ ~y.apart
    /\ x.reorder.phase = 2 => y.reorder.phase = 2
    /\ \A z \in Nat :
          NoHole(x, b, z) /\ (x.reorder.phase = 2 => i < z + Window) => NoHole(y, c, z)
    /\ x.reorder.phase = 2 =>
          /\ \A j \in StreamPositions : Kept(x, j) => Kept(y, j)
          /\ NoHole(x, b, i) => Kept(y, i)

\* Numbers of the stream are compared like its positions.
LEMMA StreamDiff ==
    ASSUME FccAssumption, NEW i \in StreamPositions, NEW b \in Nat,
           UniFirst <= b, b <= StreamEnd + 1
    PROVE  SeqDiff(i, b % SeqMod) = i - b
<1> DEFINE h == SeqMod \div 2
<1>1. /\ i \in Nat /\ UniFirst <= i /\ i <= StreamEnd /\ UniFirst \in Nat /\ StreamEnd \in Nat
      /\ StreamEnd - UniFirst < h /\ h \in Nat
  BY Streams, Sizes
<1> HIDE DEF h
<1>2. -h <= i - b /\ i - b < h
  BY <1>1
<1> QED
  BY <1>1, <1>2, DiffIs DEF h

LEMMA FlowInserted ==
    ASSUME FccAssumption, NEW x, Typed(x), NEW b, NEW n, Flowing(x, b, n),
           NEW i \in StreamPositions, ~Apart(x.reorder, i)
    PROVE  \E lo, c \in Nat :
              /\ Inserted(x.reorder, n, i, InsertPacket(x.reorder, i), lo, c)
              /\ x.reorder.phase = 2 => lo = b
<1> DEFINE r == x.reorder
<1>1. /\ Aligned(r, b, n) /\ r.out = << >> /\ r.phase \in 0..2 /\ b \in Nat /\ r.base = b % SeqMod
      /\ i \in Nat
  BY RingFields, Streams DEF Flowing, Typed, Aligned
<1>2. r.phase # 0 => SeqDiff(i, r.base) = i - b
  <2> SUFFICES ASSUME r.phase # 0 PROVE SeqDiff(i, r.base) = i - b
    OBVIOUS
  <2>1. UniFirst <= b /\ n \in Nat /\ n <= StreamEnd /\ b <= n + 1 /\ StreamEnd \in Nat
    BY Streams DEF Flowing, Aligned
  <2>2. b <= StreamEnd + 1
    BY ONLY <1>1, <2>1
  <2> QED
    BY <1>1, <2>1, <2>2, StreamDiff
<1>3. CASE r.phase = 0
  <2>1. n = None /\ Buffered(r) = {}
    BY <1>3 DEF Flowing
  <2> HIDE DEF r
  <2>2. Inserted(r, n, i, InsertPacket(r, i), i, i)
    BY <1>1, <1>3, <2>1, FirstInsert
  <2>3. r.phase # 2
    BY <1>3
  <2> QED
    BY <1>1, <2>2, <2>3 DEF r
<1>4. CASE r.phase = 1
  <2>1. {b, n} \subseteq Buffered(r) /\ SeqDiff(i, r.base) = i - b
    BY <1>2, <1>4 DEF Flowing
  <2>2. ASSUME NEW k \in Buffered(r) PROVE -Window < i - k /\ i - k < Window
    <3>1. ~(i >= k + Window) /\ ~(k >= i + Window)
      BY <1>4 DEF Apart
    <3>2. k \in Nat
      BY <1>1, StoredPlace
    <3>3. i \in Nat /\ Window \in Nat
      BY <1>1
    <3> QED
      BY ONLY <3>1, <3>2, <3>3
  <2> HIDE DEF r
  <2>3. PICK lo \in Nat, c \in Nat : Inserted(r, n, i, InsertPacket(r, i), lo, c)
    BY <1>1, <1>4, <2>1, <2>2, CollectInsert
  <2>4. r.phase # 2
    BY <1>4
  <2> QED
    BY <2>3, <2>4 DEF r
<1>5. CASE r.phase = 2
  <2>1. SeqDiff(i, r.base) = i - b
    BY <1>2, <1>5
  <2> HIDE DEF r
  <2>2. PICK c \in Nat : Inserted(r, n, i, InsertPacket(r, i), b, c)
    BY <1>1, <1>5, <2>1, ActiveInsert
  <2> QED
    BY <1>1, <2>2 DEF r
<1> QED
  BY <1>1, <1>3, <1>4, <1>5

\* The window after packet i, and what the client got before it.
LEMMA HandleFlows ==
    ASSUME FccAssumption, NEW x, Typed(x), ~x.apart, NEW b, NEW n, Flowing(x, b, n),
           NEW i \in StreamPositions, ~Apart(x.reorder, i)
    PROVE  \E c \in Nat, m \in StreamPositions :
              Flowing(Handled(x, i), c, m) /\ Onwards(x, b, i, Handled(x, i), c)
<1> DEFINE r == x.reorder
           q == InsertPacket(x.reorder, i)
           y == Handled(x, i)
           d == q.out
           m == Newer(n, i)
<1>1. PICK lo \in Nat, c \in Nat : Inserted(r, n, i, q, lo, c) /\ (r.phase = 2 => lo = b)
  BY FlowInserted
<1>2. /\ StreamPositions \subseteq Nat /\ i \in Nat /\ UniFirst \in Nat /\ UniFirst <= i
  BY Streams
<1>3. /\ r \in RingType(StreamPositions) /\ r.out = << >> /\ r.phase \in 0..2
      /\ x.played \in Seq(StreamPositions) /\ x.played \in Seq(Nat)
  <2>1. r \in RingType(StreamPositions) /\ r.out = << >> /\ x.played \in Seq(StreamPositions)
    BY DEF Typed
  <2> HIDE DEF r
  <2>2. r.phase \in 0..2
    BY <2>1 DEF RingType
  <2>3. x.played \in Seq(Nat)
    BY ONLY <1>2, <2>1, SeqFacts
  <2> QED
    BY <2>1, <2>2, <2>3
<1>4. q \in RingType(StreamPositions)
  BY <1>2, <1>3, InsertTyped
<1>5. /\ y.reorder = Emptied(q) /\ y.played = x.played \o d /\ ~y.apart
  BY HandledIs
<1>6. /\ Aligned(r, b, n) /\ b \in Nat /\ n \in Nat \cup {None}
      /\ r.phase # 0 => UniFirst <= b /\ n \in StreamPositions
      /\ r.phase = 0 => n = None
      /\ r.phase = 2 <=> x.played # << >>
      /\ Ascending(x.played)
      /\ \A k \in 1..Len(x.played) : x.played[k] < b
  BY DEF Flowing, Aligned
<1> HIDE DEF r, q, y
<1>7. /\ y.reorder \in RingType(StreamPositions) /\ y.reorder.phase = q.phase
      /\ Buffered(y.reorder) = Buffered(q) /\ Aligned(y.reorder, c, m)
      /\ q.phase \in {1, 2} /\ Delivered(r, lo, q, c) /\ Passed(r, i, q, lo, c)
      /\ q.phase = 1 => r.phase # 2 /\ d = << >> /\ {c, m} \subseteq Buffered(q)
  <2>1. /\ Emptied(q) \in RingType(StreamPositions) /\ Emptied(q).phase = q.phase
        /\ Buffered(Emptied(q)) = Buffered(q)
        /\ Aligned(q, c, m) <=> Aligned(Emptied(q), c, m)
    BY <1>2, <1>4, EmptiedIs
  <2>2. /\ Aligned(q, c, m) /\ q.phase \in {1, 2} /\ Delivered(r, lo, q, c) /\ Passed(r, i, q, lo, c)
        /\ q.phase = 1 => r.phase # 2 /\ d = << >> /\ {c, m} \subseteq Buffered(q)
    BY <1>1 DEF Inserted
  <2> QED
    BY <1>5, <2>1, <2>2
<1>8. m \in StreamPositions
  <2>1. n \in StreamPositions \/ n = None
    BY <1>3, <1>6
  <2>2. n = None => m = i
    BY <1>2 DEF Newer, None
  <2>3. m = n \/ m = i
    BY DEF Newer
  <2> QED
    BY <2>1, <2>2, <2>3
<1> HIDE DEF m
<1>9. d \in Seq(StreamPositions) /\ d \in Seq(Nat) /\ Len(d) \in Nat
  <2>1. d \in Seq(StreamPositions)
    BY <1>4 DEF RingType
  <2> HIDE DEF d
  <2> QED
    BY <1>2, <2>1, SeqFacts
<1>10. /\ lo <= c
       /\ \A k \in 1..Len(d) : lo <= d[k] /\ d[k] < c
       /\ Ascending(d)
       /\ \A j \in Buffered(r) : j \in Buffered(q) \/ In(d, j)
  BY <1>7 DEF Delivered, Ascending, In
<1>11. /\ lo <= i => i \in Buffered(q) \/ In(d, i)
       /\ r.phase = 1 /\ q.phase = 2 => lo < c
       /\ \A p \in Nat : lo <= p /\ p < c /\ (r.phase = 2 => i < p + Window) => In(d, p)
  BY <1>7 DEF Passed, Has, In
<1> HIDE DEF d
<1>12. r.phase # 2 => x.played = << >>
  BY <1>6
<1>13. /\ y.played \in Seq(StreamPositions) /\ Len(y.played) = Len(x.played) + Len(d)
       /\ \A p : In(y.played, p) <=> In(x.played, p) \/ In(d, p)
       /\ \A k \in 1..Len(x.played) : y.played[k] = x.played[k]
       /\ x.played = << >> => y.played = d
       /\ Len(x.played) \in Nat
  <2>1. /\ x.played \o d \in Seq(StreamPositions) /\ Len(x.played \o d) = Len(x.played) + Len(d)
        /\ Len(x.played) \in Nat
        /\ \A k \in 1..Len(x.played) : (x.played \o d)[k] = x.played[k]
        /\ \A p : In(x.played \o d, p) <=> In(x.played, p) \/ In(d, p)
    BY <1>3, <1>9, Concat
  <2>2. x.played = << >> => x.played \o d = d
    BY <1>9, SeqFacts
  <2> QED
    BY <1>5, <2>1, <2>2
\* The phases: what is delivered first starts what the client gets.
<1>14. r.phase # 2 /\ q.phase = 2 => d # << >> /\ lo <= d[1] /\ 1 \in 1..Len(d)
  <2> SUFFICES ASSUME r.phase # 2, q.phase = 2 PROVE d # << >> /\ lo <= d[1] /\ 1 \in 1..Len(d)
    OBVIOUS
  <2>1. r.phase = 1
    <3>1. r.phase = 0 => q.phase = 1
      <4>1. r.phase = 0 => InsertPacket(r, i) = Put([r EXCEPT !.base = i % SeqMod, !.phase = 1], i)
        BY DEF InsertPacket
      <4> SUFFICES ASSUME r.phase = 0 PROVE q.phase = 1
        OBVIOUS
      <4> DEFINE p == Placed(r, i % SeqMod, 1)
      <4>2. q = Put(p, i)
        BY <4>1 DEF q, r, Placed
      <4>3. p \in RingType(StreamPositions) /\ p.phase = 1
        <5>1. i % SeqMod \in 0..(SeqMod - 1)
          BY <1>2, NumberInt
        <5>2. p.phase = 1
          BY <1>3 DEF RingType, Placed
        <5>3. r \in RingType(StreamPositions) /\ 1 \in 0..2
          BY <1>3
        <5>4. p \in RingType(StreamPositions)
          BY ONLY <5>1, <5>3, PlacedTyped
        <5> QED
          BY <5>2, <5>4
      <4> HIDE DEF p
      <4> QED
        BY <1>2, <4>2, <4>3, PutTyped
    <3> QED
      BY <1>3, <3>1
  <2>2. lo < c
    BY <1>11, <2>1
  <2>3. In(d, lo)
    BY <1>11, <2>1, <2>2
  <2>4. 1 \in 1..Len(d)
    BY <1>9, <2>3 DEF In
  <2>5. lo <= d[1]
    BY <1>10, <2>4
  <2>6. d # << >>
    BY <2>4
  <2> QED
    BY <2>4, <2>5, <2>6
<1>15. UniFirst <= c
  <2>1. CASE q.phase = 1
    <3>1. c \in Buffered(q)
      BY <1>7, <2>1
    <3>2. c \in StreamPositions
      <4>1. q.slots \in [0..(Window - 1) -> StreamPositions \cup {None}]
        BY <1>4 DEF RingType
      <4> HIDE DEF q
      <4> QED
        BY <3>1, <4>1 DEF Buffered
    <3> QED
      BY <3>2, Streams
  <2>2. CASE q.phase = 2 /\ r.phase = 2
    BY <1>1, <1>2, <1>6, <1>10, <2>2
  <2>3. CASE q.phase = 2 /\ r.phase # 2
    <3>1. d[1] \in StreamPositions /\ d[1] < c
      <4>1. 1 \in 1..Len(d)
        BY <1>14, <2>3
      <4> QED
        BY ONLY <1>9, <1>10, <4>1
    <3> QED
      BY <1>2, <3>1, Streams
  <2> QED
    BY <1>7, <2>1, <2>2, <2>3
<1>16. \A k \in 1..Len(y.played) : y.played[k] < c
  <2>1. ASSUME NEW k \in 1..Len(y.played) PROVE y.played[k] < c
    <3>1. In(y.played, y.played[k])
      BY DEF In
    <3>2. CASE In(x.played, y.played[k])
      <4>1. PICK l \in 1..Len(x.played) : x.played[l] = y.played[k]
        BY <3>2 DEF In
      <4>2. x.played[l] < b /\ x.played[l] \in Nat
        BY <1>3, <1>6, SeqFacts
      <4>3. x.played # << >>
        BY <4>1
      <4>4. b <= c
        BY <1>1, <1>6, <1>10, <4>3
      <4>5. b \in Nat /\ c \in Nat
        BY <1>6
      <4> QED
        BY ONLY <4>1, <4>2, <4>4, <4>5
    <3>3. CASE In(d, y.played[k])
      BY <1>10, <3>3 DEF In
    <3> QED
      BY <1>13, <3>1, <3>2, <3>3
  <2> QED
    BY <2>1
<1>17. Ascending(y.played)
  <2>1. CASE r.phase = 2
    <3>1. \A k \in 1..Len(d) : b <= d[k]
      BY <1>1, <1>10, <2>1
    <3> QED
      BY <1>3, <1>5, <1>6, <1>9, <1>10, <3>1, AscendingOn
  <2>2. CASE r.phase # 2
    BY <1>10, <1>12, <1>13, <2>2
  <2> QED
    BY <2>1, <2>2
<1>18. y.reorder.phase = 2 <=> y.played # << >>
  <2>1. CASE q.phase = 1
    BY <1>7, <1>12, <1>13, <2>1
  <2>2. CASE q.phase = 2 /\ r.phase = 2
    <3>1. x.played # << >>
      BY <1>6, <2>2
    <3>2. Len(x.played) > 0
      BY <1>3, <3>1
    <3>3. Len(y.played) # 0
      BY <1>9, <1>13, <3>2
    <3> QED
      BY <1>7, <2>2, <3>3
  <2>3. CASE q.phase = 2 /\ r.phase # 2
    BY <1>7, <1>12, <1>13, <1>14, <2>3
  <2> QED
    BY <1>7, <2>1, <2>2, <2>3
<1>19. Flowing(y, c, m)
  <2>1. y.reorder.phase # 0
    BY <1>7
  <2> QED
    BY <1>7, <1>8, <1>15, <1>16, <1>17, <1>18, <2>1 DEF Flowing
<1>20. r.phase = 2 => q.phase = 2
  BY <1>7
<1>21. r.phase = 2 => y.played[1] = x.played[1] /\ x.played # << >> /\ y.played # << >>
  <2> SUFFICES ASSUME r.phase = 2 PROVE y.played[1] = x.played[1]
    BY <1>6, <1>7, <1>18
  <2>1. 1 \in 1..Len(x.played)
    <3>1. x.played \in Seq(Nat) /\ x.played # << >>
      BY <1>3, <1>6
    <3> QED
      BY ONLY <3>1, SeqFacts
  <2> QED
    BY <1>13, <2>1
<1>22. ASSUME NEW z \in Nat, NoHole(x, b, z), r.phase = 2 => i < z + Window
       PROVE  NoHole(y, c, z)
  <2> SUFFICES ASSUME y.reorder.phase = 2, NEW p \in StreamPositions,
                      z <= p, p < c, y.played[1] <= p
               PROVE  In(y.played, p)
    BY DEF NoHole
  <2>0. p \in Nat
    BY <1>2
  <2>1. CASE r.phase = 2
    <3>1. CASE p < b
      <4>1. In(x.played, p)
        BY <1>21, <1>22, <2>1, <3>1 DEF NoHole, r
      <4> QED
        BY <1>13, <4>1
    <3>2. CASE ~(p < b)
      <4>1. lo <= p /\ i < p + Window
        BY <1>1, <1>2, <1>6, <1>22, <2>0, <2>1, <3>2
      <4>2. In(d, p)
        BY <1>11, <2>0, <4>1
      <4> QED
        BY <1>13, <4>2
    <3> QED
      BY <3>1, <3>2
  <2>2. CASE r.phase # 2
    <3>1. y.played = d /\ lo <= d[1] /\ 1 \in 1..Len(d) /\ q.phase = 2
      BY <1>7, <1>12, <1>13, <1>14, <2>2
    <3>2. d[1] \in Nat
      BY ONLY <1>9, <3>1
    <3>3. lo <= p
      BY <2>0, <3>1, <3>2
    <3> QED
      BY <1>11, <2>0, <2>2, <3>1, <3>3
  <2> QED
    BY <2>1, <2>2
<1>23. ASSUME r.phase = 2, NEW j \in StreamPositions, Kept(x, j) PROVE Kept(y, j)
  <2>1. j \in Buffered(r) \/ In(x.played, j) \/ j < x.played[1]
    BY <1>23 DEF Kept, r
  <2> QED
    BY <1>7, <1>10, <1>13, <1>21, <1>23, <2>1 DEF Kept
<1>24. ASSUME r.phase = 2, NoHole(x, b, i) PROVE Kept(y, i)
  <2>1. CASE b <= i
    BY <1>1, <1>7, <1>11, <1>13, <1>24, <2>1 DEF Kept
  <2>2. CASE ~(b <= i)
    <3>1. i < b /\ i <= i
      BY <1>2, <1>6, <2>2
    <3>2. x.played[1] <= i => In(x.played, i)
      BY <1>24, <3>1 DEF NoHole, r
    <3>3. x.played[1] \in Nat
      <4>1. 1 \in 1..Len(x.played)
        BY <1>3, <1>21, <1>24
      <4> QED
        BY <1>3, <4>1, SeqFacts
    <3>4. In(x.played, i) \/ i < x.played[1]
      BY <1>2, <3>2, <3>3
    <3> QED
      BY <1>13, <1>21, <1>24, <3>4 DEF Kept
  <2> QED
    BY <2>1, <2>2
<1>25. Onwards(x, b, i, y, c)
  BY <1>5, <1>7, <1>20, <1>22, <1>23, <1>24 DEF Onwards, r
<1> QED
  BY <1>8, <1>19, <1>25 DEF y

-----------------------------------------------------------------------------
(* Several packets in turn.                                                *)

\* f is the ring and what the client got after each of the first n packets of s.
Upto(x, s, n, f) ==
    f = [k \in 0..n |-> IF k = 0 THEN x ELSE Handled(f[k - 1], s[k])]

LEMMA UptoExists ==
    ASSUME NEW x, NEW s, NEW n \in Nat
    PROVE  \E f : Upto(x, s, n, f)
<1> DEFINE bad == {k \in Nat : ~\E f : Upto(x, s, k, f)}
           Step(y, i) == Handled(y, s[i])
<1> SUFFICES ASSUME bad # {} PROVE FALSE
  OBVIOUS
<1>0. ASSUME NEW k, NEW f
      PROVE  Upto(x, s, k, f) <=> f = [i \in 0..k |-> IF i = 0 THEN x ELSE Step(f[i - 1], i)]
  BY DEF Upto
<1>1. PICK k \in bad : \A j \in bad : k <= j
  <2>1. bad \subseteq Nat
    OBVIOUS
  <2> HIDE DEF bad
  <2> QED
    BY <2>1, LeastNat
<1>2. k \in Nat /\ ~\E f : Upto(x, s, k, f)
  BY <1>1
<1> HIDE DEF Step
<1>3. CASE k = 0
  <2> DEFINE f == [i \in 0..0 |-> x]
  <2>1. f = [i \in 0..0 |-> IF i = 0 THEN x ELSE Step(f[i - 1], i)]
    OBVIOUS
  <2>2. Upto(x, s, 0, f)
    BY <1>0, <2>1
  <2> QED
    BY <1>2, <1>3, <2>2
<1>4. CASE k # 0
  <2>1. k - 1 \in Nat /\ ~(k <= k - 1)
    BY <1>2, <1>4
  <2>2. \E f : Upto(x, s, k - 1, f)
    BY <1>1, <2>1
  <2>3. PICK f : Upto(x, s, k - 1, f)
    BY <2>2
  <2> DEFINE g == [i \in 0..k |-> IF i = k THEN Step(f[k - 1], k) ELSE f[i]]
  <2>4. f = [i \in 0..(k - 1) |-> IF i = 0 THEN x ELSE Step(f[i - 1], i)]
    BY <1>0, <2>3
  <2>5. g = [i \in 0..k |-> IF i = 0 THEN x ELSE Step(g[i - 1], i)]
    <3>1. ASSUME NEW i \in 0..k PROVE g[i] = IF i = 0 THEN x ELSE Step(g[i - 1], i)
      <4>1. CASE i = k
        BY <1>2, <1>4, <2>1, <4>1
      <4>2. CASE i # k
        <5>1. i \in 0..(k - 1) /\ g[i] = f[i]
          BY <1>2, <4>2
        <5>2. f[i] = IF i = 0 THEN x ELSE Step(f[i - 1], i)
          BY <2>4, <5>1
        <5>3. i # 0 => g[i - 1] = f[i - 1]
          BY <1>2, <5>1
        <5> QED
          BY <5>1, <5>2, <5>3
      <4> QED
        BY <4>1, <4>2
    <3> HIDE DEF g
    <3>2. g = [i \in 0..k |-> g[i]]
      BY DEF g
    <3> QED
      BY <3>1, <3>2
  <2>6. Upto(x, s, k, g)
    <3> HIDE DEF g
    <3> QED
      BY <1>0, <2>5
  <2> QED
    BY <1>2, <2>6
<1> QED
  BY <1>3, <1>4

LEMMA ProcessedIs ==
    ASSUME NEW s, Len(s) \in Nat
    PROVE  \E f : /\ f[0] = Output /\ Processed(s) = f[Len(s)]
                  /\ \A k \in 1..Len(s) : f[k] = Handled(f[k - 1], s[k])
<1> DEFINE n == Len(s)
           f == CHOOSE g : Upto(Output, s, n, g)
<1>1. Processed(s) = f[n]
  BY DEF Processed, Upto
<1>2. Upto(Output, s, n, f)
  <2>1. \E g : Upto(Output, s, n, g)
    BY UptoExists
  <2> QED
    BY <2>1, Zenon
<1> HIDE DEF f
<1>3. ASSUME NEW k \in 0..n
      PROVE  f[k] = IF k = 0 THEN Output ELSE Handled(f[k - 1], s[k])
  BY <1>2 DEF Upto
<1>4. f[0] = Output
  <2>1. 0 \in 0..n
    OBVIOUS
  <2> QED
    BY <1>3, <2>1
<1>5. ASSUME NEW k \in 1..n PROVE f[k] = Handled(f[k - 1], s[k])
  <2>1. k \in 0..n /\ k # 0
    OBVIOUS
  <2> QED
    BY <1>3, <2>1
<1> QED
  BY <1>1, <1>4, <1>5

LEMMA ProcessedOne ==
    ASSUME NEW i
    PROVE  Processed(<<i>>) = Handled(Output, i)
<1> DEFINE s == <<i>>
<1>1. Len(s) = 1 /\ s[1] = i /\ Len(s) \in Nat
  OBVIOUS
<1> HIDE DEF s
<1>2. PICK f : /\ f[0] = Output /\ Processed(s) = f[Len(s)]
               /\ \A k \in 1..Len(s) : f[k] = Handled(f[k - 1], s[k])
  BY <1>1, ProcessedIs
<1>3. f[1] = Handled(f[1 - 1], s[1])
  BY <1>1, <1>2
<1> QED
  BY <1>1, <1>2, <1>3 DEF s

\* Once the packets are apart they stay so; a ring that delivers is past that.
LEMMA HandledApart ==
    ASSUME NEW x, Typed(x), NEW i
    PROVE  /\ ~Handled(x, i).apart => ~x.apart /\ ~Apart(x.reorder, i)
           /\ ~x.apart /\ x.reorder.phase = 2 => ~Handled(x, i).apart
<1>1. Handled(x, i).apart = (x.apart \/ Apart(x.reorder, i))
  BY HandledIs
<1>2. x.reorder.phase = 2 => ~Apart(x.reorder, i)
  BY DEF Apart
<1> QED
  BY <1>1, <1>2, Zenon

LEMMA NoHoleLater ==
    ASSUME FccAssumption, NEW x, NEW b, NEW z \in Nat, NEW y \in Nat, z <= y, NoHole(x, b, z)
    PROVE  NoHole(x, b, y)
<1>1. \A p \in StreamPositions : p \in Nat
  BY Streams
<1>2. \A p \in StreamPositions : y <= p => z <= p
  BY <1>1
<1> QED
  BY <1>2 DEF NoHole

\* What holds of x and is kept by every packet holds after the sequence.
LEMMA ProcessedFlows ==
    ASSUME FccAssumption, NEW s \in Seq(StreamPositions), Typed(Output),
           ~apart => \E b, n : Flowing(Output, b, n)
    PROVE  LET y == Processed(s)
           IN  /\ Typed(y)
               /\ ~y.apart => ~apart /\ \E b, n : Flowing(y, b, n)
<1>1. PICK f : /\ f[0] = Output /\ Processed(s) = f[Len(s)]
               /\ \A k \in 1..Len(s) : f[k] = Handled(f[k - 1], s[k])
  BY ProcessedIs
<1> DEFINE Good(y) == Typed(y) /\ (~y.apart => ~apart /\ \E b, n : Flowing(y, b, n))
           bad == {k \in 0..Len(s) : ~Good(f[k])}
<1>2. Good(Output)
  BY DEF Output
<1> HIDE DEF Good
<1>3. bad = {}
  <2> SUFFICES ASSUME bad # {} PROVE FALSE
    OBVIOUS
  <2>1. PICK k \in bad : \A j \in bad : k <= j
    <3>1. bad \subseteq Nat
      OBVIOUS
    <3> HIDE DEF bad
    <3> QED
      BY <3>1, LeastNat
  <2>2. k # 0 /\ k \in 0..Len(s) /\ Len(s) \in Nat
    BY <1>1, <1>2, <2>1
  <2>3. k - 1 \in 0..Len(s) /\ k \in 1..Len(s) /\ ~(k <= k - 1)
    BY <2>2
  <2>4. Good(f[k - 1])
    BY <2>1, <2>3
  <2> DEFINE x == f[k - 1]
             i == s[k]
  <2>5. f[k] = Handled(x, i) /\ i \in StreamPositions
    BY <1>1, <2>3
  <2>6. Good(x) /\ ~Good(Handled(x, i))
    BY <2>1, <2>4, <2>5
  <2> HIDE DEF x, i
  <2>7. Typed(x) /\ Typed(Handled(x, i))
    BY <2>5, <2>6, HandledTyped DEF Good
  <2>8. ASSUME ~Handled(x, i).apart PROVE ~apart /\ \E b, n : Flowing(Handled(x, i), b, n)
    <3>1. ~x.apart /\ ~Apart(x.reorder, i)
      BY <2>7, <2>8, HandledApart
    <3>2. PICK b, n : Flowing(x, b, n)
      BY <2>6, <3>1 DEF Good
    <3>3. \E c \in Nat, m \in StreamPositions : Flowing(Handled(x, i), c, m)
      BY <2>5, <2>7, <3>1, <3>2, HandleFlows
    <3> QED
      BY <2>6, <3>1, <3>3 DEF Good
  <2> QED
    BY <2>6, <2>7, <2>8 DEF Good
<1>4. Len(s) \in 0..Len(s)
  OBVIOUS
<1>5. Good(Processed(s))
  BY <1>1, <1>3, <1>4
<1> QED
  BY <1>5 DEF Good

\* A ring that delivers, and has let nothing go since the first of s, keeps all of s.
LEMMA ProcessedKeeps ==
    ASSUME FccAssumption, NEW s \in Seq(StreamPositions), s # << >>, Ascending(s),
           Typed(Output), ~apart, reorder.phase = 2,
           NEW b, NEW n, Flowing(Output, b, n), NoHole(Output, b, s[1])
    PROVE  /\ ~Processed(s).apart
           /\ \A l \in 1..Len(s) : Kept(Processed(s), s[l])
<1>1. PICK f : /\ f[0] = Output /\ Processed(s) = f[Len(s)]
               /\ \A k \in 1..Len(s) : f[k] = Handled(f[k - 1], s[k])
  BY ProcessedIs
<1>2. Len(s) \in Nat /\ (\A k \in 1..Len(s) : s[k] \in Nat /\ s[k] \in StreamPositions) /\ 1 \in 1..Len(s)
  BY SeqFacts, Streams
<1> DEFINE Flows(y, k) == \E c, m : Flowing(y, c, m) /\ \A l \in 1..Len(s) : k <= l => NoHole(y, c, s[l])
           Good(y, k) == /\ Typed(y) /\ ~y.apart /\ y.reorder.phase = 2 /\ Flows(y, k)
                         /\ \A l \in 1..k : Kept(y, s[l])
           bad == {k \in 0..Len(s) : ~Good(f[k], k)}
<1>3. Good(Output, 0)
  <2>1. ASSUME NEW l \in 1..Len(s) PROVE NoHole(Output, b, s[l])
    <3>1. s[1] <= s[l]
      <4>1. 1 < l => s[1] < s[l]
        BY <1>2 DEF Ascending
      <4>2. s[1] \in Nat /\ s[l] \in Nat /\ (l = 1 \/ 1 < l)
        BY <1>2
      <4> QED
        BY <4>1, <4>2
    <3> QED
      BY <1>2, <3>1, NoHoleLater
  <2>2. Output.apart = apart /\ Output.reorder = reorder
    BY DEF Output
  <2> QED
    BY <2>1, <2>2
<1> HIDE DEF Good
<1>4. bad = {}
  <2> SUFFICES ASSUME bad # {} PROVE FALSE
    OBVIOUS
  <2>1. PICK k \in bad : \A j \in bad : k <= j
    <3>1. bad \subseteq Nat
      OBVIOUS
    <3> HIDE DEF bad
    <3> QED
      BY <3>1, LeastNat
  <2>2. k # 0 /\ k \in 0..Len(s)
    BY <1>1, <1>3, <2>1
  <2>3. k - 1 \in 0..Len(s) /\ k \in 1..Len(s) /\ ~(k <= k - 1)
    BY <1>2, <2>2
  <2>4. Good(f[k - 1], k - 1)
    BY <2>1, <2>3
  <2> DEFINE x == f[k - 1]
             i == s[k]
             y == Handled(x, i)
  <2>5. f[k] = y /\ i \in StreamPositions /\ i \in Nat
    BY <1>1, <1>2, <2>3
  <2>6. Good(x, k - 1) /\ ~Good(y, k)
    BY <2>1, <2>4, <2>5
  <2>7. Typed(x) /\ ~x.apart /\ x.reorder.phase = 2 /\ Flows(x, k - 1) /\ \A l \in 1..(k - 1) : Kept(x, s[l])
    BY <2>6 DEF Good
  <2>8. PICK c, m : Flowing(x, c, m) /\ \A l \in 1..Len(s) : k - 1 <= l => NoHole(x, c, s[l])
    BY <2>7
  <2> HIDE DEF x, Flows
  <2>9. Typed(y) /\ ~Apart(x.reorder, i) /\ ~y.apart
    BY <2>5, <2>7, HandledTyped, HandledApart
  <2>10. PICK d \in Nat, o \in StreamPositions : Flowing(y, d, o) /\ Onwards(x, c, i, y, d)
    BY <2>5, <2>7, <2>8, <2>9, HandleFlows
  <2>11. NoHole(x, c, i)
    <3>1. k - 1 <= k /\ k \in 1..Len(s)
      BY <2>3
    <3>2. NoHole(x, c, s[k])
      BY ONLY <2>8, <3>1
    <3> QED
      BY ONLY <3>2
  <2>12. NoHole(y, d, i) /\ y.reorder.phase = 2 /\ Kept(y, i)
    <3> HIDE DEF y, i
    <3>1. i < i + Window
      <4>1. i \in Nat /\ Window \in Nat \ {0}
        BY <2>5, Sizes
      <4> QED
        BY ONLY <4>1
    <3>2. /\ y.reorder.phase = 2 /\ NoHole(y, d, i) /\ (NoHole(x, c, i) => Kept(y, i))
      BY <2>5, <2>7, <2>10, <2>11, <3>1 DEF Onwards
    <3> QED
      BY <2>11, <3>2
  <2>13. ASSUME NEW l \in 1..k PROVE Kept(y, s[l])
    <3>1. CASE l = k
      BY <2>12, <3>1
    <3>2. CASE l # k
      <4>1. l \in 1..(k - 1) /\ l \in 1..Len(s)
        <5>1. Len(s) \in Nat /\ k \in 1..Len(s) /\ l \in 1..k /\ l # k
          BY <1>2, <2>3, <3>2
        <5> QED
          BY ONLY <5>1
      <4>2. Kept(x, s[l]) /\ s[l] \in StreamPositions
        BY <1>2, <2>7, <4>1
      <4> HIDE DEF y
      <4> QED
        BY <2>7, <2>10, <4>2 DEF Onwards
    <3> QED
      BY <3>1, <3>2
  <2>14. ASSUME NEW l \in 1..Len(s), k <= l PROVE NoHole(y, d, s[l])
    <3>1. i <= s[l]
      <4>1. k < l => s[k] < s[l]
        BY <2>3 DEF Ascending
      <4>2. s[k] \in Nat /\ s[l] \in Nat /\ (l = k \/ k < l)
        <5>1. s[k] \in Nat /\ s[l] \in Nat
          BY <1>2, <2>3
        <5>2. Len(s) \in Nat /\ k \in 1..Len(s) /\ l \in 1..Len(s) /\ k <= l
          BY <1>2, <2>3, <2>14
        <5> QED
          BY ONLY <5>1, <5>2
      <4>3. s[k] <= s[l]
        BY ONLY <4>1, <4>2
      <4> QED
        BY <4>3
    <3> QED
      BY <1>2, <2>5, <2>12, <3>1, NoHoleLater
  <2> HIDE DEF y
  <2>15. Flows(y, k)
    BY <2>10, <2>14 DEF Flows
  <2> QED
    BY <2>6, <2>9, <2>12, <2>13, <2>15 DEF Good
<1>5. Len(s) \in 0..Len(s)
  BY <1>2
<1>6. Good(Processed(s), Len(s))
  BY <1>1, <1>4, <1>5
<1> QED
  BY <1>6 DEF Good

-----------------------------------------------------------------------------
(* The steps of FccSession.                                                *)

\* Where multicast takes over, or will at the earliest.
Mark == IF pending = << >> THEN live ELSE pending[1]

\* Multicast has packets to send that unicast has not passed.
Waiting == state # "MCAST_ACTIVE" \/ pending # << >>

\* The ring's window lies in the stream, all the client got before it; from the
\* mark on nothing has been let go.
FlowInOrder ==
    ~apart => /\ Ascending(played)
              /\ open => \E b, n : /\ Flowing(Output, b, n)
                                   /\ Waiting => NoHole(Output, b, Mark)

\* One stop request; the packets kept for later are those from the stop position on.
Bookkeeping ==
    /\ open => terms = IF termSent THEN 1 ELSE 0
    /\ ~open => terms <= 1 /\ (~sendFailed => terms = 1)
    /\ open /\ termSent /\ state # "MCAST_ACTIVE" => pending # << >>
    /\ pending # << >> => termSent /\ termSeq = pending[1] % SeqMod
    /\ termSent => joined
    /\ Ascending(pending) /\ \A k \in 1..Len(pending) : pending[k] < live
    /\ state = "REQUESTED" => redirects <= MaxRedirects
    /\ reorder.out = << >>

FccIInv == FccTypeOK /\ Bookkeeping /\ FlowInOrder

LEMMA EmptyTyped ==
    ASSUME NEW P
    PROVE  /\ EmptyRing \in RingType(P) /\ EmptyRing.phase = 0 /\ EmptyRing.base = 0 % SeqMod
           /\ EmptyRing.out = << >> /\ EmptyRing.count = 0 /\ Buffered(EmptyRing) = {}
           /\ \A s \in 0..(Window - 1) : EmptyRing.slots[s] = None
<1> DEFINE e == << >>
           t == [s \in 0..(Window - 1) |-> None]
<1>1. EmptyRing = [phase |-> 0, base |-> 0, slots |-> t, count |-> 0, out |-> e]
  BY DEF EmptyRing
<1>2. e \in Seq(P)
  OBVIOUS
<1>3. /\ t \in [0..(Window - 1) -> P \cup {None}]
      /\ \A s \in 0..(Window - 1) : t[s] = None
  OBVIOUS
<1>4. 0 \in 0..(CountMod - 1)
  BY CountRange
<1>5. 0 \in 0..(SeqMod - 1) /\ 0 % SeqMod = 0
  BY Sizes
<1> HIDE DEF t, e
<1>6. /\ EmptyRing \in RingType(P) /\ EmptyRing.phase = 0 /\ EmptyRing.base = 0
      /\ EmptyRing.out = e /\ EmptyRing.slots = t /\ EmptyRing.count = 0
  BY <1>1, <1>2, <1>3, <1>4, <1>5 DEF RingType
<1>7. Buffered(EmptyRing) = {}
  BY <1>3, <1>6 DEF Buffered
<1> QED
  BY <1>3, <1>5, <1>6, <1>7 DEF e

LEMMA NothingAscends == Ascending(<< >>)
BY DEF Ascending

LEMMA EmptyFlows ==
    ASSUME NEW x, x.reorder = EmptyRing, x.played = << >>
    PROVE  Flowing(x, 0, None) /\ \A z : NoHole(x, 0, z)
<1>1. /\ EmptyRing \in RingType(Nat) /\ EmptyRing.phase = 0 /\ EmptyRing.base = 0 % SeqMod
      /\ Buffered(EmptyRing) = {} /\ \A s \in 0..(Window - 1) : EmptyRing.slots[s] = None
  BY EmptyTyped
<1>2. None \in Int /\ 0 <= None + 1 /\ None < 0 + Window
  BY Sizes DEF None
<1>3. Aligned(EmptyRing, 0, None)
  BY <1>1, <1>2 DEF Aligned
<1>4. 1..Len(x.played) = {}
  OBVIOUS
<1> QED
  BY <1>1, <1>3, <1>4, NothingAscends DEF Flowing, NoHole

LEMMA FccConstants ==
    ASSUME FccAssumption
    PROVE  /\ MaxRedirects \in Nat /\ SignalingTimeout \in Nat \ {0} /\ UnicastTimeout \in Nat \ {0}
           /\ SyncWait \in Nat \ {0} /\ McastTimeout \in Nat \ {0}
           /\ MaxLosses \in Nat /\ MaxNoise \in Nat
BY DEF FccAssumption

LEMMA InitHolds ==
    ASSUME FccAssumption, FccInit
    PROVE  FccIInv
<1>1. EmptyRing \in RingType(StreamPositions) /\ EmptyRing.out = << >>
  BY EmptyTyped
<1>2. UniFirst \in UniFirst..(StreamEnd + 1) /\ LiveFirst \in LiveFirst..(StreamEnd + 1)
  BY Streams
<1>3. 0 \in 0..(SeqMod - 1)
  BY Sizes
<1>4. FccTypeOK
  <2> DEFINE e == << >>
  <2>1. e \in Seq(StreamPositions) /\ (FccInit => pending = e /\ played = e)
    BY DEF FccInit
  <2> HIDE DEF e
  <2>2. pending \in Seq(StreamPositions) /\ played \in Seq(StreamPositions)
    BY <2>1
  <2>3. /\ state = "REQUESTED" /\ server \in Servers /\ redirects = 0 /\ termSent = FALSE /\ termSeq = 0
        /\ quiet = 0 /\ age = 0 /\ joined = FALSE /\ failed = FALSE /\ mcastQuiet = 0
        /\ reorder = EmptyRing /\ open = TRUE /\ uni = UniFirst /\ live = LiveFirst
        /\ losses = 0 /\ noise = 0 /\ terms = 0 /\ sendFailed = FALSE /\ fellBack = FALSE
        /\ apart = FALSE
    BY DEF FccInit
  <2>4. {sendFailed, fellBack, apart} \subseteq BOOLEAN
    BY ONLY <2>3, Zenon
  <2>5. state \in States /\ server \in Servers /\ termSent \in BOOLEAN /\ joined \in BOOLEAN /\ failed \in BOOLEAN /\ open \in BOOLEAN
    BY <2>3 DEF States
  <2>6. /\ redirects \in 0..(MaxRedirects + 1) /\ termSeq \in 0..(SeqMod - 1)
        /\ quiet \in 0..UnicastTimeout /\ age \in 0..SyncWait /\ mcastQuiet \in 0..McastTimeout
        /\ losses \in 0..MaxLosses /\ noise \in 0..MaxNoise /\ terms \in Nat
    BY <1>3, <2>3, FccConstants
  <2> QED
    BY <1>1, <1>2, <2>2, <2>3, <2>4, <2>5, <2>6 DEF FccTypeOK
<1>5. Bookkeeping
  BY <1>1, NothingAscends, FccConstants DEF FccInit, Bookkeeping
<1>6. FlowInOrder
  <2>1. Output.reorder = EmptyRing /\ Output.played = << >>
    BY DEF Output, FccInit
  <2>2. Flowing(Output, 0, None) /\ NoHole(Output, 0, Mark)
    BY <2>1, EmptyFlows
  <2> QED
    BY <2>2, NothingAscends DEF FlowInOrder, FccInit
<1> QED
  BY <1>4, <1>5, <1>6 DEF FccIInv

LEMMA OutputTyped ==
    ASSUME FccTypeOK, Bookkeeping
    PROVE  Typed(Output) /\ Output.reorder = reorder /\ Output.played = played /\ Output.apart = apart
BY DEF Typed, Output, FccTypeOK, Bookkeeping

LEMMA MarkIs ==
    ASSUME FccAssumption, FccTypeOK
    PROVE  Mark \in Nat /\ live \in Nat /\ Len(pending) \in Nat
<1>1. live \in Nat
  BY Streams DEF FccTypeOK
<1>2. pending # << >> => pending[1] \in Nat
  <2>1. pending \in Seq(Nat)
    BY Streams DEF FccTypeOK
  <2> QED
    BY <2>1
<1>3. Len(pending) \in Nat
  BY DEF FccTypeOK
<1> QED
  BY <1>1, <1>2, <1>3 DEF Mark

\* A step that leaves the ring alone.
LEMMA RingAlone ==
    ASSUME FccAssumption, FccTypeOK, FccTypeOK', FlowInOrder, Bookkeeping,
           UNCHANGED <<reorder, played, apart>>, open' => open,
           open' => Mark <= Mark' /\ (Waiting' => Waiting)
    PROVE  FlowInOrder'
<1> SUFFICES ASSUME ~apart PROVE FlowInOrder'
  BY DEF FlowInOrder
<1>1. Ascending(played')
  BY DEF FlowInOrder
<1>2. Output' = Output
  BY DEF Output
<1>3. ASSUME open' PROVE (\E b, n : Flowing(Output, b, n) /\ (Waiting => NoHole(Output, b, Mark)))'
  <2>1. PICK b, n : Flowing(Output, b, n) /\ (Waiting => NoHole(Output, b, Mark))
    BY <1>3 DEF FlowInOrder
  <2>2. Mark \in Nat /\ Mark' \in Nat
    <3>1. FccTypeOK => Mark \in Nat
      BY MarkIs
    <3>2. (FccTypeOK => Mark \in Nat)'
      BY <3>1, MarkIs, PTL
    <3> QED
      BY <3>1, <3>2
  <2>3. Waiting' => NoHole(Output, b, Mark')
    BY <1>3, <2>1, <2>2, NoHoleLater
  <2> QED
    BY <1>2, <2>1, <2>3
<1> QED
  BY <1>1, <1>3 DEF FlowInOrder

\* The conjuncts of the type invariant, for a step that sets a few variables.
LEMMA Types ==
    ASSUME FccTypeOK
    PROVE  /\ state \in States /\ server \in Servers /\ redirects \in 0..(MaxRedirects + 1)
           /\ termSent \in BOOLEAN /\ termSeq \in 0..(SeqMod - 1)
           /\ pending \in Seq(StreamPositions)
           /\ quiet \in 0..UnicastTimeout /\ age \in 0..SyncWait
           /\ joined \in BOOLEAN /\ failed \in BOOLEAN /\ mcastQuiet \in 0..McastTimeout
           /\ reorder \in RingType(StreamPositions) /\ open \in BOOLEAN
           /\ uni \in UniFirst..(StreamEnd + 1) /\ live \in LiveFirst..(StreamEnd + 1)
           /\ losses \in 0..MaxLosses /\ noise \in 0..MaxNoise
           /\ played \in Seq(StreamPositions) /\ terms \in Nat
           /\ sendFailed \in BOOLEAN /\ fellBack \in BOOLEAN /\ apart \in BOOLEAN
BY Zenon DEF FccTypeOK

LEMMA TypesNext ==
    ASSUME state' \in States, server' \in Servers, redirects' \in 0..(MaxRedirects + 1),
           termSent' \in BOOLEAN, termSeq' \in 0..(SeqMod - 1),
           pending' \in Seq(StreamPositions),
           quiet' \in 0..UnicastTimeout, age' \in 0..SyncWait,
           joined' \in BOOLEAN, failed' \in BOOLEAN, mcastQuiet' \in 0..McastTimeout,
           reorder' \in RingType(StreamPositions), open' \in BOOLEAN,
           uni' \in UniFirst..(StreamEnd + 1), live' \in LiveFirst..(StreamEnd + 1),
           losses' \in 0..MaxLosses, noise' \in 0..MaxNoise,
           played' \in Seq(StreamPositions), terms' \in Nat,
           sendFailed' \in BOOLEAN, fellBack' \in BOOLEAN, apart' \in BOOLEAN
    PROVE  FccTypeOK'
<1>1. {sendFailed', fellBack', apart'} \subseteq BOOLEAN
  BY Zenon
<1> QED
  BY <1>1, Zenon DEF FccTypeOK

\* The message variables of a session that stays as it is.
Carried == <<termSent, termSeq, pending, reorder, open, played, apart>>

LEMMA JoinTyped ==
    ASSUME FccAssumption, FccTypeOK, Join
    PROVE  /\ joined' \in BOOLEAN /\ failed' = failed /\ (joined => joined')
           /\ mcastQuiet' \in 0..McastTimeout
<1>1. failed' = failed
  BY DEF Join
<1>2. CASE joined /\ UNCHANGED <<joined, mcastQuiet>>
  BY <1>1, <1>2, Types
<1>3. CASE ~joined /\ joined' = TRUE /\ mcastQuiet' \in 0..McastTimeout
  BY <1>1, <1>3
<1>4. CASE ~joined /\ UNCHANGED <<joined, mcastQuiet>>
  BY <1>1, <1>4, Types
<1> QED
  BY <1>2, <1>3, <1>4 DEF Join

\* A step in which the session stays open, sends nothing and stores nothing.
LEMMA SessionAlone ==
    ASSUME FccAssumption, FccIInv, FccTypeOK', open, UNCHANGED Carried,
           terms' = terms, live <= live', joined => joined',
           state' # "MCAST_ACTIVE" => state # "MCAST_ACTIVE",
           state' = "REQUESTED" => redirects' <= MaxRedirects
    PROVE  FccIInv'
<1>1. /\ termSent' = termSent /\ termSeq' = termSeq /\ pending' = pending /\ reorder' = reorder
      /\ open' = open /\ played' = played /\ apart' = apart
  BY DEF Carried
<1>2. FccTypeOK /\ Bookkeeping /\ FlowInOrder
  BY DEF FccIInv
<1>3. live \in Nat /\ live' \in Nat /\ \A k \in 1..Len(pending) : pending[k] \in Nat
  <2>1. FccTypeOK => live \in Nat
    BY MarkIs
  <2>2. (FccTypeOK => live \in Nat)'
    BY <2>1, MarkIs, PTL
  <2>3. \A k \in 1..Len(pending) : pending[k] \in Nat
    BY <1>2, Types, SeqFacts, Streams
  <2> QED
    BY <1>2, <2>1, <2>2, <2>3
<1>4. Bookkeeping'
  <2>1. ASSUME NEW k \in 1..Len(pending) PROVE pending[k] < live'
    <3>1. pending[k] < live /\ pending[k] \in Nat /\ live \in Nat /\ live' \in Nat /\ live <= live'
      BY <1>2, <1>3 DEF Bookkeeping
    <3> QED
      BY ONLY <3>1
  <2> QED
    BY <1>1, <1>2, <2>1 DEF Bookkeeping
<1>5. Mark <= Mark'
  <2>1. CASE pending = << >>
    BY <1>1, <1>3, <2>1 DEF Mark
  <2>2. CASE pending # << >>
    <3>1. Mark' = Mark /\ Mark \in Nat
      BY <1>1, <1>2, <2>2, MarkIs DEF Mark
    <3> QED
      BY <3>1
  <2> QED
    BY <2>1, <2>2
<1>6. Waiting' => Waiting
  BY <1>1 DEF Waiting
<1>7. FlowInOrder'
  BY <1>1, <1>2, <1>5, <1>6, RingAlone
<1> QED
  BY <1>4, <1>7 DEF FccIInv

LEMMA FallbackStep ==
    ASSUME FccAssumption, FccIInv, open, Fallback, server' \in Servers,
           redirects' \in 0..(MaxRedirects + 1), quiet' \in 0..UnicastTimeout
    PROVE  FccIInv'
<1>1. FccTypeOK
  BY DEF FccIInv
<1>2. /\ state' = "MCAST_ACTIVE" /\ fellBack' = TRUE /\ Join
      /\ UNCHANGED <<termSent, termSeq, pending, age, reorder, open, uni, live, losses, noise,
                     played, terms, sendFailed, apart>>
  BY DEF Fallback, network
<1>3. joined' \in BOOLEAN /\ failed' = failed /\ (joined => joined') /\ mcastQuiet' \in 0..McastTimeout
  BY <1>1, <1>2, JoinTyped
<1>4. FccTypeOK'
  <2>1. state' \in States
    BY <1>2 DEF States
  <2> QED
    BY <1>1, <1>2, <1>3, <2>1, Types, TypesNext
<1>5. live <= live'
  <2>1. live' = live /\ live \in Nat
    BY <1>1, <1>2, MarkIs
  <2> QED
    BY ONLY <2>1
<1> QED
  BY <1>2, <1>3, <1>4, <1>5, SessionAlone DEF Carried

LEMMA LiveSame ==
    ASSUME FccAssumption, FccTypeOK, live' = live
    PROVE  live <= live'
<1>1. live \in Nat
  BY MarkIs
<1>2. live <= live
  BY <1>1
<1> QED
  BY <1>2

LEMMA CleanupStep ==
    ASSUME FccAssumption, FccIInv, open, Cleanup
    PROVE  FccIInv' /\ ~open'
<1>1. FccTypeOK /\ Bookkeeping /\ FlowInOrder
  BY DEF FccIInv
<1>2. /\ open' = FALSE /\ CleanupTerminates /\ state' = "INIT" /\ termSent' = FALSE /\ termSeq' = 0
      /\ pending' = << >> /\ joined' = FALSE /\ reorder' = EmptyRing
      /\ UNCHANGED <<server, redirects, quiet, age, failed, mcastQuiet, uni, live, losses, noise,
                     played, fellBack, apart>>
  BY DEF Cleanup, network
<1>3. terms \in Nat /\ terms = IF termSent THEN 1 ELSE 0
  BY <1>1, Types DEF Bookkeeping
<1>4. terms' \in Nat /\ terms' <= 1 /\ (~sendFailed' => terms' = 1)
  BY <1>2, <1>3 DEF CleanupTerminates
<1>5. sendFailed' \in BOOLEAN
  BY <1>1, <1>2, Types DEF CleanupTerminates
<1>6. EmptyRing \in RingType(StreamPositions) /\ EmptyRing.out = << >>
  BY EmptyTyped
<1>7. FccTypeOK'
  <2>1. state' \in States
    BY <1>2 DEF States
  <2>2. 0 \in 0..(SeqMod - 1)
    BY Sizes
  <2>3. pending' \in Seq(StreamPositions)
    BY <1>2
  <2>4. /\ server' = server /\ redirects' = redirects /\ quiet' = quiet /\ age' = age
        /\ failed' = failed /\ mcastQuiet' = mcastQuiet /\ uni' = uni /\ live' = live
        /\ losses' = losses /\ noise' = noise /\ played' = played /\ fellBack' = fellBack
        /\ apart' = apart /\ open' = FALSE /\ termSent' = FALSE /\ termSeq' = 0
        /\ joined' = FALSE /\ reorder' = EmptyRing
    BY <1>2
  <2> QED
    BY <1>1, <1>4, <1>5, <1>6, <2>1, <2>2, <2>3, <2>4, Types, TypesNext
<1>8. Bookkeeping'
  BY <1>2, <1>4, <1>6, NothingAscends DEF Bookkeeping
<1>9. FlowInOrder'
  BY <1>1, <1>2 DEF FlowInOrder
<1> QED
  BY <1>2, <1>7, <1>8, <1>9 DEF FccIInv

LEMMA AcceptsStep ==
    ASSUME FccAssumption, FccIInv, ServerAccepts
    PROVE  FccIInv'
<1>1. FccTypeOK
  BY DEF FccIInv
<1>2. /\ open /\ state = "REQUESTED" /\ state' = "UNICAST_PENDING" /\ quiet' = 0 /\ age' = 0 /\ server' \in Servers
      /\ UNCHANGED <<redirects, termSent, termSeq, pending, joined, failed, mcastQuiet, reorder,
                     open, uni, live, losses, noise, played, terms, sendFailed, fellBack, apart>>
  BY DEF ServerAccepts, mcast, network, history
<1>3. FccTypeOK'
  <2>1. state' \in States /\ 0 \in 0..UnicastTimeout /\ 0 \in 0..SyncWait
    BY <1>2, FccConstants DEF States
  <2> QED
    BY <1>1, <1>2, <2>1, Types, TypesNext
<1>4. live <= live'
  BY <1>1, <1>2, LiveSame
<1> QED
  BY <1>2, <1>3, <1>4, SessionAlone DEF Carried

LEMMA RedirectsStep ==
    ASSUME FccAssumption, FccIInv, NEW s \in Servers, ServerRedirects(s)
    PROVE  FccIInv'
<1>1. FccTypeOK /\ open /\ state = "REQUESTED" /\ redirects \in 0..(MaxRedirects + 1) /\ MaxRedirects \in Nat
  BY Types, FccConstants DEF FccIInv, ServerRedirects
<1>2. redirects <= MaxRedirects
  BY <1>1 DEF FccIInv, Bookkeeping
<1>3. redirects + 1 \in 0..(MaxRedirects + 1) /\ 0 \in 0..UnicastTimeout
  BY <1>1, <1>2, FccConstants
<1>4. CASE /\ RedirectsAfter <= MaxRedirects
           /\ redirects' = RedirectsAfter
           /\ server' = s
           /\ quiet' = 0
           /\ UNCHANGED <<state, termSent, termSeq, pending, age, mcast, reorder,
                          open, network, history>>
  <2>1. /\ redirects' = redirects + 1 /\ redirects' <= MaxRedirects /\ server' = s /\ quiet' = 0
        /\ UNCHANGED <<state, termSent, termSeq, pending, age, joined, failed, mcastQuiet, reorder,
                       open, uni, live, losses, noise, played, terms, sendFailed, fellBack, apart>>
    BY <1>4 DEF RedirectsAfter, mcast, network, history
  <2>2. FccTypeOK'
    BY <1>1, <1>3, <2>1, Types, TypesNext
  <2>3. live <= live'
    BY <1>1, <2>1, LiveSame
  <2> QED
    BY <1>1, <2>1, <2>2, <2>3, SessionAlone DEF Carried
<1>5. CASE Cleanup
  BY <1>1, <1>5, CleanupStep
<1>6. CASE /\ RedirectsAfter > MaxRedirects
           /\ redirects' = RedirectsAfter
           /\ server' \in {server, s}
           /\ quiet' = 0
           /\ Fallback
  <2>1. redirects' \in 0..(MaxRedirects + 1)
    BY <1>3, <1>6 DEF RedirectsAfter
  <2>2. server' \in Servers
    BY <1>1, <1>6, Types
  <2> QED
    BY <1>1, <1>3, <1>6, <2>1, <2>2, FallbackStep
<1> QED
  BY <1>4, <1>5, <1>6 DEF ServerRedirects

LEMMA NoiseStep ==
    ASSUME FccAssumption, FccIInv, ServerNoise
    PROVE  FccIInv'
<1>1. FccTypeOK /\ noise \in 0..MaxNoise /\ MaxNoise \in Nat
  BY Types, FccConstants DEF FccIInv
<1>2. /\ open /\ noise' = noise + 1 /\ noise < MaxNoise /\ quiet' = 0
      /\ UNCHANGED <<state, server, redirects, termSent, termSeq, pending, age, joined, failed,
                     mcastQuiet, reorder, open, uni, live, losses, played, terms, sendFailed,
                     fellBack, apart>>
  BY DEF ServerNoise, fcc, mcast, history
<1>3. FccTypeOK'
  <2>1. noise' \in 0..MaxNoise /\ 0 \in 0..UnicastTimeout
    BY <1>1, <1>2, FccConstants
  <2> QED
    BY <1>1, <1>2, <2>1, Types, TypesNext
<1>4. live <= live' /\ (state = "REQUESTED" => redirects <= MaxRedirects)
  BY <1>1, <1>2, LiveSame DEF FccIInv, Bookkeeping
<1> QED
  BY <1>2, <1>3, <1>4, SessionAlone DEF Carried

LEMMA SynchroniseStep ==
    ASSUME FccAssumption, FccIInv, open, Synchronise, quiet' \in 0..UnicastTimeout
    PROVE  FccIInv'
<1>1. FccTypeOK
  BY DEF FccIInv
<1>2. /\ state # "MCAST_ACTIVE" /\ state' = "MCAST_REQUESTED" /\ Join
      /\ UNCHANGED <<server, redirects, termSent, termSeq, pending, age, reorder,
                     open, uni, live, losses, noise, played, terms, sendFailed, fellBack, apart>>
  BY DEF Synchronise, network, history
<1>3. joined' \in BOOLEAN /\ failed' = failed /\ (joined => joined') /\ mcastQuiet' \in 0..McastTimeout
  BY <1>1, <1>2, JoinTyped
<1>4. FccTypeOK'
  <2>1. state' \in States
    BY <1>2 DEF States
  <2> QED
    BY <1>1, <1>2, <1>3, <2>1, Types, TypesNext
<1>5. live <= live'
  BY <1>1, <1>2, LiveSame
<1> QED
  BY <1>2, <1>3, <1>4, <1>5, SessionAlone DEF Carried

LEMMA NoBufferStep ==
    ASSUME FccAssumption, FccIInv, UnicastNoBuffer
    PROVE  FccIInv'
<1>1. FccTypeOK /\ losses \in 0..MaxLosses /\ MaxLosses \in Nat
  BY Types, FccConstants DEF FccIInv
<1>2. /\ open /\ uni \in StreamPositions /\ losses < MaxLosses
      /\ uni' = uni + 1 /\ losses' = losses + 1 /\ quiet' = 0
      /\ UNCHANGED <<state, server, redirects, termSent, termSeq, pending, age, joined, failed,
                     mcastQuiet, reorder, open, live, noise, played, terms, sendFailed,
                     fellBack, apart>>
  BY DEF UnicastNoBuffer, fcc, mcast, history
<1>3. FccTypeOK'
  <2>1. losses' \in 0..MaxLosses /\ 0 \in 0..UnicastTimeout /\ uni' \in UniFirst..(StreamEnd + 1)
    BY <1>1, <1>2, FccConstants, Streams
  <2> QED
    BY <1>1, <1>2, <2>1, Types, TypesNext
<1>4. live <= live' /\ (state = "REQUESTED" => redirects <= MaxRedirects)
  BY <1>1, <1>2, LiveSame DEF FccIInv, Bookkeeping
<1> QED
  BY <1>2, <1>3, <1>4, SessionAlone DEF Carried

LEMMA PassesStep ==
    ASSUME FccAssumption, FccIInv, MulticastPasses
    PROVE  FccIInv'
<1>1. FccTypeOK /\ live \in LiveFirst..(StreamEnd + 1)
  BY Types DEF FccIInv
<1>2. /\ open /\ live <= StreamEnd /\ live' = live + 1
      /\ UNCHANGED <<state, server, redirects, termSent, termSeq, pending, quiet, age, joined, failed,
                     mcastQuiet, reorder, open, uni, losses, noise, played, terms, sendFailed,
                     fellBack, apart>>
  BY DEF MulticastPasses, fcc, mcast, history
<1>3. live' \in LiveFirst..(StreamEnd + 1) /\ live <= live'
  BY <1>1, <1>2, Streams
<1>4. FccTypeOK'
  BY <1>1, <1>2, <1>3, Types, TypesNext
<1>5. state = "REQUESTED" => redirects <= MaxRedirects
  BY DEF FccIInv, Bookkeeping
<1> QED
  BY <1>2, <1>3, <1>4, <1>5, SessionAlone DEF Carried

LEMMA ElapseStep ==
    ASSUME FccAssumption, FccIInv, Elapse
    PROVE  FccIInv'
<1>1. FccTypeOK /\ quiet \in 0..UnicastTimeout /\ age \in 0..SyncWait /\ mcastQuiet \in 0..McastTimeout
  BY Types DEF FccIInv
<1>2. /\ open /\ quiet' = Older(quiet, UnicastTimeout) /\ age' = Older(age, SyncWait)
      /\ mcastQuiet' = Older(mcastQuiet, McastTimeout)
      /\ UNCHANGED <<state, server, redirects, termSent, termSeq, pending, joined, failed,
                     reorder, open, uni, live, losses, noise, played, terms, sendFailed,
                     fellBack, apart>>
  BY DEF Elapse, network, history
<1>3. quiet' \in 0..UnicastTimeout /\ age' \in 0..SyncWait /\ mcastQuiet' \in 0..McastTimeout
  BY <1>1, <1>2, FccConstants DEF Older
<1>4. FccTypeOK'
  BY <1>1, <1>2, <1>3, Types, TypesNext
<1>5. live <= live' /\ (state = "REQUESTED" => redirects <= MaxRedirects)
  BY <1>1, <1>2, LiveSame DEF FccIInv, Bookkeeping
<1> QED
  BY <1>2, <1>4, <1>5, SessionAlone DEF Carried

LEMMA FlowingSame ==
    ASSUME NEW x, NEW y, y.reorder = x.reorder, y.played = x.played, NEW b
    PROVE  /\ \A n : Flowing(x, b, n) => Flowing(y, b, n)
           /\ \A z : NoHole(x, b, z) => NoHole(y, b, z)
BY DEF Flowing, NoHole

\* What unicast may send is less than a window beyond the mark.
LEMMA UnicastNear ==
    ASSUME FccAssumption, FccTypeOK, Bookkeeping, open, state # "MCAST_ACTIVE",
           NEW i \in StreamPositions, UnicastReach(i)
    PROVE  i < Mark + Window
<1>1. /\ i \in Nat /\ live \in Nat /\ Window \in Nat \ {0}
      /\ MaxLead \in 0..(Window - 1) /\ MaxOverrun \in 0..(Window - 1)
  BY Streams, MarkIs, Sizes
<1>2. CASE pending = << >>
  <2>1. Mark = live /\ i <= live + MaxLead
    BY <1>2 DEF Mark, UnicastReach
  <2> QED
    BY ONLY <1>1, <2>1
<1>3. CASE pending # << >>
  <2>1. termSent /\ termSeq = pending[1] % SeqMod /\ Mark = pending[1]
    BY <1>3 DEF Bookkeeping, Mark
  <2>2. PICK t \in StreamPositions : t % SeqMod = termSeq /\ i <= t + MaxOverrun
    BY <2>1 DEF UnicastReach
  <2>3. pending[1] \in StreamPositions
    <3>1. pending \in Seq(StreamPositions)
      BY Types
    <3> QED
      BY <1>3, <3>1, SeqFacts
  <2>4. t = pending[1]
    <3>1. /\ t \in Nat /\ UniFirst <= t /\ t <= StreamEnd
          /\ pending[1] \in Nat /\ UniFirst <= pending[1] /\ pending[1] <= StreamEnd
      BY <2>2, <2>3, Streams
    <3>2. UniFirst \in Nat /\ StreamEnd \in Nat /\ StreamEnd - UniFirst < SeqMod \div 2
      BY Streams
    <3>3. SeqMod \in Nat \ {0} /\ SeqMod \div 2 \in Nat /\ SeqMod = 2 * (SeqMod \div 2)
      BY Sizes
    <3> DEFINE p == pending[1]
               h == SeqMod \div 2
    <3>4. -SeqMod < t - p /\ t - p < SeqMod /\ t \in Int /\ p \in Int
      <4> HIDE DEF p, h
      <4>1. /\ t \in Nat /\ UniFirst <= t /\ t <= StreamEnd /\ p \in Nat /\ UniFirst <= p
            /\ p <= StreamEnd /\ UniFirst \in Nat /\ StreamEnd \in Nat /\ StreamEnd - UniFirst < h
            /\ h \in Nat /\ SeqMod = 2 * h
        BY <3>1, <3>2, <3>3 DEF p, h
      <4> QED
        BY ONLY <4>1
    <3>5. t % SeqMod = p % SeqMod
      BY <2>1, <2>2
    <3> HIDE DEF p
    <3>6. t = p
      BY <3>3, <3>4, <3>5, ModSame
    <3> QED
      BY <3>6 DEF p
  <2>5. i <= Mark + MaxOverrun /\ Mark \in Nat
    BY <2>1, <2>2, <2>4, MarkIs
  <2> QED
    BY ONLY <1>1, <2>5
<1> QED
  BY <1>2, <1>3

LEMMA UnicastMediaStep ==
    ASSUME FccAssumption, FccIInv, NEW i \in StreamPositions, open, UnicastReach(i),
           HandleUnicastMedia(i), uni' \in UniFirst..(StreamEnd + 1),
           losses' \in 0..MaxLosses, noise' \in 0..MaxNoise
    PROVE  FccIInv'
<1>1. FccTypeOK /\ Bookkeeping /\ FlowInOrder
  BY DEF FccIInv
<1>2. /\ UnicastReach(i) /\ quiet' = 0
      /\ UNCHANGED <<server, redirects, termSent, termSeq, pending, age, joined, failed, mcastQuiet,
                     open, live, terms, sendFailed, fellBack>>
  BY DEF HandleUnicastMedia, mcast
<1>3. 0 \in 0..UnicastTimeout
  BY FccConstants
<1>4. live <= live' /\ (state = "REQUESTED" => redirects <= MaxRedirects)
  BY <1>1, <1>2, LiveSame DEF Bookkeeping
<1>5. CASE state = "MCAST_ACTIVE" /\ UNCHANGED <<state, reorder, played, apart>>
  <2>1. FccTypeOK'
    BY <1>1, <1>2, <1>3, <1>5, Types, TypesNext
  <2> QED
    BY <1>2, <1>4, <1>5, <2>1, SessionAlone DEF Carried
<1>6. CASE /\ state # "MCAST_ACTIVE"
           /\ Deliver(Processed(<<i>>))
           /\ state' = IF ReachedTermination(reorder') THEN "MCAST_ACTIVE"
                       ELSE IF state = "UNICAST_PENDING" THEN "UNICAST_ACTIVE"
                       ELSE state
  <2> DEFINE y == Handled(Output, i)
  <2>1. reorder' = y.reorder /\ played' = y.played /\ apart' = y.apart
    BY <1>6, ProcessedOne DEF Deliver
  <2>2. Typed(Output) /\ Output.reorder = reorder /\ Output.played = played /\ Output.apart = apart
    BY <1>1, OutputTyped
  <2>3. Typed(y)
    BY <2>2, HandledTyped
  <2> HIDE DEF y
  <2>4. /\ reorder' \in RingType(StreamPositions) /\ reorder'.out = << >>
        /\ played' \in Seq(StreamPositions) /\ apart' \in BOOLEAN
    BY <2>1, <2>3 DEF Typed
  <2>5. state' \in States /\ (state' = "REQUESTED" => state = "REQUESTED")
    BY <1>1, <1>6, Types DEF States
  <2>6. FccTypeOK'
    BY <1>1, <1>2, <1>3, <2>4, <2>5, Types, TypesNext
  <2>7. Bookkeeping'
    BY <1>1, <1>2, <1>6, <2>4, <2>5 DEF Bookkeeping
  <2>8. ASSUME ~apart' PROVE Ascending(played') /\ \E b, n : Flowing(Output', b, n) /\ NoHole(Output', b, Mark')
    <3>1. ~apart /\ ~Apart(reorder, i)
      BY <2>1, <2>2, <2>8, HandledApart DEF y
    <3>2. PICK b, n : Flowing(Output, b, n) /\ NoHole(Output, b, Mark)
      BY <1>1, <1>2, <1>6, <3>1 DEF FlowInOrder, Waiting
    <3>3. PICK c \in Nat, m \in StreamPositions : Flowing(y, c, m) /\ Onwards(Output, b, i, y, c)
      BY <2>2, <3>1, <3>2, HandleFlows DEF y
    <3>4. Mark \in Nat /\ i < Mark + Window
      BY <1>1, <1>2, <1>6, MarkIs, UnicastNear
    <3>5. NoHole(y, c, Mark)
      BY <3>2, <3>3, <3>4 DEF Onwards
    <3>6. Mark' = Mark
      BY <1>2 DEF Mark
    <3>7. Output'.reorder = y.reorder /\ Output'.played = y.played
      BY <2>1 DEF Output
    <3>8. Flowing(Output', c, m) /\ NoHole(Output', c, Mark)
      BY <3>3, <3>5, <3>7, FlowingSame
    <3>9. Ascending(played')
      BY <2>1, <3>3 DEF Flowing
    <3> QED
      BY <3>6, <3>8, <3>9
  <2>9. FlowInOrder'
    BY <2>8 DEF FlowInOrder
  <2> QED
    BY <2>6, <2>7, <2>9 DEF FccIInv
<1> QED
  BY <1>5, <1>6 DEF HandleUnicastMedia

LEMMA UnicastStep ==
    ASSUME FccAssumption, FccIInv, NEW i \in StreamPositions, UnicastArrives(i) \/ UnicastLate(i)
    PROVE  FccIInv'
<1>1. /\ losses \in 0..MaxLosses /\ MaxLosses \in Nat /\ noise \in 0..MaxNoise /\ MaxNoise \in Nat
      /\ uni \in UniFirst..(StreamEnd + 1) /\ i \in Nat /\ UniFirst <= i /\ i <= StreamEnd
      /\ UniFirst \in Nat /\ StreamEnd \in Nat
  BY Types, FccConstants, Streams DEF FccIInv
<1>2. open /\ UnicastReach(i) /\ HandleUnicastMedia(i)
  BY DEF UnicastArrives, UnicastLate, UnicastSent
<1>3. CASE UnicastArrives(i)
  <2>1. /\ i >= uni /\ losses + (i - uni) <= MaxLosses
        /\ uni' = i + 1 /\ losses' = losses + (i - uni) /\ noise' = noise
    BY <1>3 DEF UnicastArrives, UnicastSent
  <2>2. losses' \in 0..MaxLosses /\ uni' \in UniFirst..(StreamEnd + 1) /\ noise' \in 0..MaxNoise
    BY <1>1, <2>1
  <2> QED
    BY <1>2, <2>2, UnicastMediaStep
<1>4. CASE UnicastLate(i)
  <2>1. /\ noise < MaxNoise /\ noise' = noise + 1 /\ uni' = uni
        /\ MaxLosses > 0 /\ losses' = IF losses = 0 THEN 1 ELSE losses
    BY <1>4 DEF UnicastLate
  <2>2. losses' \in 0..MaxLosses /\ uni' \in UniFirst..(StreamEnd + 1) /\ noise' \in 0..MaxNoise
    BY <1>1, <2>1
  <2> QED
    BY <1>2, <2>2, UnicastMediaStep
<1> QED
  BY <1>3, <1>4

LEMMA Appended ==
    ASSUME NEW S, NEW s \in Seq(S), NEW i \in S
    PROVE  /\ Append(s, i) \in Seq(S) /\ Len(Append(s, i)) = Len(s) + 1 /\ Len(s) \in Nat
           /\ Append(s, i) # << >>
           /\ \A k \in 1..Len(s) : Append(s, i)[k] = s[k]
           /\ Append(s, i)[Len(s) + 1] = i
<1>1. /\ Append(s, i) \in Seq(S) /\ Len(Append(s, i)) = Len(s) + 1 /\ Len(s) \in Nat
      /\ \A k \in 1..Len(s) : Append(s, i)[k] = s[k]
      /\ Append(s, i)[Len(s) + 1] = i
  OBVIOUS
<1>2. Len(<< >>) = 0 /\ Len(s) + 1 # 0
  BY <1>1
<1>3. Append(s, i) # << >>
  BY ONLY <1>1, <1>2
<1> QED
  BY <1>1, <1>3

\* The packets of the group are kept in their order.
LEMMA KeptAscending ==
    ASSUME FccAssumption, FccTypeOK, Bookkeeping, NEW i \in StreamPositions, live <= i
    PROVE  /\ Append(pending, i) \in Seq(StreamPositions) /\ Append(pending, i) # << >>
           /\ Ascending(Append(pending, i))
           /\ \A k \in 1..Len(Append(pending, i)) : Append(pending, i)[k] < i + 1
           /\ pending = << >> => Append(pending, i)[1] = i
           /\ pending # << >> => Append(pending, i)[1] = pending[1]
           /\ \A k \in 1..Len(pending) : \E l \in 1..Len(Append(pending, i)) : Append(pending, i)[l] = pending[k]
<1>1. pending \in Seq(StreamPositions) /\ live \in Nat /\ i \in Nat /\ i \in StreamPositions
  BY Types, MarkIs, Streams
<1>0. /\ Append(pending, i) \in Seq(StreamPositions) /\ Len(Append(pending, i)) = Len(pending) + 1
      /\ Len(pending) \in Nat /\ Append(pending, i) # << >>
      /\ \A k \in 1..Len(pending) : Append(pending, i)[k] = pending[k]
      /\ Append(pending, i)[Len(pending) + 1] = i
  BY ONLY <1>1, Appended
<1> DEFINE s == Append(pending, i)
           n == Len(pending)
<1>2. /\ s \in Seq(StreamPositions) /\ Len(s) = n + 1 /\ n \in Nat /\ s # << >>
      /\ \A k \in 1..n : s[k] = pending[k]
      /\ s[n + 1] = i
  BY <1>0
<1>3. /\ \A k \in 1..n : pending[k] \in Nat /\ pending[k] < live
      /\ \A k, l \in 1..n : k < l => pending[k] < pending[l]
  BY <1>1, SeqFacts, Streams DEF Bookkeeping, Ascending
<1>4. pending = << >> => n = 0
  OBVIOUS
<1>5. pending # << >> => 1 \in 1..n
  BY <1>1, SeqFacts
<1> HIDE DEF s, n
<1>6. ASSUME NEW k \in 1..Len(s) PROVE s[k] < i + 1 /\ s[k] \in Nat /\ (k \in 1..n => s[k] < i) /\ (k \in 1..n \/ k = n + 1)
  <2>1. CASE k \in 1..n
    <3>1. s[k] = pending[k] /\ pending[k] \in Nat /\ pending[k] < live
      BY <1>2, <1>3, <2>1
    <3>2. i \in Nat /\ live \in Nat /\ live <= i
      BY <1>1
    <3> QED
      BY ONLY <2>1, <3>1, <3>2
  <2>2. CASE k = n + 1
    BY <1>1, <1>2, <2>2
  <2>3. k \in 1..n \/ k = n + 1
    BY <1>2
  <2> QED
    BY <2>1, <2>2, <2>3
<1>7. ASSUME NEW k \in 1..Len(s), NEW l \in 1..Len(s), k < l PROVE s[k] < s[l]
  <2>1. k \in 1..n
    BY <1>2, <1>7
  <2>2. CASE l \in 1..n
    BY <1>2, <1>3, <1>7, <2>1, <2>2
  <2>3. CASE l = n + 1
    BY <1>2, <1>6, <2>1, <2>3
  <2> QED
    BY <1>6, <2>2, <2>3
<1>8. ASSUME NEW k \in 1..n PROVE \E l \in 1..Len(s) : s[l] = pending[k]
  <2>1. k \in 1..Len(s)
    BY <1>2
  <2> QED
    BY <1>2, <2>1
<1>9. pending = << >> => s[1] = i
  <2>1. n = 0 => n + 1 = 1
    OBVIOUS
  <2> QED
    BY <1>2, <1>4, <2>1
<1>10. pending # << >> => s[1] = pending[1]
  BY <1>2, <1>5
<1>11. Ascending(s)
  BY <1>7 DEF Ascending
<1>12. \A k \in 1..Len(s) : s[k] < i + 1
  BY <1>6
<1> QED
  BY <1>2, <1>8, <1>9, <1>10, <1>11, <1>12 DEF s, n

\* A packet of the group in each state that takes one.
MulticastSent(i) ==
    /\ state = "MCAST_ACTIVE"
    /\ Deliver(Processed(ActiveOrder(i)))
    /\ pending' = << >>
    /\ UNCHANGED <<termSent, termSeq, failed, terms, sendFailed>>

MulticastKept(i) ==
    /\ state = "MCAST_REQUESTED"
    /\ Terminate(i)
    /\ pending' = Append(pending, i)
    /\ UNCHANGED <<reorder, played, apart, failed, sendFailed>>

MulticastFails(i) ==
    /\ state = "MCAST_REQUESTED" /\ ~termSent
    /\ termSeq' = i % SeqMod
    /\ failed' = TRUE /\ sendFailed' = TRUE
    /\ UNCHANGED <<reorder, played, apart, termSent, pending, terms>>

LEMMA MulticastIs ==
    ASSUME NEW i, MulticastArrives(i)
    PROVE  /\ open /\ joined /\ ~failed
           /\ i >= live /\ losses + (i - live) <= MaxLosses
           /\ live' = i + 1 /\ losses' = losses + (i - live) /\ mcastQuiet' = 0
           /\ UNCHANGED <<state, server, redirects, quiet, age, joined, open, uni, noise, fellBack>>
           /\ MulticastSent(i) \/ MulticastKept(i) \/ MulticastFails(i)
BY DEF MulticastArrives, MulticastSent, MulticastKept, MulticastFails

LEMMA MulticastNumbers ==
    ASSUME FccAssumption, FccTypeOK, NEW i \in StreamPositions, MulticastArrives(i)
    PROVE  /\ live \in Nat /\ live <= i /\ live < live' /\ i \in Nat
           /\ losses' \in 0..MaxLosses /\ 0 \in 0..McastTimeout /\ live' \in LiveFirst..(StreamEnd + 1)
           /\ i % SeqMod \in 0..(SeqMod - 1)
<1>1. /\ losses \in 0..MaxLosses /\ MaxLosses \in Nat /\ live \in LiveFirst..(StreamEnd + 1)
  BY Types, FccConstants
<1>2. i >= live /\ losses + (i - live) <= MaxLosses /\ live' = i + 1 /\ losses' = losses + (i - live)
  BY ONLY MulticastArrives(i), MulticastIs
<1>3. i \in Nat /\ UniFirst <= i /\ i <= StreamEnd /\ LiveFirst \in Nat /\ StreamEnd \in Nat /\ live \in Nat
  BY Streams, MarkIs
<1>4. 0 \in 0..McastTimeout /\ i % SeqMod \in 0..(SeqMod - 1)
  BY <1>3, FccConstants, NumberInt
<1>5. /\ live <= i /\ live < live' /\ losses' \in 0..MaxLosses /\ live' \in LiveFirst..(StreamEnd + 1)
  BY ONLY <1>1, <1>2, <1>3
<1> QED
  BY <1>3, <1>4, <1>5

LEMMA MulticastStep ==
    ASSUME FccAssumption, FccIInv, NEW i \in StreamPositions, MulticastArrives(i)
    PROVE  FccIInv'
<1>1. FccTypeOK /\ Bookkeeping /\ FlowInOrder
  BY DEF FccIInv
<1>2. /\ open /\ joined /\ live' = i + 1 /\ mcastQuiet' = 0
      /\ UNCHANGED <<state, server, redirects, quiet, age, joined, open, uni, noise, fellBack>>
      /\ MulticastSent(i) \/ MulticastKept(i) \/ MulticastFails(i)
  BY MulticastIs
<1>3. /\ live \in Nat /\ live <= i /\ live < live' /\ i \in Nat
      /\ losses' \in 0..MaxLosses /\ 0 \in 0..McastTimeout /\ live' \in LiveFirst..(StreamEnd + 1)
      /\ i % SeqMod \in 0..(SeqMod - 1)
  BY <1>1, MulticastNumbers
<1>4. LET s == Append(pending, i)
      IN  /\ s \in Seq(StreamPositions) /\ s # << >> /\ Ascending(s)
          /\ \A k \in 1..Len(s) : s[k] < i + 1
          /\ pending = << >> => s[1] = i
          /\ pending # << >> => s[1] = pending[1]
  BY <1>1, <1>3, KeptAscending
<1>5. CASE MulticastSent(i)
  <2> DEFINE s == Append(pending, i)
             y == Processed(s)
  <2>1. /\ state = "MCAST_ACTIVE" /\ reorder' = y.reorder /\ played' = y.played /\ apart' = y.apart
        /\ pending' = << >> /\ UNCHANGED <<termSent, termSeq, failed, terms, sendFailed>>
    BY <1>5 DEF MulticastSent, Deliver, ActiveOrder
  <2>2. Typed(Output) /\ (~apart => \E b, n : Flowing(Output, b, n))
    BY <1>1, <1>2, OutputTyped DEF FlowInOrder
  <2>3. s \in Seq(StreamPositions)
    BY <1>4
  <2> HIDE DEF s
  <2>4. Typed(y) /\ (~y.apart => ~apart /\ \E b, n : Flowing(y, b, n))
    BY <2>2, <2>3, ProcessedFlows
  <2> HIDE DEF y
  <2>5. /\ reorder' \in RingType(StreamPositions) /\ reorder'.out = << >>
        /\ played' \in Seq(StreamPositions) /\ apart' \in BOOLEAN
    BY <2>1, <2>4 DEF Typed
  <2>6. pending' \in Seq(StreamPositions) /\ 1..Len(pending') = {}
    BY <2>1
  <2>7. FccTypeOK'
    BY <1>1, <1>2, <1>3, <2>1, <2>5, <2>6, Types, TypesNext
  <2>8. Bookkeeping'
    BY <1>1, <1>2, <2>1, <2>5, <2>6, NothingAscends DEF Bookkeeping
  <2>9. ASSUME ~apart' PROVE Ascending(played') /\ \E b, n : Flowing(Output', b, n)
    <3>1. PICK b, n : Flowing(y, b, n)
      BY <2>1, <2>4, <2>9
    <3>2. Output'.reorder = y.reorder /\ Output'.played = y.played
      BY <2>1 DEF Output
    <3>3. Flowing(Output', b, n)
      BY <3>1, <3>2, FlowingSame
    <3>4. Ascending(played')
      BY <2>1, <3>1 DEF Flowing
    <3> QED
      BY <3>3, <3>4
  <2>10. ~Waiting'
    BY <1>2, <2>1 DEF Waiting
  <2>11. FlowInOrder'
    BY <2>9, <2>10 DEF FlowInOrder
  <2> QED
    BY <2>7, <2>8, <2>11 DEF FccIInv
<1>6. CASE MulticastKept(i)
  <2> DEFINE s == Append(pending, i)
  <2>1. /\ state = "MCAST_REQUESTED" /\ pending' = s /\ Terminate(i)
        /\ UNCHANGED <<reorder, played, apart, failed, sendFailed>>
    BY <1>6 DEF MulticastKept
  <2>2. /\ s \in Seq(StreamPositions) /\ s # << >> /\ Ascending(s)
        /\ \A k \in 1..Len(s) : s[k] < live'
        /\ pending = << >> => s[1] = i
        /\ pending # << >> => s[1] = pending[1]
    BY <1>2, <1>4
  <2> HIDE DEF s
  <2>3. termSent <=> pending # << >>
    BY <1>1, <1>2, <2>1 DEF Bookkeeping
  <2>4. /\ termSent' = TRUE /\ terms' = 1 /\ termSeq' = s[1] % SeqMod
    <3>1. CASE termSent
      <4>1. terms = 1 /\ termSeq = pending[1] % SeqMod
        BY <1>1, <1>2, <2>3, <3>1 DEF Bookkeeping
      <4>2. UNCHANGED <<termSent, termSeq, terms>>
        BY <2>1, <3>1 DEF Terminate
      <4>3. termSent = TRUE
        BY <1>1, <3>1, Types
      <4> QED
        BY <2>2, <2>3, <3>1, <4>1, <4>2, <4>3
    <3>2. CASE ~termSent
      <4>1. terms = 0
        BY <1>1, <1>2, <3>2 DEF Bookkeeping
      <4>2. termSent' = TRUE /\ termSeq' = i % SeqMod /\ terms' = terms + 1
        BY <2>1, <3>2 DEF Terminate
      <4> QED
        BY <2>2, <2>3, <3>2, <4>1, <4>2
    <3> QED
      BY <3>1, <3>2
  <2>5. termSeq' \in 0..(SeqMod - 1)
    <3>1. s[1] \in Nat
      BY <2>2, SeqFacts, Streams
    <3> QED
      BY <2>4, <3>1, NumberInt
  <2>6. FccTypeOK'
    BY <1>1, <1>2, <1>3, <2>1, <2>2, <2>4, <2>5, Types, TypesNext
  <2>7. Bookkeeping'
    BY <1>1, <1>2, <2>1, <2>2, <2>4 DEF Bookkeeping
  <2>8. Mark <= Mark' /\ (Waiting' => Waiting)
    <3>1. Mark' = s[1]
      BY <2>1, <2>2 DEF Mark
    <3>2. pending = << >> => Mark <= Mark'
      BY <1>3, <2>2, <3>1 DEF Mark
    <3>3. pending # << >> => Mark = Mark' /\ Mark \in Nat
      BY <1>1, <2>2, <3>1, MarkIs DEF Mark
    <3>4. Waiting
      BY <2>1 DEF Waiting
    <3>5. Mark = Mark' /\ Mark \in Nat => Mark <= Mark'
      OBVIOUS
    <3> QED
      BY <3>2, <3>3, <3>4, <3>5
  <2>9. FlowInOrder'
    BY <1>1, <1>2, <2>1, <2>6, <2>8, RingAlone
  <2> QED
    BY <2>6, <2>7, <2>9 DEF FccIInv
<1>7. CASE MulticastFails(i)
  <2>1. /\ state = "MCAST_REQUESTED" /\ ~termSent /\ termSeq' = i % SeqMod
        /\ failed' = TRUE /\ sendFailed' = TRUE
        /\ UNCHANGED <<reorder, played, apart, termSent, pending, terms>>
    BY <1>7 DEF MulticastFails
  <2>2. pending = << >> /\ 1..Len(pending) = {}
    <3>1. pending = << >>
      BY <1>1, <2>1 DEF Bookkeeping
    <3> QED
      BY <3>1
  <2>3. FccTypeOK'
    BY <1>1, <1>2, <1>3, <2>1, Types, TypesNext
  <2>4. Bookkeeping'
    BY <1>1, <1>2, <2>1, <2>2 DEF Bookkeeping
  <2>5. Mark <= Mark' /\ (Waiting' => Waiting)
    <3>1. Mark = live /\ Mark' = live'
      BY <2>1, <2>2 DEF Mark
    <3>2. live <= live'
      BY <1>2, <1>3
    <3> QED
      BY <2>1, <3>1, <3>2 DEF Waiting
  <2>6. FlowInOrder'
    BY <1>1, <1>2, <2>1, <2>3, <2>5, RingAlone
  <2> QED
    BY <2>3, <2>4, <2>6 DEF FccIInv
<1> QED
  BY <1>2, <1>5, <1>6, <1>7

LEMMA FccStep ==
    ASSUME FccAssumption, FccIInv, FccNext
    PROVE  FccIInv'
<1>0. FccTypeOK /\ 0 \in 0..UnicastTimeout /\ quiet \in 0..UnicastTimeout
      /\ server \in Servers /\ redirects \in 0..(MaxRedirects + 1)
  BY FccConstants, Types DEF FccIInv
<1>1. CASE ServerRefuses
  <2>1. open /\ quiet' = 0 /\ Fallback /\ server' \in Servers /\ UNCHANGED redirects
    BY <1>1 DEF ServerRefuses
  <2> QED
    BY <1>0, <2>1, FallbackStep
<1>2. CASE ServerAccepts
  BY <1>2, AcceptsStep
<1>3. CASE ServerNoise
  BY <1>3, NoiseStep
<1>4. CASE ServerSyncs
  BY <1>0, <1>4, SynchroniseStep DEF ServerSyncs
<1>5. ASSUME NEW s \in Servers, ServerRedirects(s) PROVE FccIInv'
  BY <1>5, RedirectsStep
<1>6. ASSUME NEW i \in StreamPositions, UnicastArrives(i) \/ UnicastLate(i) PROVE FccIInv'
  BY <1>6, UnicastStep
<1>7. ASSUME NEW i \in StreamPositions, MulticastArrives(i) PROVE FccIInv'
  BY <1>7, MulticastStep
<1>8. CASE UnicastNoBuffer
  BY <1>8, NoBufferStep
<1>9. CASE MulticastPasses
  BY <1>9, PassesStep
<1>10. CASE Elapse
  BY <1>10, ElapseStep
<1>11. CASE TickCloses
  BY <1>11, CleanupStep DEF TickCloses
<1>12. CASE TickFallsBack
  <2>1. open /\ Fallback /\ UNCHANGED <<server, redirects, quiet>>
    BY <1>12 DEF TickFallsBack
  <2> QED
    BY <1>0, <2>1, FallbackStep
<1>13. CASE TickSyncs
  <2>1. open /\ Synchronise /\ quiet' = quiet
    BY <1>13 DEF TickSyncs
  <2> QED
    BY <1>0, <2>1, SynchroniseStep
<1>14. CASE Disconnect
  BY <1>14, CleanupStep DEF Disconnect
<1> QED
  BY <1>1, <1>2, <1>3, <1>4, <1>5, <1>6, <1>7, <1>8, <1>9, <1>10, <1>11, <1>12, <1>13, <1>14
     DEF FccNext, Server, Media, Tick

LEMMA FccUnchanged ==
    ASSUME FccIInv, UNCHANGED fccVars
    PROVE  FccIInv'
<1>1. /\ FccTypeOK /\ Bookkeeping /\ FlowInOrder
      /\ UNCHANGED <<state, server, redirects, termSent, termSeq, pending, quiet, age, joined, failed,
                     mcastQuiet, reorder, open, uni, live, losses, noise, played, terms, sendFailed,
                     fellBack, apart>>
  BY DEF FccIInv, fccVars, fcc, mcast, network, history
<1>2. FccTypeOK'
  BY <1>1, Types, TypesNext
<1>3. Bookkeeping'
  BY <1>1 DEF Bookkeeping
<1>4. Output' = Output /\ Mark' = Mark /\ (Waiting' <=> Waiting)
  BY <1>1 DEF Output, Mark, Waiting
<1>5. FlowInOrder'
  BY <1>1, <1>4 DEF FlowInOrder
<1> QED
  BY <1>2, <1>3, <1>5 DEF FccIInv

LEMMA FccInductive == FccAssumption => (FccSpec => []FccIInv)
<1> SUFFICES ASSUME FccAssumption PROVE FccSpec => []FccIInv
  OBVIOUS
<1>1. FccInit => FccIInv
  BY InitHolds
<1>2. FccIInv /\ [FccNext]_fccVars => FccIInv'
  BY FccStep, FccUnchanged
<1> QED
  BY <1>1, <1>2, PTL DEF FccSpec

\* fcc.c with the viewer's reorder ring: through redirections, timeouts and the
\* switch to multicast the client gets one increasing stream, as long as the
\* packets collected first lie within a window, and the server is told to stop
\* once.
THEOREM FccInvariant == FccSpec => []FccInv
<1>1. FccIInv => FccInv
  <2> SUFFICES ASSUME FccIInv PROVE FccInv
    OBVIOUS
  <2>1. FccTypeOK /\ Bookkeeping /\ FlowInOrder /\ played \in Seq(StreamPositions)
        /\ terms \in Nat /\ open \in BOOLEAN
    BY Types DEF FccIInv
  <2>2. ClientInOrder
    <3> SUFFICES ASSUME ~apart, NEW k \in 1..(Len(played) - 1) PROVE played[k] < played[k + 1]
      BY DEF ClientInOrder, Increasing
    <3>1. Ascending(played)
      BY <2>1 DEF FlowInOrder
    <3>2. Len(played) \in Nat
      BY <2>1
    <3>3. k \in 1..Len(played) /\ k + 1 \in 1..Len(played) /\ k < k + 1
      BY <3>2
    <3> QED
      BY <3>1, <3>3 DEF Ascending
  <2>3. TerminatedOnce
    BY <2>1 DEF TerminatedOnce, Bookkeeping
  <2> QED
    BY <2>1, <2>2, <2>3 DEF FccInv
<1> QED
  BY <1>1, FccInductive, FccAssumption, PTL

\* A packet kept for later that is in no set of the next state but the client's.
LEMMA StaysPending ==
    ASSUME pending' = pending
    PROVE  Accounted
BY DEF Accounted

LEMMA ArrivalAccounted ==
    ASSUME FccAssumption, FccIInv, NEW i \in StreamPositions, MulticastArrives(i),
           reorder.phase = 2, ~apart
    PROVE  Accounted
<1>1. FccTypeOK /\ Bookkeeping /\ FlowInOrder /\ open
  BY MulticastIs DEF FccIInv
<1>2. pending \in Seq(StreamPositions) /\ live <= i
  BY <1>1, Types, MulticastNumbers
<1> DEFINE s == Append(pending, i)
<1>3. /\ s \in Seq(StreamPositions) /\ s # << >> /\ Ascending(s)
      /\ pending # << >> => s[1] = pending[1]
      /\ \A k \in 1..Len(pending) : \E l \in 1..Len(s) : s[l] = pending[k]
  BY <1>1, <1>2, KeptAscending
<1> HIDE DEF s
<1> SUFFICES ASSUME NEW p \in Range(pending), p \notin Range(pending'),
                    p \notin Buffered(reorder'), p \notin Range(played')
             PROVE  played' # << >> /\ p < played'[1]
  BY DEF Accounted
<1>4. PICK k \in 1..Len(pending) : pending[k] = p
  BY <1>2 DEF Range
<1>5. PICK l \in 1..Len(s) : s[l] = p
  BY <1>3, <1>4
<1>6. pending # << >>
  BY <1>4
<1>7. CASE MulticastSent(i)
  <2> DEFINE y == Processed(s)
  <2>1. reorder' = y.reorder /\ played' = y.played
    BY <1>7 DEF MulticastSent, Deliver, ActiveOrder, s
  <2> HIDE DEF y
  <2>2. PICK b, n : Flowing(Output, b, n) /\ NoHole(Output, b, Mark)
    BY <1>1, <1>6 DEF FlowInOrder, Waiting
  <2>3. Mark = s[1]
    BY <1>3, <1>6 DEF Mark
  <2>4. Typed(Output)
    BY <1>1, OutputTyped
  <2>5. Kept(y, p)
    BY <1>3, <1>5, <2>2, <2>3, <2>4, ProcessedKeeps DEF y
  <2>6. ~In(y.played, p)
    <3>1. Typed(y)
      BY <1>3, <2>2, <2>4, ProcessedFlows DEF y
    <3>2. played' \in Seq(StreamPositions)
      BY <2>1, <3>1 DEF Typed
    <3>3. ASSUME NEW j \in 1..Len(played') PROVE played'[j] \in Range(played')
      <4>1. j \in DOMAIN played'
        BY <3>2
      <4> QED
        BY <4>1 DEF Range
    <3> QED
      BY <2>1, <3>3 DEF In
  <2> QED
    BY <2>1, <2>5, <2>6 DEF Kept
<1>8. CASE MulticastKept(i)
  <2>1. pending' = s
    BY <1>8 DEF MulticastKept, s
  <2>2. p \in Range(s)
    BY <1>3, <1>5 DEF Range
  <2> QED
    BY <2>1, <2>2
<1>9. CASE MulticastFails(i)
  BY <1>9 DEF MulticastFails
<1> QED
  BY <1>7, <1>8, <1>9, MulticastIs

\* fcc.c keeps the multicast packets of the transition "for deferred sending":
\* once the ring delivers, each of them is sent by fcc_handle_mcast_active, is
\* still in the ring, or the client had its unicast copy.
THEOREM KeptPacketsDelivered == FccSpec => KeptIsDelivered
<1>1. FccIInv /\ [FccNext]_fccVars => [open' /\ reorder.phase = 2 /\ ~apart => Accounted]_fccVars
  <2> SUFFICES ASSUME FccIInv, FccNext, open', reorder.phase = 2, ~apart PROVE Accounted
    OBVIOUS
  <2>1. CASE ServerRefuses
    BY <2>1, StaysPending DEF ServerRefuses, Fallback
  <2>2. CASE ServerAccepts
    BY <2>2, StaysPending DEF ServerAccepts
  <2>3. CASE ServerNoise
    BY <2>3, StaysPending DEF ServerNoise, fcc
  <2>4. CASE ServerSyncs
    BY <2>4, StaysPending DEF ServerSyncs, Synchronise
  <2>5. ASSUME NEW s \in Servers, ServerRedirects(s) PROVE Accounted
    BY <2>5, StaysPending DEF ServerRedirects, Fallback, Cleanup
  <2>6. ASSUME NEW i \in StreamPositions, UnicastArrives(i) \/ UnicastLate(i) PROVE Accounted
    BY <2>6, StaysPending DEF UnicastArrives, UnicastLate, HandleUnicastMedia
  <2>7. ASSUME NEW i \in StreamPositions, MulticastArrives(i) PROVE Accounted
    BY <2>7, FccAssumption, ArrivalAccounted
  <2>8. CASE UnicastNoBuffer
    BY <2>8, StaysPending DEF UnicastNoBuffer, fcc
  <2>9. CASE MulticastPasses
    BY <2>9, StaysPending DEF MulticastPasses, fcc
  <2>10. CASE Elapse
    BY <2>10, StaysPending DEF Elapse
  <2>11. CASE TickCloses
    BY <2>11 DEF TickCloses, Cleanup
  <2>12. CASE TickFallsBack
    BY <2>12, StaysPending DEF TickFallsBack, Fallback
  <2>13. CASE TickSyncs
    BY <2>13, StaysPending DEF TickSyncs, Synchronise
  <2>14. CASE Disconnect
    BY <2>14 DEF Disconnect, Cleanup
  <2> QED
    BY <2>1, <2>2, <2>3, <2>4, <2>5, <2>6, <2>7, <2>8, <2>9, <2>10, <2>11, <2>12, <2>13, <2>14
       DEF FccNext, Server, Media, Tick
<1>2. FccAssumption
  BY FccAssumption
<1> QED
  BY <1>1, <1>2, FccInductive, PTL DEF FccSpec, KeptIsDelivered

-----------------------------------------------------------------------------
(* A stream without loss.                                                  *)

\* The ring holds exactly the packets from a to u - 1, and counts them.
Full(r, a, u) ==
    /\ a \in Nat /\ u \in Nat /\ a <= u
    /\ Aligned(r, a, u - 1)
    /\ \A p \in a..(u - 1) : p \in Buffered(r)
    /\ r.count = u - a

LEMMA FullIs ==
    ASSUME NEW r, NEW a, NEW u, Full(r, a, u)
    PROVE  /\ a \in Nat /\ u \in Nat /\ Aligned(r, a, u - 1) /\ r.count = u - a
           /\ r \in RingType(Nat)
BY DEF Full, Aligned

\* s is the n packets from position a on.
InTurn(s, a, n) == Len(s) = n /\ \A j \in 1..n : s[j] = a + j - 1

LEMMA FullNone ==
    ASSUME NEW r, NEW v \in Nat, Aligned(r, v, v - 1), r.count = 0
    PROVE  Full(r, v, v)
<1>1. v..(v - 1) = {} /\ v - v = 0 /\ v <= v
  OBVIOUS
<1> QED
  BY <1>1 DEF Full

LEMMA FullSame ==
    ASSUME NEW r, NEW q, NEW a, NEW u, Full(r, a, u), q \in RingType(Nat), q.base = r.base,
           q.slots = r.slots, q.count = r.count
    PROVE  Full(q, a, u)
<1>1. Buffered(q) = Buffered(r)
  BY DEF Buffered
<1>2. Aligned(r, a, u - 1) => Aligned(q, a, u - 1)
  BY DEF Aligned
<1> QED
  BY <1>1, <1>2 DEF Full

LEMMA FreeSlot ==
    ASSUME NEW r, NEW a, NEW u, Full(r, a, u), u - a < Window
    PROVE  r.slots[SlotOf(u)] = None
<1> DEFINE j == u - a
<1>1. j \in 0..(Window - 1) /\ a + j = u /\ a \in Nat /\ u \in Nat /\ Aligned(r, a, u - 1)
  BY Sizes DEF Full
<1> HIDE DEF j
<1>2. r.slots[SlotOf(a + j)] # None => a + j <= u - 1
  BY <1>1, SlotContent
<1> QED
  BY <1>1, <1>2

LEMMA FullPut ==
    ASSUME NEW r, NEW a, NEW u, Full(r, a, u), u - a < Window
    PROVE  /\ Full(Put(r, u), a, u + 1) /\ Put(r, u).out = r.out /\ Put(r, u).phase = r.phase
<1>1. /\ a \in Nat /\ u \in Nat /\ a <= u /\ Aligned(r, a, u - 1) /\ r.count = u - a
      /\ \A p \in a..(u - 1) : p \in Buffered(r)
      /\ Window \in Nat /\ Window < CountMod /\ CountMod \in Nat \ {0}
  BY CountRange DEF Full
<1> DEFINE q == Put(r, u)
<1>2. /\ Aligned(q, a, Newer(u - 1, u)) /\ q.out = r.out /\ q.phase = r.phase
      /\ Buffered(r) \subseteq Buffered(q) /\ u \in Buffered(q)
  <2>1. u < a + Window
    BY <1>1
  <2> QED
    BY <1>1, <2>1, PutKeeps
<1>3. Newer(u - 1, u) = u + 1 - 1
  BY <1>1 DEF Newer
<1>4. q.count = u + 1 - a
  <2>1. r \in RingType(Nat)
    BY <1>1 DEF Aligned
  <2>2. q.count = (r.count + 1) % CountMod
    BY <2>1 DEF Put, RingType
  <2>3. (r.count + 1) \in 0..(CountMod - 1)
    BY <1>1
  <2> HIDE DEF q
  <2>4. (r.count + 1) % CountMod = r.count + 1
    BY ONLY <1>1, <2>3
  <2> QED
    BY <1>1, <2>2, <2>4
<1> HIDE DEF q
<1>5. ASSUME NEW p \in a..(u + 1 - 1) PROVE p \in Buffered(q)
  <2>1. p = u \/ p \in a..(u - 1)
    BY <1>1
  <2> QED
    BY <1>1, <1>2, <2>1
<1>6. Aligned(q, a, u + 1 - 1) /\ u + 1 \in Nat /\ a <= u + 1
  BY <1>1, <1>2, <1>3
<1> QED
  BY <1>1, <1>2, <1>4, <1>5, <1>6 DEF Full, q

LEMMA FullFlush ==
    ASSUME NEW r, NEW a, NEW u, Full(r, a, u), u - a <= Window, r.out = << >>
    PROVE  /\ Full(FlushConsecutive(r), u, u) /\ FlushConsecutive(r).phase = r.phase
           /\ RunOut(FlushConsecutive(r), a, u - a)
<1> DEFINE run == RunLength(r.slots, r.base)
           n == u - a
<1>1. /\ a \in Nat /\ u \in Nat /\ a <= u /\ Aligned(r, a, u - 1) /\ r.count = n
      /\ \A p \in a..(u - 1) : p \in Buffered(r)
  BY DEF Full
<1>0. n \in Nat /\ n <= Window /\ Window \in Nat /\ a + n = u
  BY <1>1, Sizes
<1>2. /\ run \in 0..Window
      /\ \A j \in 0..(run - 1) : r.slots[SlotOf(r.base + j)] # None
      /\ run = Window \/ r.slots[SlotOf(r.base + run)] = None
  BY RunExists
<1> HIDE DEF run, n
<1>3. ASSUME NEW j \in 0..(Window - 1)
      PROVE  r.slots[SlotOf(r.base + j)] # None <=> j < n
  <2>1. /\ SlotOf(r.base + j) = SlotOf(a + j)
        /\ r.slots[SlotOf(a + j)] # None => a + j <= u - 1
    <3>1. Aligned(r, a, u - 1) /\ a \in Nat
      BY <1>1
    <3>2. j \in 0..(Window - 1)
      OBVIOUS
    <3> QED
      BY ONLY <3>1, SlotContent, RingAssumption, <3>2
  <2>2. j < n => r.slots[SlotOf(a + j)] # None
    <3> SUFFICES ASSUME j < n PROVE r.slots[SlotOf(a + j)] # None
      OBVIOUS
    <3>1. a + j \in a..(u - 1)
      BY <1>0, <1>1
    <3>2. a + j \in Buffered(r)
      BY <1>1, <3>1
    <3> QED
      BY <1>1, <3>2, StoredPlace
  <2>3. a + j <= u - 1 => j < n
    BY <1>0, <1>1
  <2> QED
    BY <2>1, <2>2, <2>3
<1>4. run = n
  <2>1. ASSUME run < n PROVE FALSE
    <3>1. run \in 0..(Window - 1) /\ run # Window
      BY <1>0, <1>2, <2>1
    <3> QED
      BY <1>2, <1>3, <2>1, <3>1
  <2>2. ASSUME n < run PROVE FALSE
    <3>1. n \in 0..(Window - 1) /\ n \in 0..(run - 1) /\ ~(n < n)
      BY <1>0, <1>2, <2>2
    <3> QED
      BY <1>2, <1>3, <3>1
  <2> QED
    BY <1>0, <1>2, <2>1, <2>2
<1>5. Flushed(r) = n
  BY <1>0, <1>1, <1>4 DEF Flushed, run
<1> DEFINE g == FlushConsecutive(r)
<1>6. /\ Aligned(g, a + n, u - 1) /\ g.phase = r.phase /\ g.count = r.count - n /\ RunOut(g, a, n)
  BY <1>1, <1>5, FlushDelivers
<1> HIDE DEF g
<1>7. Full(g, u, u)
  <2>1. g.count = 0 /\ Aligned(g, u, u - 1)
    BY <1>0, <1>1, <1>6
  <2> QED
    BY <1>1, <2>1, FullNone
<1> QED
  BY <1>6, <1>7 DEF g, n

\* What the client got when x has taken in exactly the packets from UniFirst to
\* u - 1.
Smooth(x, u) ==
    /\ ~x.apart
    /\ x.reorder.phase = 0 =>
          /\ u = UniFirst /\ x.played = << >>
          /\ Aligned(x.reorder, 0, None) /\ Buffered(x.reorder) = {} /\ x.reorder.count = 0
    /\ x.reorder.phase = 1 =>
          /\ UniFirst < u /\ x.played = << >> /\ Full(x.reorder, UniFirst, u)
          /\ x.reorder.count < Collect \/ x.reorder.count = 1
    /\ x.reorder.phase = 2 =>
          /\ UniFirst < u /\ Full(x.reorder, u, u)
          /\ InTurn(x.played, UniFirst, u - UniFirst)

LEMMA EmptiedFull ==
    ASSUME NEW r \in RingType(Nat), NEW a, NEW u, Full(r, a, u)
    PROVE  Full(Emptied(r), a, u)
<1>1. /\ Buffered(Emptied(r)) = Buffered(r) /\ Emptied(r).count = r.count
      /\ \A b, n : Aligned(r, b, n) <=> Aligned(Emptied(r), b, n)
  BY EmptiedIs
<1> QED
  BY <1>1 DEF Full

\* The next packet of the stream.
LEMMA SmoothNext ==
    ASSUME FccAssumption, NEW x, Typed(x), NEW u \in StreamPositions, Smooth(x, u)
    PROVE  /\ Smooth(Handled(x, u), u + 1)
           /\ x.reorder.phase = 2 => Handled(x, u).reorder.phase = 2
<1> DEFINE r == x.reorder
           q == InsertPacket(x.reorder, u)
           y == Handled(x, u)
           v == u + 1
<1>1. /\ y.reorder = Emptied(q) /\ y.played = x.played \o q.out
      /\ y.apart = (x.apart \/ Apart(r, u))
  BY HandledIs
<1>2. /\ StreamPositions \subseteq Nat /\ u \in Nat /\ UniFirst \in Nat /\ UniFirst <= u
      /\ u <= StreamEnd /\ StreamEnd \in Nat
      /\ v \in Nat /\ v = u + 1 /\ v - 1 = u
      /\ Window \in Nat /\ Window > 1 /\ Collect \in 1..Window
  BY Streams, FccAssumption DEF FccAssumption
<1>3. r \in RingType(StreamPositions) /\ r.out = << >> /\ x.played \in Seq(StreamPositions) /\ ~x.apart
  BY DEF Typed, Smooth
<1>4. q \in RingType(StreamPositions)
  BY <1>2, <1>3, InsertTyped
<1>5. r \in RingType(Nat) /\ q \in RingType(Nat)
  BY <1>2, <1>3, <1>4, RingWider
<1>6. r.phase \in 0..2
  BY <1>5, RingFields
<1>7. /\ r.phase = 0 => /\ u = UniFirst /\ x.played = << >>
                        /\ Aligned(r, 0, None) /\ Buffered(r) = {} /\ r.count = 0
      /\ r.phase = 1 => /\ UniFirst < u /\ x.played = << >> /\ Full(r, UniFirst, u)
                        /\ r.count < Collect \/ r.count = 1
      /\ r.phase = 2 => /\ UniFirst < u /\ Full(r, u, u)
                        /\ InTurn(x.played, UniFirst, u - UniFirst)
  BY DEF Smooth
<1> SUFFICES Smooth(y, v) /\ (r.phase = 2 => y.reorder.phase = 2)
  OBVIOUS
<1> HIDE DEF r, q, y, v
<1>8. y.reorder.phase = q.phase /\ y.reorder.count = q.count /\ \A a, b : Full(q, a, b) => Full(y.reorder, a, b)
  BY <1>1, <1>5, EmptiedIs, EmptiedFull
\* The packets are within one window, as fewer than Collect were there.
<1>9. r.phase = 1 => u - UniFirst < Window
  <2> SUFFICES ASSUME r.phase = 1 PROVE u - UniFirst < Window
    OBVIOUS
  <2>1. r.count = u - UniFirst /\ (r.count < Collect \/ r.count = 1)
    BY <1>7 DEF Full
  <2> QED
    BY <1>2, <2>1
<1>10. ~Apart(r, u)
  <2> SUFFICES ASSUME r.phase = 1, NEW k \in Buffered(r) PROVE ~(u >= k + Window \/ k >= u + Window)
    BY DEF Apart
  <2>1. Aligned(r, UniFirst, u - 1)
    BY <1>7 DEF Full
  <2>2. k \in Nat /\ UniFirst <= k /\ k <= u - 1
    BY <2>1, StoredPlace
  <2> QED
    BY <1>2, <1>9, <2>2
<1>11. ~y.apart
  BY <1>1, <1>3, <1>10
<1>12. CASE r.phase = 0
  <2> DEFINE p == Placed(r, u % SeqMod, 1)
  <2>1. q = Put(p, u)
    BY <1>12 DEF q, r, InsertPacket, Placed
  <2>2. p \in RingType(Nat) /\ p.base = u % SeqMod /\ p.phase = 1 /\ p.slots = r.slots /\ p.out = << >>
        /\ p.count = 0
    <3>1. u % SeqMod \in 0..(SeqMod - 1) /\ 1 \in 0..2
      <4>1. u \in Int
        BY <1>2
      <4> QED
        BY <4>1, NumberInt
    <3>2. SameStore(r, p, u % SeqMod, 1)
      BY <1>5, <3>1, PhaseSet
    <3>3. p.count = r.count
      BY <1>5 DEF Placed, RingType
    <3> HIDE DEF p
    <3> QED
      BY <1>3, <1>7, <1>12, <3>2, <3>3 DEF SameStore
  <2> HIDE DEF p
  <2>3. Full(p, u, u)
    <3>1. ASSUME NEW s \in 0..(Window - 1) PROVE p.slots[s] = None
      BY <1>7, <1>12, <2>2 DEF Buffered
    <3>2. u - 1 \in Nat \cup {None} /\ u <= u - 1 + 1 /\ u - 1 < u + Window
      BY <1>2 DEF None
    <3>3. Aligned(p, u, u - 1)
      BY <1>2, <2>2, <3>1, <3>2 DEF Aligned
    <3> QED
      BY <1>2, <2>2, <3>3, FullNone
  <2>4. Full(q, u, v) /\ q.out = << >> /\ q.phase = 1
    <3>1. u - u < Window
      BY <1>2
    <3> QED
      BY <1>2, <2>1, <2>2, <2>3, <3>1, FullPut
  <2>5. y.played = << >> /\ q.count = 1
    <3>1. v - u = 1
      BY <1>2
    <3> QED
      BY <1>1, <1>7, <1>12, <2>4, <3>1 DEF Full
  <2>6. UniFirst < v /\ UniFirst = u
    BY <1>2, <1>7, <1>12
  <2>7. y.reorder.phase = 1 /\ Full(y.reorder, UniFirst, v) /\ y.reorder.count = 1
    BY <1>8, <2>4, <2>5, <2>6
  <2> QED
    BY <1>11, <1>12, <2>5, <2>6, <2>7 DEF Smooth
<1>13. CASE r.phase = 1
  <2> DEFINE p == Put(r, u)
             f == InPhase(p, 2)
  <2>1. Full(r, UniFirst, u) /\ u - UniFirst < Window /\ UniFirst < u /\ x.played = << >>
    BY <1>7, <1>9, <1>13
  <2>2. r.slots[SlotOf(u)] = None
    BY <2>1, FreeSlot
  <2>3. Collected(r, u) = p
    <3>1. SeqDiff(u, r.base) = u - UniFirst
      <4>1. r.base = UniFirst % SeqMod /\ UniFirst <= StreamEnd + 1
        BY <1>2, <2>1 DEF Full, Aligned
      <4>2. UniFirst <= UniFirst
        BY <1>2
      <4> QED
        BY <1>2, <4>1, <4>2, StreamDiff
    <3>2. ~(SeqDiff(u, r.base) < 0)
      BY <1>2, <2>1, <3>1
    <3>3. [r EXCEPT !.base = r.base] = r
      BY <1>5 DEF RingType
    <3> QED
      BY <2>2, <3>2, <3>3 DEF Collected
  <2>4. Full(p, UniFirst, v) /\ p.out = << >> /\ p.phase = 1
    BY <1>2, <1>3, <1>13, <2>1, FullPut
  <2> HIDE DEF p
  <2>5. q = IF p.count < Collect THEN p ELSE FlushConsecutive(f)
    BY <1>13, <2>3 DEF q, r, InsertPacket, InPhase
  <2>6. CASE p.count < Collect
    <3>1. q = p
      BY <2>5, <2>6
    <3>2. y.played = << >>
      BY <1>1, <2>1, <2>4, <3>1
    <3>3. UniFirst < v
      BY <1>2
    <3>4. /\ y.reorder.phase = 1 /\ Full(y.reorder, UniFirst, v)
          /\ y.reorder.count < Collect
      BY <1>8, <2>4, <2>6, <3>1
    <3> QED
      BY <1>11, <1>13, <3>2, <3>3, <3>4 DEF Smooth
  <2>7. CASE ~(p.count < Collect)
    <3>1. p \in RingType(Nat)
      BY <2>4, FullIs
    <3>2. /\ f \in RingType(Nat) /\ f.phase = 2 /\ f.base = p.base /\ f.slots = p.slots
          /\ f.out = << >> /\ f.count = p.count
      <4>1. p.base \in 0..(SeqMod - 1) /\ 2 \in 0..2
        BY <3>1, RingFields
      <4>2. SameStore(p, f, p.base, 2)
        BY <3>1, <4>1, PhaseSet
      <4>3. f.count = p.count
        BY <3>1 DEF InPhase, RingType
      <4> HIDE DEF f
      <4> QED
        BY <2>4, <4>2, <4>3 DEF SameStore
    <3> HIDE DEF f
    <3>3. Full(f, UniFirst, v)
      BY <2>4, <3>2, FullSame
    <3>4. q = FlushConsecutive(f) /\ v - UniFirst <= Window
      <4>1. q = FlushConsecutive(f)
        BY <2>5, <2>7
      <4>2. v - UniFirst <= Window
        <5>1. /\ u \in Nat /\ v = u + 1 /\ UniFirst \in Nat /\ Window \in Nat
              /\ u - UniFirst < Window
          BY <1>2, <2>1
        <5> QED
          BY ONLY <5>1
      <4> QED
        BY <4>1, <4>2
    <3>5. Full(q, v, v) /\ q.phase = 2 /\ RunOut(q, UniFirst, v - UniFirst)
      <4>1. f.out = << >> /\ f.phase = 2
        BY <3>2
      <4>2. /\ Full(FlushConsecutive(f), v, v) /\ FlushConsecutive(f).phase = f.phase
            /\ RunOut(FlushConsecutive(f), UniFirst, v - UniFirst)
        BY ONLY RingAssumption, <3>3, <3>4, <4>1, FullFlush
      <4> QED
        BY <3>4, <4>1, <4>2
    <3>6. y.played = q.out
      <4>1. q.out \in Seq(Nat)
        BY <1>5, RingFields
      <4> QED
        BY <1>1, <2>1, <4>1, SeqFacts
    <3>7. InTurn(y.played, UniFirst, v - UniFirst) /\ UniFirst < v
      BY <1>2, <3>5, <3>6 DEF RunOut, InTurn
    <3>8. y.reorder.phase = 2 /\ Full(y.reorder, v, v)
      BY <1>8, <3>5
    <3> QED
      BY <1>11, <1>13, <3>7, <3>8 DEF Smooth
  <2> QED
    BY <2>6, <2>7
<1>14. CASE r.phase = 2
  <2>1. UniFirst < u /\ Full(r, u, u) /\ InTurn(x.played, UniFirst, u - UniFirst)
    BY <1>7, <1>14
  <2>2. /\ Aligned(r, u, u - 1) /\ r.count = 0 /\ r.slots[SlotOf(u)] = None
    <3>1. u - u = 0 /\ u - u < Window
      BY <1>2
    <3> QED
      BY <2>1, <3>1, FreeSlot DEF Full
  <2>3. SeqDiff(u, r.base) = 0
    <3>1. r.base = u % SeqMod /\ u <= StreamEnd + 1 /\ u - u = 0
      BY <1>2, <2>2 DEF Aligned
    <3> QED
      BY <1>2, <3>1, StreamDiff
  <2>4. q = PassedOn(r, u)
    <3>1. q = Expected(r, u)
      BY <1>14, <2>3 DEF q, r, InsertPacket
    <3> QED
      BY <2>2, <3>1 DEF Expected, PassedOn
  <2>5. q.out = <<u>> /\ q.count = 0 /\ q.phase = 2
    <3>1. q.count = r.count /\ q.phase = r.phase /\ q.out = Append(r.out, u)
      BY <1>5, <2>4 DEF PassedOn, RingType
    <3>2. Append(<< >>, u) = <<u>>
      OBVIOUS
    <3> QED
      BY <1>3, <1>14, <2>2, <3>1, <3>2
  <2>6. Full(q, v, v)
    <3>1. Inserted(r, u - 1, u, q, u, v)
      BY <1>2, <1>3, <1>14, <2>2, <2>4, StraightThrough
    <3>2. Aligned(q, v, Newer(u - 1, u))
      BY <3>1 DEF Inserted
    <3>3. Newer(u - 1, u) = v - 1 /\ v \in Nat
      BY <1>2 DEF Newer
    <3>4. Aligned(q, v, v - 1)
      BY ONLY <3>2, <3>3
    <3> QED
      BY <2>5, <3>3, <3>4, FullNone
  <2>7. InTurn(y.played, UniFirst, v - UniFirst)
    <3> DEFINE s == x.played
               t == <<u>>
               n == u - UniFirst
    <3>0. s \in Seq(Nat)
      BY <1>2, <1>3, SeqFacts
    <3>1. /\ Len(s) = n /\ n \in Nat /\ UniFirst + n = u /\ v - UniFirst = n + 1
          /\ \A j \in 1..n : s[j] = UniFirst + j - 1
      <4>2. Len(s) = n /\ \A j \in 1..n : s[j] = UniFirst + j - 1
        BY <2>1 DEF InTurn
      <4>3. n \in Nat /\ UniFirst + n = u /\ v - UniFirst = n + 1
        BY <1>2
      <4> QED
        BY <4>2, <4>3
    <3>2. t \in Seq(Nat) /\ Len(t) = 1 /\ t[1] = u /\ y.played = s \o t
      BY <1>1, <1>2, <2>5
    <3> HIDE DEF s, t, n
    <3>3. /\ Len(s \o t) = Len(s) + Len(t)
          /\ \A k \in 1..Len(s) : (s \o t)[k] = s[k]
          /\ \A k \in 1..Len(t) : (s \o t)[Len(s) + k] = t[k]
      <4>1. s \in Seq(Nat) /\ t \in Seq(Nat)
        BY <3>0, <3>2
      <4> QED
        BY ONLY <4>1, Concat
    <3> DEFINE z == y.played
    <3>4. Len(z) = n + 1 /\ (\A k \in 1..n : z[k] = UniFirst + k - 1) /\ z[n + 1] = UniFirst + (n + 1) - 1
      <4>1. Len(z) = Len(s) + 1 /\ (\A k \in 1..Len(s) : z[k] = s[k]) /\ z[Len(s) + 1] = t[1]
        <5>1. 1 \in 1..Len(t)
          BY <3>2
        <5> QED
          BY <3>2, <3>3, <5>1
      <4> HIDE DEF z
      <4>2. z[n + 1] = u /\ u = UniFirst + (n + 1) - 1
        BY <1>2, <3>1, <3>2, <4>1
      <4> QED
        BY <3>1, <4>1, <4>2
    <3> HIDE DEF z
    <3>5. ASSUME NEW k \in 1..(n + 1) PROVE z[k] = UniFirst + k - 1
      <4>1. k \in 1..n \/ k = n + 1
        BY <3>1
      <4> QED
        BY <3>4, <4>1
    <3> QED
      BY <3>1, <3>4, <3>5 DEF InTurn, z
  <2>8. UniFirst < v
    BY <1>2
  <2>9. y.reorder.phase = 2 /\ Full(y.reorder, v, v)
    BY <1>8, <2>5, <2>6
  <2> QED
    BY <1>11, <1>14, <2>7, <2>8, <2>9 DEF Smooth
<1> QED
  BY <1>6, <1>12, <1>13, <1>14

\* A packet that the client has had already.
LEMMA SmoothLate ==
    ASSUME FccAssumption, NEW x, Typed(x), NEW u \in Nat, u <= StreamEnd + 1, Smooth(x, u),
           x.reorder.phase = 2, NEW i \in StreamPositions, i < u
    PROVE  /\ Smooth(Handled(x, i), u)
           /\ Handled(x, i).reorder.phase = 2
<1> DEFINE r == x.reorder
           y == Handled(x, i)
<1>1. /\ y.reorder = Emptied(InsertPacket(r, i)) /\ y.played = x.played \o InsertPacket(r, i).out
      /\ y.apart = (x.apart \/ Apart(r, i))
  BY HandledIs
<1>2. r \in RingType(StreamPositions) /\ r.out = << >> /\ x.played \in Seq(StreamPositions)
  BY DEF Typed
<1>3. UniFirst < u /\ Full(r, u, u) /\ InTurn(x.played, UniFirst, u - UniFirst) /\ ~x.apart
  BY DEF Smooth
<1>4. SeqDiff(i, r.base) < 0 /\ SeqDiff(i, r.base) # 0 /\ ~(SeqDiff(i, r.base) > 0)
  <2>1. r.base = u % SeqMod
    BY <1>3 DEF Full, Aligned
  <2>2. SeqDiff(i, u % SeqMod) = i - u
    <3>1. UniFirst <= u
      BY <1>3, Streams
    <3> QED
      BY <3>1, StreamDiff
  <2>3. i \in Nat
    BY Streams
  <2> QED
    BY <2>1, <2>2, <2>3
<1>5. InsertPacket(r, i) = r
  <2>1. r.phase = 2 /\ r.phase # 0 /\ r.phase # 1
    OBVIOUS
  <2> HIDE DEF r
  <2> QED
    BY ONLY <1>4, <2>1 DEF InsertPacket
<1>6. r \in RingType(Nat)
  BY <1>2, RingWider, Streams
<1>7. Emptied(r).phase = 2 /\ Full(Emptied(r), u, u)
  BY <1>3, <1>6, EmptiedIs, EmptiedFull
<1>8. x.played \o r.out = x.played
  BY <1>2
<1>9. ~Apart(r, i)
  BY DEF Apart
<1> HIDE DEF r, y
<1>10. y.reorder.phase = 2 /\ Full(y.reorder, u, u) /\ y.played = x.played /\ ~y.apart
  BY <1>1, <1>3, <1>5, <1>7, <1>8, <1>9
<1>11. Smooth(y, u)
  BY <1>3, <1>10 DEF Smooth
<1> QED
  BY <1>10, <1>11 DEF y

\* The packets kept, which follow one another up to the newest, then that one.
LEMMA SmoothProcessed ==
    ASSUME FccAssumption, NEW s \in Seq(StreamPositions), s # << >>,
           \A k \in 1..(Len(s) - 1) : s[k + 1] = s[k] + 1,
           Typed(Output), NEW u \in Nat, u <= StreamEnd + 1, Smooth(Output, u), reorder.phase = 2,
           s[1] <= u
    PROVE  \E v \in Nat :
              /\ Smooth(Processed(s), v) /\ Processed(s).reorder.phase = 2
              /\ u <= v /\ v <= StreamEnd + 1 /\ s[Len(s)] < v
<1>1. PICK f : /\ f[0] = Output /\ Processed(s) = f[Len(s)]
               /\ \A k \in 1..Len(s) : f[k] = Handled(f[k - 1], s[k])
  BY ProcessedIs
<1>2. /\ Len(s) \in Nat /\ (\A k \in 1..Len(s) : s[k] \in Nat /\ s[k] \in StreamPositions /\ s[k] <= StreamEnd)
      /\ 1 \in 1..Len(s) /\ StreamEnd \in Nat
  BY SeqFacts, Streams
<1> DEFINE Up(y, k, v) == /\ Smooth(y, v) /\ u <= v /\ v <= StreamEnd + 1
                          /\ k > 0 => s[k] < v
                          /\ k < Len(s) => s[k + 1] <= v
           Good(y, k) == Typed(y) /\ y.reorder.phase = 2 /\ \E v \in Nat : Up(y, k, v)
           bad == {k \in 0..Len(s) : ~Good(f[k], k)}
<1>3. Good(Output, 0)
  <2>1. Output.reorder = reorder
    BY DEF Output
  <2>2. Up(Output, 0, u)
    OBVIOUS
  <2> HIDE DEF Up
  <2> QED
    BY <2>1, <2>2
<1> HIDE DEF Good
<1>4. bad = {}
  <2> SUFFICES ASSUME bad # {} PROVE FALSE
    OBVIOUS
  <2>1. PICK k \in bad : \A j \in bad : k <= j
    <3>1. bad \subseteq Nat
      OBVIOUS
    <3> HIDE DEF bad
    <3> QED
      BY <3>1, LeastNat
  <2>2. k # 0 /\ k \in 0..Len(s)
    BY <1>1, <1>3, <2>1
  <2>3. k - 1 \in 0..Len(s) /\ k \in 1..Len(s) /\ ~(k <= k - 1) /\ k - 1 < Len(s) /\ k - 1 + 1 = k /\ k > 0
    <3>1. Len(s) \in Nat
      BY <1>2
    <3> QED
      BY ONLY <2>2, <3>1
  <2>4. Good(f[k - 1], k - 1)
    BY <2>1, <2>3
  <2> DEFINE x == f[k - 1]
             i == s[k]
             y == Handled(x, i)
  <2>5. f[k] = y /\ i \in StreamPositions /\ i \in Nat /\ i <= StreamEnd
    BY <1>1, <1>2, <2>3
  <2>6. Good(x, k - 1) /\ ~Good(y, k)
    BY <2>1, <2>4, <2>5
  <2>7. Typed(x) /\ x.reorder.phase = 2 /\ \E v \in Nat : Up(x, k - 1, v)
    BY <2>6 DEF Good
  <2>8. PICK v \in Nat : Up(x, k - 1, v)
    BY <2>7
  <2>9. Smooth(x, v) /\ u <= v /\ v <= StreamEnd + 1 /\ i <= v
    BY <2>3, <2>8
  <2>10. k < Len(s) => s[k + 1] = i + 1
    BY <1>2, <2>3
  <2> HIDE DEF x
  <2>11. Typed(y)
    BY <2>5, <2>7, HandledTyped
  <2>12. CASE i = v
    <3>1. Smooth(y, v + 1) /\ y.reorder.phase = 2
      BY <2>5, <2>7, <2>9, <2>12, SmoothNext
    <3> DEFINE w == v + 1
    <3>2. w \in Nat /\ u <= w /\ w <= StreamEnd + 1 /\ i < w /\ i + 1 <= w
      BY <1>2, <2>5, <2>9, <2>12
    <3>3. Smooth(y, w)
      BY <3>1
    <3> HIDE DEF y, w, Up
    <3>4. Up(y, k, w)
      BY <2>10, <3>2, <3>3 DEF Up
    <3> QED
      BY <2>6, <2>11, <3>1, <3>2, <3>4 DEF Good
  <2>13. CASE i # v
    <3>1. i < v /\ i + 1 <= v
      <4>1. i \in Nat /\ v \in Nat /\ i <= v /\ i # v
        BY <2>5, <2>9, <2>13
      <4> HIDE DEF i
      <4> QED
        BY ONLY <4>1
    <3>2. Smooth(y, v) /\ y.reorder.phase = 2
      <4>1. Smooth(Handled(x, i), v) /\ Handled(x, i).reorder.phase = 2
        <5> HIDE DEF x, i, y, Up, Good
        <5>1. /\ FccAssumption /\ Typed(x) /\ x.reorder.phase = 2 /\ i \in StreamPositions
              /\ v \in Nat /\ v <= StreamEnd + 1 /\ Smooth(x, v) /\ i < v
          BY <2>5, <2>7, <2>9, <3>1
        <5> QED
          BY ONLY <5>1, SmoothLate
      <4> QED
        BY <4>1
    <3> HIDE DEF y, Up
    <3>3. Up(y, k, v)
      BY <2>9, <2>10, <3>1, <3>2 DEF Up
    <3> QED
      BY <2>6, <2>11, <3>2, <3>3 DEF Good
  <2> QED
    BY <2>12, <2>13
<1>5. Len(s) \in 0..Len(s) /\ Len(s) > 0
  BY <1>2
<1>6. Good(Processed(s), Len(s))
  BY <1>1, <1>4, <1>5
<1>7. Processed(s).reorder.phase = 2 /\ \E v \in Nat : Up(Processed(s), Len(s), v)
  BY <1>6 DEF Good
<1> QED
  BY <1>5, <1>7

-----------------------------------------------------------------------------
(* The switch without loss.                                                *)

\* Unicast up to the switch, and from there on the group, is one stream, and
\* what is kept from the group follows on one another up to its next packet.
SwitchAt(u) ==
    /\ Smooth(Output, u)
    /\ state # "MCAST_ACTIVE" => u = uni
    /\ state = "MCAST_ACTIVE" => termSent /\ reorder.phase = 2 /\ Mark <= u
    /\ \A k \in 1..Len(pending) : pending[k] = live - Len(pending) + k - 1

SmoothSwitch ==
    losses = 0 /\ ~fellBack =>
       /\ \A k \in 1..(Len(played) - 1) : played[k + 1] = played[k] + 1
       /\ open => \E u \in Nat : u <= StreamEnd + 1 /\ SwitchAt(u)

\* What a smooth stream gave the client is without holes.
LEMMA SmoothPlayed ==
    ASSUME FccAssumption, NEW x, Typed(x), NEW u \in Nat, Smooth(x, u)
    PROVE  \A k \in 1..(Len(x.played) - 1) : x.played[k + 1] = x.played[k] + 1
<1>1. x.reorder.phase \in 0..2
  <2>1. x.reorder \in RingType(Nat)
    BY RingWider, Streams DEF Typed
  <2> QED
    BY <2>1, RingFields
<1>2. CASE x.reorder.phase # 2
  <2>1. x.played = << >>
    BY ONLY Smooth(x, u), <1>1, <1>2 DEF Smooth
  <2>2. 1..(Len(x.played) - 1) = {}
    BY ONLY <2>1
  <2> QED
    BY ONLY <2>2
<1>3. CASE x.reorder.phase = 2
  <2>1. UniFirst < u /\ InTurn(x.played, UniFirst, u - UniFirst) /\ UniFirst \in Nat
    BY <1>3, Streams DEF Smooth
  <2> DEFINE n == u - UniFirst
  <2>2. n \in Nat /\ Len(x.played) = n /\ \A k \in 1..n : x.played[k] = UniFirst + k - 1
    <3>1. n \in Nat
      BY <2>1
    <3> HIDE DEF n
    <3> QED
      BY <2>1, <3>1 DEF InTurn, n
  <2> HIDE DEF n
  <2>3. ASSUME NEW k \in 1..(n - 1) PROVE x.played[k + 1] = x.played[k] + 1
    <3>1. k \in 1..n /\ k + 1 \in 1..n /\ UniFirst \in Nat
      BY <2>1, <2>2
    <3>2. x.played[k] = UniFirst + k - 1 /\ x.played[k + 1] = UniFirst + (k + 1) - 1
      BY <2>2, <3>1
    <3> QED
      BY <3>1, <3>2
  <2> QED
    BY <2>2, <2>3
<1> QED
  BY <1>2, <1>3

\* A step of an open session that leaves the client's stream alone.
LEMMA SwitchAlone ==
    ASSUME SmoothSwitch, open, UNCHANGED <<reorder, played, apart>>,
           losses' = 0 /\ ~fellBack' => losses = 0 /\ ~fellBack,
           \A u \in Nat : losses' = 0 /\ ~fellBack' /\ u <= StreamEnd + 1 /\ SwitchAt(u) => SwitchAt(u)'
    PROVE  SmoothSwitch'
<1> SUFFICES ASSUME losses' = 0, ~fellBack'
             PROVE  /\ \A k \in 1..(Len(played) - 1) : played[k + 1] = played[k] + 1
                    /\ \E u \in Nat : u <= StreamEnd + 1 /\ SwitchAt(u)'
  BY DEF SmoothSwitch
<1>1. PICK u \in Nat : u <= StreamEnd + 1 /\ SwitchAt(u)
  BY DEF SmoothSwitch
<1>2. SwitchAt(u)'
  BY <1>1
<1> QED
  BY <1>1, <1>2 DEF SmoothSwitch

LEMMA SwitchInit ==
    ASSUME FccAssumption, FccInit
    PROVE  SmoothSwitch
<1>1. /\ Output.reorder = EmptyRing /\ Output.played = << >> /\ ~Output.apart
      /\ played = << >> /\ pending = << >> /\ uni = UniFirst /\ state = "REQUESTED"
  BY DEF FccInit, Output
<1>2. EmptyRing.phase = 0 /\ Buffered(EmptyRing) = {} /\ EmptyRing.count = 0
  BY EmptyTyped
<1>3. Flowing(Output, 0, None)
  BY <1>1, EmptyFlows
<1>4. Aligned(EmptyRing, 0, None)
  BY <1>1, <1>3 DEF Flowing
<1>5. Smooth(Output, UniFirst)
  BY <1>1, <1>2, <1>4 DEF Smooth
<1>6. 1..Len(pending) = {} /\ 1..(Len(played) - 1) = {}
  BY <1>1
<1>7. UniFirst \in Nat /\ UniFirst <= StreamEnd + 1
  BY Streams
<1>8. SwitchAt(UniFirst)
  BY <1>1, <1>5, <1>6 DEF SwitchAt
<1> QED
  BY <1>6, <1>7, <1>8 DEF SmoothSwitch

LEMMA SwitchQuiet ==
    ASSUME SmoothSwitch, open, UNCHANGED Carried, UNCHANGED <<uni, live, losses, fellBack>>,
           state' = state \/ (state # "MCAST_ACTIVE" /\ state' # "MCAST_ACTIVE")
    PROVE  SmoothSwitch'
<1>1. /\ termSent' = termSent /\ pending' = pending /\ reorder' = reorder
      /\ open' = open /\ played' = played /\ apart' = apart
  BY DEF Carried
<1>2. ASSUME NEW u \in Nat, SwitchAt(u) PROVE SwitchAt(u)'
  <2>1. Output' = Output /\ Mark' = Mark
    BY <1>1 DEF Output, Mark
  <2> QED
    BY <1>1, <1>2, <2>1 DEF SwitchAt
<1> QED
  BY <1>1, <1>2, SwitchAlone

\* Once unicast was given up, or a packet lost, nothing is claimed.
LEMMA SwitchVoid ==
    ASSUME fellBack' = TRUE \/ losses' # 0
    PROVE  SmoothSwitch'
BY DEF SmoothSwitch

LEMMA SwitchClosed ==
    ASSUME SmoothSwitch, Cleanup
    PROVE  SmoothSwitch'
<1>1. UNCHANGED <<losses, fellBack, played>> /\ open' = FALSE
  BY DEF Cleanup, network
<1> QED
  BY <1>1 DEF SmoothSwitch

LEMMA SwitchPasses ==
    ASSUME FccAssumption, FccIInv, SmoothSwitch, MulticastPasses
    PROVE  SmoothSwitch'
<1>1. /\ open /\ ~joined
      /\ UNCHANGED <<state, termSent, pending, reorder, open, uni, losses, played, fellBack, apart>>
  BY DEF MulticastPasses, fcc, mcast, history
<1>2. ~termSent /\ pending = << >>
  BY <1>1 DEF FccIInv, Bookkeeping
<1>3. 1..Len(pending) = {}
  BY <1>2
<1>4. ASSUME NEW u \in Nat, SwitchAt(u) PROVE SwitchAt(u)'
  <2>1. Output' = Output
    BY <1>1 DEF Output
  <2> QED
    BY <1>1, <1>2, <1>3, <1>4, <2>1 DEF SwitchAt
<1> QED
  BY <1>1, <1>4, SwitchAlone

\* ReachedTermination says that the window begins at the stop position or later.
LEMMA ReachedIs ==
    ASSUME FccAssumption, NEW r, NEW v \in Nat, UniFirst <= v, v <= StreamEnd + 1,
           r.base = v % SeqMod, NEW t \in StreamPositions, termSeq = t % SeqMod,
           ReachedTermination(r)
    PROVE  termSent /\ r.phase = 2 /\ t <= v
<1> DEFINE h == SeqMod \div 2
           b == v % SeqMod
           q == t % SeqMod
<1>1. /\ t \in Nat /\ UniFirst <= t /\ t <= StreamEnd /\ UniFirst \in Nat /\ StreamEnd \in Nat
      /\ StreamEnd - UniFirst < h /\ h \in Nat
  BY Streams, Sizes
<1>2. b \in Int /\ q \in Int
  <2>1. v \in Int /\ t \in Int
    BY <1>1
  <2>2. v % SeqMod \in 0..(SeqMod - 1) /\ t % SeqMod \in 0..(SeqMod - 1)
    BY <2>1, NumberInt
  <2> QED
    BY <2>2
<1>3. termSent /\ r.phase = 2 /\ SeqDiff(b - 1, q - 1) >= 0
  BY DEF ReachedTermination
<1>4. SeqDiff(b - 1, q - 1) = SeqDiff(v, q)
  <2>1. (b + (-q)) % SeqMod = (v + (-q)) % SeqMod
    <3>1. v \in Int /\ -q \in Int /\ SeqMod \in Nat \ {0}
      BY <1>2, Sizes
    <3> HIDE DEF q
    <3> QED
      BY <3>1, ModShift
  <2> HIDE DEF b, q, h
  <2>2. (b - 1) - (q - 1) = b + (-q) /\ v - q = v + (-q)
    BY <1>2
  <2>3. (b - 1 - (q - 1)) % SeqMod = (v - q) % SeqMod
    BY <2>1, <2>2
  <2> QED
    BY <2>3 DEF SeqDiff
<1>5. ASSUME v < t PROVE FALSE
  <2> HIDE DEF h
  <2>1. -h <= v - t /\ v - t < h /\ v - t < 0
    BY <1>1, <1>5
  <2>2. SeqDiff(v, q) = v - t
    BY <1>1, <2>1, DiffIs DEF h
  <2> HIDE DEF b, q
  <2>3. v - t >= 0
    BY <1>3, <1>4, <2>2
  <2> QED
    BY <1>1, <2>1, <2>3
<1> QED
  BY <1>1, <1>3, <1>5

LEMMA SwitchUnicast ==
    ASSUME FccAssumption, FccIInv, SmoothSwitch, NEW i \in StreamPositions, UnicastArrives(i)
    PROVE  SmoothSwitch'
<1>1. /\ FccTypeOK /\ Bookkeeping /\ losses \in 0..MaxLosses /\ MaxLosses \in Nat
      /\ uni \in UniFirst..(StreamEnd + 1)
  BY Types, FccConstants DEF FccIInv
<1>2. /\ open /\ UnicastSent(i) /\ uni' = i + 1 /\ losses' = losses + (i - uni)
      /\ UNCHANGED <<termSent, termSeq, pending, open, live, fellBack>>
  BY DEF UnicastArrives, HandleUnicastMedia, mcast
<1>3. /\ i \in Nat /\ UniFirst <= i /\ i <= StreamEnd /\ uni \in Nat /\ uni <= i
      /\ UniFirst \in Nat /\ StreamEnd \in Nat
  BY <1>1, <1>2, Streams DEF UnicastSent
<1>4. losses' = 0 => losses = 0 /\ uni = i
  <2>1. losses \in Nat /\ i \in Nat /\ uni \in Nat /\ uni <= i /\ losses' = losses + (i - uni)
    BY <1>1, <1>2, <1>3
  <2> QED
    BY ONLY <2>1
<1>5. Mark' = Mark
  BY <1>2 DEF Mark
<1>6. CASE state = "MCAST_ACTIVE" /\ UNCHANGED <<state, reorder, played, apart>>
  <2>1. ASSUME NEW u \in Nat, SwitchAt(u) PROVE SwitchAt(u)'
    <3>1. Output' = Output
      BY <1>6 DEF Output
    <3> QED
      BY <1>2, <1>5, <1>6, <2>1, <3>1 DEF SwitchAt
  <2> QED
    BY <1>2, <1>4, <1>6, <2>1, SwitchAlone
<1>7. CASE /\ state # "MCAST_ACTIVE"
           /\ Deliver(Processed(<<i>>))
           /\ state' = IF ReachedTermination(reorder') THEN "MCAST_ACTIVE"
                       ELSE IF state = "UNICAST_PENDING" THEN "UNICAST_ACTIVE"
                       ELSE state
  <2> SUFFICES ASSUME losses' = 0, ~fellBack' PROVE SmoothSwitch'
    BY DEF SmoothSwitch
  <2>1. PICK u \in Nat : u <= StreamEnd + 1 /\ SwitchAt(u)
    BY <1>2, <1>4 DEF SmoothSwitch
  <2>2. u = i /\ Smooth(Output, i)
    BY <1>4, <1>7, <2>1 DEF SwitchAt
  <2> DEFINE y == Handled(Output, i)
             v == i + 1
  <2>3. reorder' = y.reorder /\ played' = y.played /\ apart' = y.apart
    BY <1>7, ProcessedOne DEF Deliver
  <2>4. Typed(Output) /\ Typed(y)
    BY <1>1, OutputTyped, HandledTyped
  <2>5. Smooth(y, v)
    BY <2>2, <2>4, SmoothNext
  <2>6. v \in Nat /\ v <= StreamEnd + 1 /\ UniFirst <= v /\ uni' = v
    BY <1>2, <1>3
  <2> HIDE DEF y, v
  <2>7. Output' = [reorder |-> y.reorder, played |-> y.played, apart |-> y.apart]
    BY <2>3 DEF Output
  <2>8. Smooth(Output', v)
    BY <2>5, <2>7 DEF Smooth
  <2>9. \A k \in 1..(Len(played') - 1) : played'[k + 1] = played'[k] + 1
    BY <2>3, <2>4, <2>5, <2>6, SmoothPlayed
  <2>10. state' = "MCAST_ACTIVE" => termSent' /\ reorder'.phase = 2 /\ Mark' <= v
    <3> SUFFICES ASSUME state' = "MCAST_ACTIVE" PROVE termSent /\ reorder'.phase = 2 /\ Mark <= v
      BY <1>2, <1>5
    <3>1. ReachedTermination(reorder')
      BY <1>7
    <3>2. termSent /\ reorder'.phase = 2
      BY <3>1 DEF ReachedTermination
    <3>3. reorder'.base = v % SeqMod
      BY <2>3, <2>5, <3>2 DEF Smooth, Full, Aligned
    <3>4. pending # << >> /\ termSeq = pending[1] % SeqMod /\ pending \in Seq(StreamPositions)
      BY <1>1, <1>2, <1>7, <3>2, Types DEF Bookkeeping
    <3>5. pending[1] \in StreamPositions /\ Mark = pending[1]
      BY <3>4, SeqFacts DEF Mark
    <3>6. pending[1] <= v
      BY <2>6, <3>1, <3>3, <3>4, <3>5, ReachedIs
    <3> QED
      BY <3>2, <3>5, <3>6
  <2>11. \A k \in 1..Len(pending) : pending[k] = live - Len(pending) + k - 1
    BY <2>1 DEF SwitchAt
  <2>12. SwitchAt(v)'
    BY <1>2, <2>6, <2>8, <2>10, <2>11 DEF SwitchAt
  <2> QED
    BY <2>6, <2>9, <2>12 DEF SmoothSwitch
<1> QED
  BY <1>6, <1>7 DEF UnicastArrives, HandleUnicastMedia

LEMMA SwitchMulticast ==
    ASSUME FccAssumption, FccIInv, SmoothSwitch, NEW i \in StreamPositions, MulticastArrives(i)
    PROVE  SmoothSwitch'
<1>1. FccTypeOK /\ Bookkeeping /\ losses \in 0..MaxLosses
  BY Types DEF FccIInv
<1>2. /\ open /\ live' = i + 1 /\ losses' = losses + (i - live)
      /\ UNCHANGED <<state, open, uni, fellBack>>
      /\ MulticastSent(i) \/ MulticastKept(i) \/ MulticastFails(i)
  BY MulticastIs
<1>3. /\ live \in Nat /\ live <= i /\ i \in Nat /\ i <= StreamEnd /\ StreamEnd \in Nat
  BY <1>1, MulticastNumbers, Streams
<1>4. losses' = 0 => losses = 0 /\ live = i
  <2>1. losses \in Nat /\ i \in Nat /\ live \in Nat /\ live <= i /\ losses' = losses + (i - live)
    BY <1>1, <1>2, <1>3
  <2> QED
    BY ONLY <2>1
<1> SUFFICES ASSUME losses' = 0, ~fellBack' PROVE SmoothSwitch'
  BY DEF SmoothSwitch
<1>5. PICK u \in Nat : u <= StreamEnd + 1 /\ SwitchAt(u)
  BY <1>2, <1>4 DEF SmoothSwitch
<1> DEFINE s == Append(pending, i)
           n == Len(pending)
<1>6. pending \in Seq(StreamPositions) /\ n \in Nat
  BY <1>1, Types
<1>7. /\ s \in Seq(StreamPositions) /\ Len(s) = n + 1 /\ s # << >>
      /\ \A k \in 1..n : s[k] = pending[k]
      /\ s[n + 1] = i
  BY <1>6, Appended
<1>8. (\A k \in 1..n : pending[k] = live - n + k - 1) /\ Smooth(Output, u)
  BY <1>5 DEF SwitchAt
<1> HIDE DEF s, n
\* The packets kept and the new one follow one another.
<1>9. ASSUME NEW k \in 1..Len(s) PROVE s[k] = live - n + k - 1 /\ live - n + k - 1 = live' - Len(s) + k - 1
  <2>1. CASE k \in 1..n
    <3>1. s[k] = live - n + k - 1
      BY <1>7, <1>8, <2>1
    <3>2. /\ k \in Nat /\ n \in Nat /\ live \in Nat /\ i \in Nat
          /\ Len(s) = n + 1 /\ live' = i + 1 /\ live = i
      BY <1>2, <1>3, <1>4, <1>6, <1>7, <2>1
    <3>3. live - n + k - 1 = live' - Len(s) + k - 1
      BY ONLY <3>2
    <3> QED
      BY <3>1, <3>3
  <2>2. CASE k = n + 1
    <3>1. s[k] = i
      BY <1>7, <2>2
    <3>2. /\ k \in Nat /\ n \in Nat /\ live \in Nat /\ i \in Nat
          /\ Len(s) = n + 1 /\ live' = i + 1 /\ live = i
      BY <1>2, <1>3, <1>4, <1>6, <1>7, <2>2
    <3> QED
      BY ONLY <2>2, <3>1, <3>2
  <2>3. k \in 1..n \/ k = n + 1
    BY <1>6, <1>7
  <2> QED
    BY <2>1, <2>2, <2>3
<1>10. ASSUME NEW k \in 1..(Len(s) - 1) PROVE s[k + 1] = s[k] + 1
  <2>1. k \in 1..Len(s) /\ k + 1 \in 1..Len(s) /\ k \in Nat
    BY <1>6, <1>7
  <2>2. s[k] = live - n + k - 1 /\ s[k + 1] = live - n + (k + 1) - 1
    BY <1>9, <2>1
  <2>3. k \in Nat /\ live \in Nat /\ n \in Nat
    BY <1>3, <1>6, <2>1
  <2> QED
    BY ONLY <2>2, <2>3
<1>11. CASE MulticastSent(i)
  <2> DEFINE y == Processed(s)
  <2>1. /\ state = "MCAST_ACTIVE" /\ reorder' = y.reorder /\ played' = y.played /\ apart' = y.apart
        /\ pending' = << >> /\ termSent' = termSent
    BY <1>11 DEF MulticastSent, Deliver, ActiveOrder, s
  <2>2. termSent /\ reorder.phase = 2 /\ Mark <= u
    BY <1>5, <2>1 DEF SwitchAt
  <2>3. s[1] <= u
    <3>1. CASE pending = << >>
      <4>1. n = 0
        BY <3>1 DEF n
      <4>2. s[1] = live /\ Mark = live
        BY <1>4, <1>7, <3>1, <4>1 DEF Mark
      <4> QED
        BY <2>2, <4>2
    <3>2. CASE pending # << >>
      <4>1. 1 \in 1..n
        BY <1>6, <3>2, SeqFacts DEF n
      <4>2. s[1] = Mark
        BY <1>7, <3>2, <4>1 DEF Mark
      <4> QED
        BY <2>2, <4>2
    <3> QED
      BY <3>1, <3>2
  <2>4. Typed(Output)
    BY <1>1, OutputTyped
  <2>5. PICK v \in Nat : /\ Smooth(y, v) /\ y.reorder.phase = 2 /\ v <= StreamEnd + 1
                         /\ s[Len(s)] < v
    BY <1>5, <1>7, <1>8, <1>10, <2>2, <2>3, <2>4, SmoothProcessed
  <2>6. Typed(y)
    <3>1. ~apart => \E b, m : Flowing(Output, b, m)
      BY <1>2 DEF FccIInv, FlowInOrder
    <3> QED
      BY <1>7, <2>4, <3>1, ProcessedFlows
  <2> HIDE DEF y
  <2>7. live' <= v
    <3>1. s[Len(s)] = i
      BY <1>7
    <3> QED
      BY <1>2, <1>3, <2>5, <3>1
  <2>8. Output' = [reorder |-> y.reorder, played |-> y.played, apart |-> y.apart]
    BY <2>1 DEF Output
  <2>9. Smooth(Output', v)
    BY <2>5, <2>8 DEF Smooth
  <2>10. \A k \in 1..(Len(played') - 1) : played'[k + 1] = played'[k] + 1
    BY <2>1, <2>5, <2>6, SmoothPlayed
  <2>11. 1..Len(pending') = {} /\ Mark' = live'
    BY <2>1 DEF Mark
  <2>12. SwitchAt(v)'
    BY <1>2, <2>1, <2>2, <2>5, <2>7, <2>9, <2>11 DEF SwitchAt
  <2> QED
    BY <2>5, <2>10, <2>12 DEF SmoothSwitch
<1>12. CASE MulticastKept(i)
  <2>1. /\ state = "MCAST_REQUESTED" /\ pending' = s
        /\ UNCHANGED <<reorder, played, apart>>
    BY <1>12 DEF MulticastKept, s
  <2>2. Output' = Output
    BY <2>1 DEF Output
  <2>3. \A k \in 1..Len(pending') : pending'[k] = live' - Len(pending') + k - 1
    BY <1>9, <2>1
  <2>4. SwitchAt(u)'
    BY <1>2, <1>5, <2>1, <2>2, <2>3 DEF SwitchAt
  <2>5. \A k \in 1..(Len(played) - 1) : played[k + 1] = played[k] + 1
    BY <1>2, <1>4 DEF SmoothSwitch
  <2> QED
    BY <1>5, <2>1, <2>4, <2>5 DEF SmoothSwitch
<1>13. CASE MulticastFails(i)
  <2>1. /\ state = "MCAST_REQUESTED" /\ ~termSent
        /\ UNCHANGED <<reorder, played, apart, pending>>
    BY <1>13 DEF MulticastFails
  <2>2. 1..Len(pending) = {}
    <3>1. pending = << >>
      BY <1>1, <2>1 DEF Bookkeeping
    <3> QED
      BY <3>1
  <2>3. Output' = Output
    BY <2>1 DEF Output
  <2>4. SwitchAt(u)'
    BY <1>2, <1>5, <2>1, <2>2, <2>3 DEF SwitchAt
  <2>5. \A k \in 1..(Len(played) - 1) : played[k + 1] = played[k] + 1
    BY <1>2, <1>4 DEF SmoothSwitch
  <2> QED
    BY <1>5, <2>1, <2>4, <2>5 DEF SmoothSwitch
<1> QED
  BY <1>2, <1>11, <1>12, <1>13

LEMMA SwitchStep ==
    ASSUME FccAssumption, FccIInv, SmoothSwitch, FccNext
    PROVE  SmoothSwitch'
<1>1. CASE ServerRefuses
  BY <1>1, SwitchVoid DEF ServerRefuses, Fallback
<1>2. CASE ServerAccepts
  BY <1>2, SwitchQuiet DEF ServerAccepts, Carried, network, history
<1>3. CASE ServerNoise
  BY <1>3, SwitchQuiet DEF ServerNoise, Carried, fcc, history
<1>4. CASE ServerSyncs
  BY <1>4, SwitchQuiet DEF ServerSyncs, Synchronise, Carried, network, history
<1>5. ASSUME NEW s \in Servers, ServerRedirects(s) PROVE SmoothSwitch'
  <2>1. open /\ state = "REQUESTED"
    BY <1>5 DEF ServerRedirects
  <2>2. CASE UNCHANGED <<state, termSent, termSeq, pending, age, mcast, reorder, open, network, history>>
    BY <2>1, <2>2, SwitchQuiet DEF Carried, network, history
  <2>3. CASE Cleanup
    BY <2>3, SwitchClosed
  <2>4. CASE Fallback
    BY <2>4, SwitchVoid DEF Fallback
  <2> QED
    BY <1>5, <2>2, <2>3, <2>4 DEF ServerRedirects
<1>6. ASSUME NEW i \in StreamPositions, UnicastArrives(i) \/ UnicastLate(i) PROVE SmoothSwitch'
  <2>1. CASE UnicastArrives(i)
    BY <2>1, SwitchUnicast
  <2>2. CASE UnicastLate(i)
    <3>1. losses' # 0
      BY <2>2 DEF UnicastLate
    <3> QED
      BY <3>1, SwitchVoid
  <2> QED
    BY <1>6, <2>1, <2>2
<1>7. ASSUME NEW i \in StreamPositions, MulticastArrives(i) PROVE SmoothSwitch'
  BY <1>7, SwitchMulticast
<1>8. CASE UnicastNoBuffer
  <2>1. losses \in 0..MaxLosses /\ losses' = losses + 1
    BY <1>8, Types DEF FccIInv, UnicastNoBuffer
  <2>2. losses' # 0
    BY <2>1
  <2> QED
    BY <2>2, SwitchVoid
<1>9. CASE MulticastPasses
  BY <1>9, SwitchPasses
<1>10. CASE Elapse
  BY <1>10, SwitchQuiet DEF Elapse, Carried, network, history
<1>11. CASE TickCloses
  BY <1>11, SwitchClosed DEF TickCloses
<1>12. CASE TickFallsBack
  BY <1>12, SwitchVoid DEF TickFallsBack, Fallback
<1>13. CASE TickSyncs
  BY <1>13, SwitchQuiet DEF TickSyncs, Synchronise, Carried, network, history
<1>14. CASE Disconnect
  BY <1>14, SwitchClosed DEF Disconnect
<1> QED
  BY <1>1, <1>2, <1>3, <1>4, <1>5, <1>6, <1>7, <1>8, <1>9, <1>10, <1>11, <1>12, <1>13, <1>14
     DEF FccNext, Server, Media, Tick

LEMMA SwitchUnchanged ==
    ASSUME SmoothSwitch, UNCHANGED fccVars
    PROVE  SmoothSwitch'
<1>1. UNCHANGED <<state, termSent, pending, reorder, open, uni, live, losses, played, fellBack, apart>>
  BY DEF fccVars, fcc, mcast, network, history
<1>2. Output' = Output /\ Mark' = Mark
  BY <1>1 DEF Output, Mark
<1> QED
  BY <1>1, <1>2 DEF SmoothSwitch, SwitchAt

\* fcc-setup.md: "rtp2httpd seamlessly switches to the multicast stream".  When
\* the network loses nothing and unicast reaches the point it was told to stop
\* at, the unicast packets and then those of the group are one stream in which
\* the client misses none.
THEOREM SeamlessSwitch == FccSpec => []Seamless
<1>1. FccAssumption
  BY FccAssumption
<1>2. FccInit => SmoothSwitch
  BY <1>1, SwitchInit
<1>3. FccIInv /\ SmoothSwitch /\ [FccNext]_fccVars => SmoothSwitch'
  BY <1>1, SwitchStep, SwitchUnchanged
<1>4. SmoothSwitch => Seamless
  BY DEF SmoothSwitch, Seamless
<1> QED
  BY <1>1, <1>2, <1>3, <1>4, FccInductive, PTL DEF FccSpec
=============================================================================
