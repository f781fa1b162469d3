-------------------------- MODULE BufferPoolProofs --------------------------
(***************************************************************************)
(* PoolInv is an inductive invariant of BufferPool for every number of     *)
(* segments, views and holders and every pool configuration that satisfies *)
(* the assumptions; the safety properties and NoThrash follow from it.     *)
(***************************************************************************)
EXTENDS BufferPool, FiniteSetTheorems, TLAPS

\* A segment of n buffers has n buffers.
LEMMA SegmentCardinality ==
    ASSUME NEW s, NEW n \in Nat
    PROVE  IsFiniteSet(BufsOf(s, n)) /\ Cardinality(BufsOf(s, n)) = n
<1>1. IsFiniteSet({s}) /\ Cardinality({s}) = 1
  BY FS_Singleton
<1>2. IsFiniteSet(1 .. n) /\ Cardinality(1 .. n) = n
  BY FS_Interval
<1>3. /\ IsFiniteSet({s} \X (1 .. n))
      /\ Cardinality({s} \X (1 .. n)) = Cardinality({s}) * Cardinality(1 .. n)
  BY <1>1, <1>2, FS_Product, Zenon
<1>4. Cardinality({s} \X (1 .. n)) = 1 * n
  BY <1>1, <1>2, <1>3, Zenon
<1>5. 1 * n = n
  OBVIOUS
<1> QED
  BY <1>3, <1>4, <1>5 DEF BufsOf

\* The largest size a segment can have.
LEMMA SegmentMax ==
    /\ Larger(InitialBuffers, ExpandSize) \in Nat
    /\ Larger(InitialBuffers, ExpandSize) >= InitialBuffers
    /\ Larger(InitialBuffers, ExpandSize) >= ExpandSize
    /\ \A n \in 1 .. InitialBuffers : n \in Idx
    /\ \A n \in 1 .. ExpandSize : n \in Idx
    /\ Larger(InitialBuffers, MaxBuffers) \in Nat
    /\ Larger(InitialBuffers, MaxBuffers) >= InitialBuffers
    /\ Larger(InitialBuffers, MaxBuffers) >= MaxBuffers
BY PoolSizes DEF Idx, Larger

LEMMA InitInv == Init => PoolInv
<1> SUFFICES ASSUME Init PROVE PoolInv
  OBVIOUS
<1> PICK s \in Segs :
      /\ segments = {s}
      /\ size = [t \in Segs |-> IF t = s THEN InitialBuffers ELSE 0]
      /\ freeList = BufsOf(s, InitialBuffers)
  BY DEF Init
<1> USE PoolSizes, SegmentMax
<1>1. /\ segFree = size /\ numBuffers = InitialBuffers /\ numFree = InitialBuffers
      /\ refcount = [b \in Buf |-> 0] /\ sharedFd = {} /\ todo = {}
      /\ owner = [v \in Views |-> NoBuf] /\ viewRefs = [v \in Views |-> 0]
      /\ holders = [b \in Buf |-> {}] /\ viewHolders = [v \in Views |-> {}]
  BY DEF Init
<1>2. Allocated = freeList
  <2>1. ASSUME NEW b \in Buf, b[1] = s, b[2] <= InitialBuffers
        PROVE  b \in freeList
    BY <2>1 DEF Buf, Idx, BufsOf
  <2>2. ASSUME NEW b \in freeList
        PROVE  b \in Buf /\ b[1] = s /\ b[2] <= InitialBuffers
    BY <2>2 DEF Buf, BufsOf
  <2> QED
    BY <2>1, <2>2 DEF Allocated
<1>3. IsFiniteSet(freeList) /\ Cardinality(freeList) = InitialBuffers
  BY SegmentCardinality
<1>4. TypeOK
  BY <1>1 DEF TypeOK, BufsOf, Buf, Idx
<1>5. FreeCountsExact
  <2>1. ASSUME NEW t \in Segs PROVE segFree[t] = Cardinality(FreeOf(t))
    <3>1. CASE t = s
      <4>1. FreeOf(t) = freeList
        BY <3>1 DEF FreeOf, BufsOf
      <4> QED
        BY <1>1, <1>3, <3>1, <4>1
    <3>2. CASE t # s
      <4>1. FreeOf(t) = {}
        BY <3>2 DEF FreeOf, BufsOf
      <4> QED
        BY <1>1, <3>2, <4>1, FS_EmptySet
    <3> QED
      BY <3>1, <3>2
  <2> QED
    BY <1>1, <1>3, <2>1 DEF FreeCountsExact
<1>6. SegmentSizes /\ ShrinkLoop /\ SizeInBounds
  <2>1. SegmentSizes
    BY <1>1, <1>2, <1>3 DEF SegmentSizes
  <2>2. ShrinkLoop /\ SizeInBounds
    BY <1>1, <1>2, <1>3 DEF ShrinkLoop, SizeInBounds
  <2> QED
    BY <2>1, <2>2
<1>7. RefcountExact
  <2>1. ASSUME NEW b \in Buf PROVE ViewsOf(b) = {}
    BY <1>1, Distinct DEF ViewsOf
  <2>2. Cardinality({}) = 0
    BY FS_EmptySet
  <2>3. ASSUME NEW b \in Buf
        PROVE  refcount[b] = Cardinality(holders[b]) + Cardinality(ViewsOf(b))
    <3>1. refcount[b] = 0 /\ holders[b] = {}
      BY <1>1
    <3> QED
      BY <2>1, <2>2, <3>1
  <2> QED
    BY <1>1, <2>2, <2>3 DEF RefcountExact
<1>8. FreeIffUnreferenced /\ NoFdLeak
  BY <1>1, <1>2, <1>4 DEF FreeIffUnreferenced, NoFdLeak, TypeOK
<1>9. NoUseAfterFree
  BY <1>1, Distinct DEF NoUseAfterFree, ViewsOf
<1> QED
  BY <1>4, <1>5, <1>6, <1>7, <1>8, <1>9 DEF PoolInv

-----------------------------------------------------------------------------
(* Facts about a state that satisfies the invariant.                        *)

\* The free list is finite, and so is the part of it in any one segment.
LEMMA FreeFinite ==
    ASSUME PoolInv
    PROVE  /\ freeList \subseteq Allocated
           /\ IsFiniteSet(freeList) /\ Cardinality(freeList) \in Nat
           /\ \A s : IsFiniteSet(FreeOf(s)) /\ Cardinality(FreeOf(s)) \in Nat
<1>1. freeList \subseteq Allocated /\ IsFiniteSet(Allocated)
  BY DEF PoolInv, FreeIffUnreferenced, SegmentSizes
<1>2. IsFiniteSet(freeList)
  BY <1>1, FS_Subset
<1>3. ASSUME NEW s PROVE IsFiniteSet(FreeOf(s))
  BY <1>2, FS_Subset DEF FreeOf
<1> QED
  BY <1>1, <1>2, <1>3, FS_CardinalityType

\* Reference counts are counts of finite sets: zero exactly when nobody refers
\* to the buffer.
LEMMA ReferenceCounts ==
    ASSUME PoolInv, NEW b \in Buf
    PROVE  /\ IsFiniteSet(holders[b]) /\ Cardinality(holders[b]) \in Nat
           /\ IsFiniteSet(ViewsOf(b)) /\ Cardinality(ViewsOf(b)) \in Nat
           /\ refcount[b] = 0 <=> holders[b] = {} /\ ViewsOf(b) = {}
<1>1. IsFiniteSet(holders[b])
  <2>1. holders[b] \subseteq Holders
    BY DEF PoolInv, TypeOK
  <2> QED
    BY <2>1, Distinct, FS_Subset
<1>2. IsFiniteSet(ViewsOf(b))
  BY Distinct, FS_Subset DEF ViewsOf
<1>3. /\ Cardinality(holders[b]) \in Nat /\ Cardinality(ViewsOf(b)) \in Nat
      /\ Cardinality(holders[b]) = 0 <=> holders[b] = {}
      /\ Cardinality(ViewsOf(b)) = 0 <=> ViewsOf(b) = {}
  BY <1>1, <1>2, FS_CardinalityType, FS_EmptySet
<1>4. refcount[b] = Cardinality(holders[b]) + Cardinality(ViewsOf(b))
  BY DEF PoolInv, RefcountExact
<1> QED
  BY <1>1, <1>2, <1>3, <1>4

\* What popping one buffer off the free list does to the counts.
LEMMA CountsAfterPop ==
    ASSUME PoolInv, NEW b \in freeList,
           freeList' = freeList \ {b},
           numFree' = numFree - 1,
           segFree' = [segFree EXCEPT ![b[1]] = @ - 1]
    PROVE  FreeCountsExact' /\ numFree' \in Nat /\ segFree' \in [Segs -> Nat]
<1>1. b \in Buf /\ b[1] \in Segs
  BY DEF PoolInv, TypeOK, Buf
<1>2. /\ IsFiniteSet(freeList')
      /\ Cardinality(freeList') = Cardinality(freeList) - 1
  BY FreeFinite, FS_RemoveElement
<1>3. numFree' = Cardinality(freeList') /\ numFree' \in Nat
  BY <1>2, FS_CardinalityType DEF PoolInv, FreeCountsExact
<1>4. ASSUME NEW s \in Segs
      PROVE  segFree'[s] = Cardinality(FreeOf(s)') /\ segFree'[s] \in Nat
  <2>1. segFree[s] = Cardinality(FreeOf(s)) /\ segFree \in [Segs -> Nat]
    BY DEF PoolInv, FreeCountsExact, TypeOK
  <2>2. CASE s = b[1]
    <3>1. FreeOf(s)' = FreeOf(s) \ {b} /\ b \in FreeOf(s)
      BY <2>2 DEF FreeOf
    <3>2. /\ IsFiniteSet(FreeOf(s)')
          /\ Cardinality(FreeOf(s)') = Cardinality(FreeOf(s)) - 1
      BY <3>1, FreeFinite, FS_RemoveElement
    <3>3. Cardinality(FreeOf(s)') \in Nat
      BY <3>2, FS_CardinalityType
    <3> QED
      BY <1>1, <2>1, <2>2, <3>2, <3>3
  <2>3. CASE s # b[1]
    <3>1. FreeOf(s)' = FreeOf(s)
      BY <2>3 DEF FreeOf
    <3> QED
      BY <2>1, <2>3, <3>1
  <2> QED
    BY <2>2, <2>3
<1>5. segFree' \in [Segs -> Nat]
  BY <1>4 DEF PoolInv, TypeOK
<1> QED
  BY <1>3, <1>4, <1>5 DEF FreeCountsExact

\* What pushing one buffer on the free list does to the counts.
LEMMA CountsAfterPush ==
    ASSUME PoolInv, NEW b \in Buf, b \notin freeList,
           freeList' = freeList \cup {b},
           numFree' = numFree + 1,
           segFree' = [segFree EXCEPT ![b[1]] = @ + 1]
    PROVE  FreeCountsExact' /\ numFree' \in Nat /\ segFree' \in [Segs -> Nat]
<1>1. b[1] \in Segs
  BY DEF Buf
<1>2. Cardinality(freeList') = Cardinality(freeList) + 1
  BY FreeFinite, FS_AddElement
<1>3. numFree' = Cardinality(freeList') /\ numFree' \in Nat
  BY <1>2, FreeFinite DEF PoolInv, FreeCountsExact
<1>4. ASSUME NEW s \in Segs
      PROVE  segFree'[s] = Cardinality(FreeOf(s)') /\ segFree'[s] \in Nat
  <2>1. segFree[s] = Cardinality(FreeOf(s)) /\ segFree \in [Segs -> Nat]
    BY DEF PoolInv, FreeCountsExact, TypeOK
  <2>2. CASE s = b[1]
    <3>1. FreeOf(s)' = FreeOf(s) \cup {b} /\ b \notin FreeOf(s)
      BY <2>2 DEF FreeOf
    <3>2. Cardinality(FreeOf(s)') = Cardinality(FreeOf(s)) + 1
      BY <3>1, FreeFinite, FS_AddElement
    <3> QED
      BY <1>1, <2>1, <2>2, <3>2
  <2>3. CASE s # b[1]
    <3>1. FreeOf(s)' = FreeOf(s)
      BY <2>3 DEF FreeOf
    <3> QED
      BY <2>1, <2>3, <3>1
  <2> QED
    BY <2>2, <2>3
<1>5. segFree' \in [Segs -> Nat]
  BY <1>4 DEF PoolInv, TypeOK
<1> QED
  BY <1>3, <1>4, <1>5 DEF FreeCountsExact

-----------------------------------------------------------------------------
(* Each call preserves the invariant.                                       *)

LEMMA AllocInv ==
    ASSUME PoolInv, NEW h \in Holders, NEW b \in Buf, Alloc(h, b)
    PROVE  PoolInv'
<1> USE DEF Alloc, viewVars
<1>1. /\ b \in Allocated /\ refcount[b] = 0
      /\ holders[b] = {} /\ ViewsOf(b) = {}
  BY ReferenceCounts DEF PoolInv, FreeIffUnreferenced
<1>2. Allocated' = Allocated
  BY DEF Allocated
<1>3. FreeCountsExact' /\ numFree' \in Nat /\ segFree' \in [Segs -> Nat]
  BY CountsAfterPop
<1>4. TypeOK'
  BY <1>3 DEF PoolInv, TypeOK
<1>5. RefcountExact'
  <2>1. ASSUME NEW c \in Buf
        PROVE  refcount'[c] = Cardinality(holders'[c]) + Cardinality(ViewsOf(c)')
    <3>1. ViewsOf(c)' = ViewsOf(c)
      BY DEF ViewsOf
    <3>2. CASE c = b
      <4>1. refcount'[c] = 1 /\ holders'[c] = {h}
        BY <3>2 DEF PoolInv, TypeOK
      <4>2. Cardinality({h}) = 1 /\ Cardinality({}) = 0
        BY FS_Singleton, FS_EmptySet
      <4> QED
        BY <1>1, <3>1, <3>2, <4>1, <4>2
    <3>3. CASE c # b
      BY <3>1, <3>3 DEF PoolInv, TypeOK, RefcountExact
    <3> QED
      BY <3>2, <3>3
  <2>2. \A v \in Views : /\ viewRefs'[v] = Cardinality(viewHolders'[v])
                         /\ owner'[v] = NoBuf <=> viewHolders'[v] = {}
    BY DEF PoolInv, RefcountExact
  <2> QED
    BY <2>1, <2>2 DEF RefcountExact
<1>6. FreeIffUnreferenced'
  BY <1>1, <1>2 DEF PoolInv, TypeOK, FreeIffUnreferenced, Allocated
<1>7. NoUseAfterFree'
  BY <1>1, <1>2 DEF PoolInv, TypeOK, NoUseAfterFree, ViewsOf
<1>8. NoFdLeak'
  BY <1>1, <1>2 DEF PoolInv, TypeOK, NoFdLeak
<1>9. SizeInBounds' /\ SegmentSizes' /\ ShrinkLoop'
  BY <1>2 DEF PoolInv, SizeInBounds, SegmentSizes, ShrinkLoop, Idle
<1> QED
  BY <1>3, <1>4, <1>5, <1>6, <1>7, <1>8, <1>9 DEF PoolInv

LEMMA GetInv ==
    ASSUME PoolInv, NEW g \in Holders, NEW h \in Holders, NEW b \in Buf,
           Get(g, h, b)
    PROVE  PoolInv'
<1> USE DEF Get, viewVars, counters
<1>1. b \in Allocated /\ b \notin freeList /\ refcount[b] \in Nat /\ refcount[b] > 0
  BY ReferenceCounts DEF PoolInv, TypeOK, NoUseAfterFree, FreeIffUnreferenced
<1>2. Allocated' = Allocated
  BY DEF Allocated
<1>3. TypeOK'
  BY <1>1 DEF PoolInv, TypeOK
<1>4. RefcountExact'
  <2>1. ASSUME NEW c \in Buf
        PROVE  refcount'[c] = Cardinality(holders'[c]) + Cardinality(ViewsOf(c)')
    <3>1. ViewsOf(c)' = ViewsOf(c)
      BY DEF ViewsOf
    <3>2. CASE c = b
      <4>1. Cardinality(holders[b] \cup {h}) = Cardinality(holders[b]) + 1
        BY ReferenceCounts, FS_AddElement
      <4>2. holders'[c] = holders[b] \cup {h} /\ refcount'[c] = refcount[b] + 1
        BY <3>2 DEF PoolInv, TypeOK
      <4>3. refcount[b] = Cardinality(holders[b]) + Cardinality(ViewsOf(b))
        BY DEF PoolInv, RefcountExact
      <4>4. Cardinality(holders[b]) \in Nat /\ Cardinality(ViewsOf(b)) \in Nat
        BY ReferenceCounts
      <4>5. refcount[b] + 1 = Cardinality(holders[b] \cup {h}) + Cardinality(ViewsOf(b))
        BY <4>1, <4>3, <4>4
      <4> QED
        BY <3>1, <3>2, <4>2, <4>5
    <3>3. CASE c # b
      BY <3>1, <3>3 DEF PoolInv, TypeOK, RefcountExact
    <3> QED
      BY <3>2, <3>3
  <2>2. \A v \in Views : /\ viewRefs'[v] = Cardinality(viewHolders'[v])
                         /\ owner'[v] = NoBuf <=> viewHolders'[v] = {}
    BY DEF PoolInv, RefcountExact
  <2> QED
    BY <2>1, <2>2 DEF RefcountExact
<1>5. FreeIffUnreferenced'
  BY <1>1, <1>2 DEF PoolInv, TypeOK, FreeIffUnreferenced, Allocated
<1>6. NoUseAfterFree'
  BY <1>1, <1>2 DEF PoolInv, TypeOK, NoUseAfterFree, ViewsOf
<1>7. NoFdLeak'
  BY <1>1, <1>2 DEF PoolInv, TypeOK, NoFdLeak
<1>8. SizeInBounds' /\ SegmentSizes' /\ ShrinkLoop'
  BY <1>2 DEF PoolInv, SizeInBounds, SegmentSizes, ShrinkLoop
<1>9. FreeCountsExact'
  BY DEF PoolInv, FreeCountsExact, FreeOf
<1> QED
  BY <1>3, <1>4, <1>5, <1>6, <1>7, <1>8, <1>9 DEF PoolInv

LEMMA SnapshotInv ==
    ASSUME PoolInv, NEW h \in Holders, NEW b \in Buf, Snapshot(h, b)
    PROVE  PoolInv'
<1> USE DEF Snapshot, viewVars, counters
<1>1. b \in Allocated /\ refcount[b] \in Nat /\ refcount[b] > 0
  BY ReferenceCounts DEF PoolInv, TypeOK, NoUseAfterFree
<1>2. Allocated' = Allocated
  BY DEF Allocated
<1>3. NoFdLeak'
  BY <1>1, <1>2 DEF PoolInv, NoFdLeak
<1>4. TypeOK'
  BY DEF PoolInv, TypeOK
<1>5. RefcountExact' /\ NoUseAfterFree'
  BY <1>2 DEF PoolInv, RefcountExact, NoUseAfterFree, ViewsOf
<1>6. FreeIffUnreferenced' /\ FreeCountsExact'
  BY <1>2 DEF PoolInv, FreeIffUnreferenced, FreeCountsExact, FreeOf
<1>7. SizeInBounds' /\ SegmentSizes' /\ ShrinkLoop'
  BY <1>2 DEF PoolInv, SizeInBounds, SegmentSizes, ShrinkLoop
<1> QED
  BY <1>3, <1>4, <1>5, <1>6, <1>7 DEF PoolInv

\* A put that gives up one of the references counted for b, whichever it is:
\* the count drops by one, and at zero the buffer goes back to the free list.
LEMMA PutPoolBufferInv ==
    ASSUME PoolInv, NEW b \in Buf, PutPoolBuffer(b),
           refcount[b] > 0
    PROVE  /\ Allocated' = Allocated /\ b \in Allocated
           /\ FreeIffUnreferenced' /\ FreeCountsExact' /\ NoFdLeak'
           /\ refcount' = [refcount EXCEPT ![b] = @ - 1]
           /\ refcount' \in [Buf -> Nat]
           /\ numFree' \in Nat /\ segFree' \in [Segs -> Nat]
           /\ freeList' \in SUBSET Buf /\ sharedFd' \in SUBSET Buf
<1> USE DEF PutPoolBuffer
<1>1. Allocated' = Allocated
  BY DEF Allocated
<1>2. /\ refcount[b] \in Nat
      /\ refcount' = [refcount EXCEPT ![b] = @ - 1]
      /\ refcount' \in [Buf -> Nat]
  BY DEF PoolInv, TypeOK
<1>3. b \in Allocated /\ b \notin freeList
  <2>1. holders[b] # {} \/ ViewsOf(b) # {}
    BY ReferenceCounts
  <2> QED
    BY <2>1 DEF PoolInv, NoUseAfterFree, FreeIffUnreferenced
<1>4. CASE refcount[b] - 1 <= 0
  <2>1. refcount'[b] = 0 /\ freeList' = freeList \cup {b} /\ sharedFd' = sharedFd \ {b}
    BY <1>2, <1>4
  <2>2. FreeCountsExact' /\ numFree' \in Nat /\ segFree' \in [Segs -> Nat]
    BY <1>2, <1>3, <1>4, CountsAfterPush
  <2>3. FreeIffUnreferenced'
    BY <1>1, <1>2, <1>3, <2>1 DEF PoolInv, TypeOK, FreeIffUnreferenced, Allocated
  <2>4. NoFdLeak'
    BY <1>1, <1>2, <2>1 DEF PoolInv, TypeOK, NoFdLeak
  <2>5. freeList' \in SUBSET Buf /\ sharedFd' \in SUBSET Buf
    BY <2>1 DEF PoolInv, TypeOK
  <2> QED
    BY <1>1, <1>2, <1>3, <2>2, <2>3, <2>4, <2>5
<1>5. CASE refcount[b] - 1 > 0
  <2>1. UNCHANGED <<sharedFd, segFree, freeList, numFree>> /\ refcount'[b] > 0
    BY <1>2, <1>5
  <2>2. FreeIffUnreferenced'
    BY <1>1, <1>2, <1>3, <2>1 DEF PoolInv, TypeOK, FreeIffUnreferenced, Allocated
  <2>3. NoFdLeak'
    BY <1>1, <1>2, <2>1 DEF PoolInv, TypeOK, NoFdLeak
  <2>4. FreeCountsExact'
    BY <2>1 DEF PoolInv, FreeCountsExact, FreeOf
  <2> QED
    BY <1>1, <1>2, <1>3, <2>1, <2>2, <2>3, <2>4 DEF PoolInv, TypeOK
<1> QED
  BY <1>2, <1>4, <1>5

LEMMA PutInv ==
    ASSUME PoolInv, NEW h \in Holders, NEW b \in Buf, Put(h, b)
    PROVE  PoolInv'
<1> USE DEF Put, viewVars
<1>1. refcount[b] \in Nat /\ refcount[b] > 0
  BY ReferenceCounts DEF PoolInv, TypeOK
<1>2. /\ Allocated' = Allocated /\ b \in Allocated
      /\ FreeIffUnreferenced' /\ FreeCountsExact' /\ NoFdLeak'
      /\ refcount' = [refcount EXCEPT ![b] = @ - 1]
      /\ refcount' \in [Buf -> Nat]
      /\ numFree' \in Nat /\ segFree' \in [Segs -> Nat]
      /\ freeList' \in SUBSET Buf /\ sharedFd' \in SUBSET Buf
  BY <1>1, PutPoolBufferInv
<1>3. UNCHANGED <<segments, size, numBuffers, todo>>
  BY DEF PutPoolBuffer
<1>4. TypeOK'
  BY <1>2, <1>3 DEF PoolInv, TypeOK
<1>5. RefcountExact'
  <2>1. ASSUME NEW c \in Buf
        PROVE  refcount'[c] = Cardinality(holders'[c]) + Cardinality(ViewsOf(c)')
    <3>1. ViewsOf(c)' = ViewsOf(c)
      BY DEF ViewsOf
    <3>2. CASE c = b
      <4>1. Cardinality(holders[b] \ {h}) = Cardinality(holders[b]) - 1
        BY ReferenceCounts, FS_RemoveElement
      <4>2. holders'[c] = holders[b] \ {h} /\ refcount'[c] = refcount[b] - 1
        BY <1>2, <3>2 DEF PoolInv, TypeOK
      <4>3. refcount[b] = Cardinality(holders[b]) + Cardinality(ViewsOf(b))
        BY DEF PoolInv, RefcountExact
      <4>4. Cardinality(holders[b]) \in Nat /\ Cardinality(ViewsOf(b)) \in Nat
        BY ReferenceCounts
      <4>5. refcount[b] - 1 = Cardinality(holders[b] \ {h}) + Cardinality(ViewsOf(b))
        BY <4>1, <4>3, <4>4
      <4> QED
        BY <3>1, <3>2, <4>2, <4>5
    <3>3. CASE c # b
      BY <1>2, <3>1, <3>3 DEF PoolInv, TypeOK, RefcountExact
    <3> QED
      BY <3>2, <3>3
  <2>2. \A v \in Views : /\ viewRefs'[v] = Cardinality(viewHolders'[v])
                         /\ owner'[v] = NoBuf <=> viewHolders'[v] = {}
    BY DEF PoolInv, RefcountExact
  <2> QED
    BY <2>1, <2>2 DEF RefcountExact
<1>6. NoUseAfterFree'
  BY <1>2 DEF PoolInv, TypeOK, NoUseAfterFree, ViewsOf
<1>7. SizeInBounds' /\ SegmentSizes' /\ ShrinkLoop'
  BY <1>2, <1>3 DEF PoolInv, SizeInBounds, SegmentSizes, ShrinkLoop, Idle
<1> QED
  BY <1>2, <1>4, <1>5, <1>6, <1>7 DEF PoolInv

\* Creating a view: one more view and one more reference to its owner.  Used
\* for views of buffers and for views of views.
LEMMA NewViewInv ==
    ASSUME PoolInv, NEW h \in Holders, NEW b \in Buf, NEW v \in Views,
           b \in Allocated, refcount[b] > 0, owner[v] = NoBuf, Idle,
           owner' = [owner EXCEPT ![v] = b],
           viewRefs' = [viewRefs EXCEPT ![v] = 1],
           viewHolders' = [viewHolders EXCEPT ![v] = {h}],
           refcount' = [refcount EXCEPT ![b] = @ + 1],
           UNCHANGED <<counters, sharedFd, todo, holders>>
    PROVE  PoolInv'
<1> USE DEF counters
<1>1. b # NoBuf /\ refcount[b] \in Nat /\ b \notin freeList
  BY Distinct DEF PoolInv, TypeOK, FreeIffUnreferenced
<1>2. Allocated' = Allocated
  BY DEF Allocated
<1>3. TypeOK'
  BY <1>1 DEF PoolInv, TypeOK
<1>4. ASSUME NEW c \in Buf
      PROVE  ViewsOf(c)' = IF c = b THEN ViewsOf(c) \cup {v} ELSE ViewsOf(c)
  BY <1>1, Distinct DEF PoolInv, TypeOK, ViewsOf
<1>5. RefcountExact'
  <2>1. ASSUME NEW c \in Buf
        PROVE  refcount'[c] = Cardinality(holders'[c]) + Cardinality(ViewsOf(c)')
    <3>1. CASE c = b
      <4>1. v \notin ViewsOf(b)
        BY <1>1 DEF ViewsOf
      <4>2. Cardinality(ViewsOf(b) \cup {v}) = Cardinality(ViewsOf(b)) + 1
        BY <4>1, ReferenceCounts, FS_AddElement
      <4>3. refcount'[c] = refcount[b] + 1 /\ ViewsOf(c)' = ViewsOf(b) \cup {v}
        BY <1>4, <3>1 DEF PoolInv, TypeOK
      <4>4. refcount[b] = Cardinality(holders[b]) + Cardinality(ViewsOf(b))
        BY DEF PoolInv, RefcountExact
      <4>5. Cardinality(holders[b]) \in Nat /\ Cardinality(ViewsOf(b)) \in Nat
        BY ReferenceCounts
      <4>6. refcount[b] + 1 = Cardinality(holders[b]) + Cardinality(ViewsOf(b) \cup {v})
        BY <4>2, <4>4, <4>5
      <4> QED
        BY <3>1, <4>3, <4>6
    <3>2. CASE c # b
      BY <1>4, <3>2 DEF PoolInv, TypeOK, RefcountExact
    <3> QED
      BY <3>1, <3>2
  <2>2. ASSUME NEW w \in Views
        PROVE  /\ viewRefs'[w] = Cardinality(viewHolders'[w])
               /\ owner'[w] = NoBuf <=> viewHolders'[w] = {}
    <3>1. CASE w = v
      <4>1. viewRefs'[w] = 1 /\ viewHolders'[w] = {h} /\ owner'[w] = b
        BY <3>1 DEF PoolInv, TypeOK
      <4> QED
        BY <1>1, <4>1, FS_Singleton
    <3>2. CASE w # v
      BY <3>2 DEF PoolInv, TypeOK, RefcountExact
    <3> QED
      BY <3>1, <3>2
  <2> QED
    BY <2>1, <2>2 DEF RefcountExact
<1>6. FreeIffUnreferenced'
  BY <1>1, <1>2 DEF PoolInv, TypeOK, FreeIffUnreferenced, Allocated
<1>7. NoUseAfterFree'
  BY <1>2, <1>4 DEF PoolInv, TypeOK, NoUseAfterFree
<1>8. NoFdLeak'
  BY <1>1, <1>2 DEF PoolInv, TypeOK, NoFdLeak
<1>9. SizeInBounds' /\ SegmentSizes' /\ ShrinkLoop'
  BY <1>2 DEF PoolInv, SizeInBounds, SegmentSizes, ShrinkLoop
<1>10. FreeCountsExact'
  BY DEF PoolInv, FreeCountsExact, FreeOf
<1> QED
  BY <1>3, <1>5, <1>6, <1>7, <1>8, <1>9, <1>10 DEF PoolInv

LEMMA ViewInv ==
    ASSUME PoolInv, NEW g \in Holders, NEW h \in Holders, NEW b \in Buf,
           NEW v \in Views, View(g, h, b, v)
    PROVE  PoolInv'
<1>1. b \in Allocated /\ refcount[b] > 0
  BY ReferenceCounts DEF View, PoolInv, TypeOK, NoUseAfterFree
<1> QED
  BY <1>1, NewViewInv DEF View

\* The buffer a live view refers to.
LEMMA ViewOwner ==
    ASSUME PoolInv, NEW g \in Holders, NEW w \in Views, g \in viewHolders[w]
    PROVE  /\ owner[w] \in Buf /\ owner[w] \in Allocated
           /\ refcount[owner[w]] \in Nat /\ refcount[owner[w]] > 0
<1>1. owner[w] \in Buf /\ w \in ViewsOf(owner[w])
  BY DEF PoolInv, TypeOK, RefcountExact, ViewsOf
<1> QED
  BY <1>1, ReferenceCounts DEF PoolInv, TypeOK, NoUseAfterFree

LEMMA ViewOfViewInv ==
    ASSUME PoolInv, NEW g \in Holders, NEW h \in Holders, NEW w \in Views,
           NEW v \in Views, ViewOfView(g, h, w, v)
    PROVE  PoolInv'
BY ViewOwner, NewViewInv DEF ViewOfView

LEMMA GetViewInv ==
    ASSUME PoolInv, NEW g \in Holders, NEW h \in Holders, NEW v \in Views,
           GetView(g, h, v)
    PROVE  PoolInv'
<1> USE DEF GetView, counters
<1>1. Allocated' = Allocated
  BY DEF Allocated
<1>2. TypeOK'
  BY DEF PoolInv, TypeOK
<1>3. RefcountExact'
  <2>1. ASSUME NEW w \in Views
        PROVE  /\ viewRefs'[w] = Cardinality(viewHolders'[w])
               /\ owner'[w] = NoBuf <=> viewHolders'[w] = {}
    <3>1. CASE w = v
      <4>1. IsFiniteSet(viewHolders[v])
        BY Distinct, FS_Subset DEF PoolInv, TypeOK
      <4>2. Cardinality(viewHolders[v] \cup {h}) = Cardinality(viewHolders[v]) + 1
        BY <4>1, FS_AddElement
      <4>3. /\ viewRefs'[w] = viewRefs[v] + 1
            /\ viewHolders'[w] = viewHolders[v] \cup {h}
            /\ viewRefs[v] = Cardinality(viewHolders[v]) /\ owner[v] # NoBuf
        BY <3>1 DEF PoolInv, TypeOK, RefcountExact
      <4> QED
        BY <3>1, <4>2, <4>3
    <3>2. CASE w # v
      BY <3>2 DEF PoolInv, TypeOK, RefcountExact
    <3> QED
      BY <3>1, <3>2
  <2>2. \A c \in Buf :
          refcount'[c] = Cardinality(holders'[c]) + Cardinality(ViewsOf(c)')
    BY DEF PoolInv, RefcountExact, ViewsOf
  <2> QED
    BY <2>1, <2>2 DEF RefcountExact
<1>4. FreeIffUnreferenced' /\ NoUseAfterFree' /\ NoFdLeak'
  BY <1>1 DEF PoolInv, FreeIffUnreferenced, NoUseAfterFree, NoFdLeak, ViewsOf
<1>5. SizeInBounds' /\ SegmentSizes' /\ ShrinkLoop' /\ FreeCountsExact'
  BY <1>1 DEF PoolInv, SizeInBounds, SegmentSizes, ShrinkLoop, FreeCountsExact, FreeOf
<1> QED
  BY <1>2, <1>3, <1>4, <1>5 DEF PoolInv

LEMMA PutViewInv ==
    ASSUME PoolInv, NEW h \in Holders, NEW v \in Views, PutView(h, v)
    PROVE  PoolInv'
<1> DEFINE b == owner[v]
<1> USE DEF PutView
<1>1. /\ b \in Buf /\ b \in Allocated /\ refcount[b] \in Nat /\ refcount[b] > 0
      /\ b # NoBuf
  BY ViewOwner, Distinct
<1>2. /\ IsFiniteSet(viewHolders[v])
      /\ viewRefs[v] = Cardinality(viewHolders[v]) /\ viewRefs[v] \in Nat
      /\ Cardinality(viewHolders[v] \ {h}) = viewRefs[v] - 1
      /\ viewHolders'[v] = viewHolders[v] \ {h}
      /\ viewRefs'[v] = viewRefs[v] - 1
  <2>1. IsFiniteSet(viewHolders[v])
    BY Distinct, FS_Subset DEF PoolInv, TypeOK
  <2>2. Cardinality(viewHolders[v] \ {h}) = Cardinality(viewHolders[v]) - 1
    BY <2>1, FS_RemoveElement
  <2> QED
    BY <2>1, <2>2 DEF PoolInv, TypeOK, RefcountExact
<1>3. viewRefs' \in [Views -> Nat]
  <2>1. viewRefs[v] > 0
    <3>1. viewHolders[v] # {}
      OBVIOUS
    <3> QED
      BY <1>2, <3>1, FS_EmptySet
  <2> QED
    BY <1>2, <2>1 DEF PoolInv, TypeOK
<1>4. \A w \in Views \ {v} :
        /\ viewRefs'[w] = Cardinality(viewHolders'[w])
        /\ owner'[w] = owner[w]
        /\ owner'[w] = NoBuf <=> viewHolders'[w] = {}
  BY DEF PoolInv, TypeOK, RefcountExact
<1>5. /\ Cardinality(viewHolders[v] \ {h}) \in Nat
      /\ Cardinality(viewHolders[v] \ {h}) = 0 <=> viewHolders[v] \ {h} = {}
  <2>1. IsFiniteSet(viewHolders[v] \ {h})
    BY <1>2, FS_Difference
  <2> QED
    BY <2>1, FS_CardinalityType, FS_EmptySet
<1>6. CASE viewRefs[v] - 1 <= 0
  <2>1. owner' = [owner EXCEPT ![v] = NoBuf] /\ PutPoolBuffer(b)
    BY <1>2, <1>6
  <2>2. /\ Allocated' = Allocated
        /\ FreeIffUnreferenced' /\ FreeCountsExact' /\ NoFdLeak'
        /\ refcount' = [refcount EXCEPT ![b] = @ - 1]
        /\ refcount' \in [Buf -> Nat]
        /\ numFree' \in Nat /\ segFree' \in [Segs -> Nat]
        /\ freeList' \in SUBSET Buf /\ sharedFd' \in SUBSET Buf
    BY <1>1, <2>1, PutPoolBufferInv
  <2>3. UNCHANGED <<segments, size, numBuffers, todo>>
    BY <2>1 DEF PutPoolBuffer
  <2>4. TypeOK'
    BY <1>3, <2>1, <2>2, <2>3 DEF PoolInv, TypeOK
  <2>5. viewHolders'[v] = {} /\ owner'[v] = NoBuf
    BY <1>2, <1>6, <1>5, <2>1 DEF PoolInv, TypeOK
  <2>6. ASSUME NEW c \in Buf
        PROVE  ViewsOf(c)' = IF c = b THEN ViewsOf(c) \ {v} ELSE ViewsOf(c)
    BY <2>1, Distinct DEF PoolInv, TypeOK, ViewsOf
  <2>7. ASSUME NEW c \in Buf
        PROVE  refcount'[c] = Cardinality(holders'[c]) + Cardinality(ViewsOf(c)')
    <3>1. CASE c = b
      <4>1. v \in ViewsOf(b)
        BY DEF ViewsOf
      <4>2. Cardinality(ViewsOf(b) \ {v}) = Cardinality(ViewsOf(b)) - 1
        BY <1>1, <4>1, ReferenceCounts, FS_RemoveElement
      <4>3. refcount'[c] = refcount[b] - 1 /\ ViewsOf(c)' = ViewsOf(b) \ {v}
        BY <1>1, <2>2, <2>6, <3>1 DEF PoolInv, TypeOK
      <4>4. refcount[b] = Cardinality(holders[b]) + Cardinality(ViewsOf(b))
        BY <1>1 DEF PoolInv, RefcountExact
      <4>5. Cardinality(holders[b]) \in Nat /\ Cardinality(ViewsOf(b)) \in Nat
        BY <1>1, ReferenceCounts
      <4>6. refcount[b] - 1 = Cardinality(holders[b]) + Cardinality(ViewsOf(b) \ {v})
        BY <4>2, <4>4, <4>5
      <4> QED
        BY <3>1, <4>3, <4>6
    <3>2. CASE c # b
      BY <2>2, <2>6, <3>2 DEF PoolInv, TypeOK, RefcountExact
    <3> QED
      BY <3>1, <3>2
  <2>8. RefcountExact'
    <3>1. viewRefs'[v] = Cardinality(viewHolders'[v])
      BY <1>2
    <3> QED
      BY <1>4, <2>5, <2>7, <3>1 DEF RefcountExact
  <2>9. NoUseAfterFree'
    BY <2>2, <2>6 DEF PoolInv, NoUseAfterFree
  <2>10. SizeInBounds' /\ SegmentSizes' /\ ShrinkLoop'
    BY <2>2, <2>3 DEF PoolInv, SizeInBounds, SegmentSizes, ShrinkLoop, Idle
  <2> QED
    BY <2>2, <2>4, <2>8, <2>9, <2>10 DEF PoolInv
<1>7. CASE viewRefs[v] - 1 > 0
  <2> USE DEF counters
  <2>1. UNCHANGED <<counters, refcount, sharedFd, owner, todo>>
    BY <1>2, <1>7
  <2>2. Allocated' = Allocated
    BY <2>1 DEF Allocated
  <2>3. TypeOK'
    BY <1>3, <2>1 DEF PoolInv, TypeOK
  <2>4. viewHolders'[v] # {}
    BY <1>2, <1>7, <1>5
  <2>5. RefcountExact'
    <3>1. viewRefs'[v] = Cardinality(viewHolders'[v]) /\ owner'[v] # NoBuf
      BY <1>1, <1>2, <2>1
    <3>2. \A c \in Buf :
            refcount'[c] = Cardinality(holders'[c]) + Cardinality(ViewsOf(c)')
      BY <2>1 DEF PoolInv, RefcountExact, ViewsOf
    <3> QED
      BY <1>4, <2>4, <3>1, <3>2 DEF RefcountExact
  <2>6. FreeIffUnreferenced' /\ NoUseAfterFree' /\ NoFdLeak'
    BY <2>1, <2>2 DEF PoolInv, FreeIffUnreferenced, NoUseAfterFree, NoFdLeak, ViewsOf
  <2>7. SizeInBounds' /\ SegmentSizes' /\ ShrinkLoop' /\ FreeCountsExact'
    BY <2>1, <2>2 DEF PoolInv, SizeInBounds, SegmentSizes, ShrinkLoop,
                      FreeCountsExact, FreeOf
  <2> QED
    BY <2>3, <2>5, <2>6, <2>7 DEF PoolInv
<1> QED
  BY <1>2, <1>6, <1>7

LEMMA AllocExpandInv ==
    ASSUME PoolInv, NEW h \in Holders, NEW s \in Segs, NEW b \in Buf,
           AllocExpand(h, s, b)
    PROVE  PoolInv'
<1> DEFINE n == BuffersToAdd
           New == BufsOf(s, n)
<1> USE DEF AllocExpand, viewVars
<1>1. /\ n \in Nat /\ n >= 1 /\ n <= ExpandSize /\ numBuffers + n <= MaxBuffers
      /\ numBuffers \in Nat /\ numFree \in Nat
  BY PoolSizes DEF BuffersToAdd, Smaller, WantsExpand, PoolInv, TypeOK
<1>2. b \in New /\ b = <<b[1], b[2]>> /\ b[1] = s /\ b[2] \in 1 .. n
  BY DEF BufsOf
<1>3. New \subseteq Buf
  <2>1. 1 .. n \subseteq Idx
    BY <1>1, SegmentMax, PoolSizes
  <2> QED
    BY <2>1 DEF BufsOf, Buf
<1>4. New \cap Allocated = {} /\ Allocated' = Allocated \cup New
  <2>1. ASSUME NEW c \in Buf
        PROVE  c \in New <=> c[1] = s /\ c[2] <= n
    BY <1>1, <2>1 DEF BufsOf, Buf, Idx
  <2>2. ASSUME NEW c \in Buf
        PROVE  c \in Allocated' <=> c \in Allocated \/ c \in New
    <3>1. size'[c[1]] = IF c[1] = s THEN n ELSE size[c[1]]
      BY DEF PoolInv, TypeOK, Buf
    <3> QED
      BY <2>1, <3>1 DEF Allocated
  <2>3. Allocated \subseteq Buf /\ Allocated' \subseteq Buf
    BY DEF Allocated
  <2>4. New \cap Allocated = {}
    BY <1>3, <2>1 DEF Allocated
  <2> QED
    BY <1>3, <2>2, <2>3, <2>4
<1>5. IsFiniteSet(New) /\ Cardinality(New) = n
  BY <1>1, SegmentCardinality
<1>6. \A c \in New : /\ c \notin freeList /\ holders[c] = {} /\ ViewsOf(c) = {}
                     /\ refcount[c] = 0 /\ c \notin sharedFd
  BY <1>3, <1>4, ReferenceCounts, FreeFinite DEF PoolInv, NoUseAfterFree, NoFdLeak
<1>7. freeList \cap New = {} /\ freeList' = (freeList \cup New) \ {b}
  BY <1>6
<1>8. FreeCountsExact' /\ numFree' \in Nat /\ segFree' \in [Segs -> Nat]
  <2>1. /\ IsFiniteSet(freeList \cup New)
        /\ Cardinality(freeList \cup New) = Cardinality(freeList) + n
    <3>1. Cardinality(freeList \cap New) = 0
      BY <1>7, FS_EmptySet
    <3>2. /\ IsFiniteSet(freeList \cup New)
          /\ Cardinality(freeList \cup New) =
               Cardinality(freeList) + Cardinality(New) - Cardinality(freeList \cap New)
      BY <1>5, FreeFinite, FS_Union
    <3> QED
      BY <1>1, <1>5, <3>1, <3>2, FreeFinite
  <2>2. Cardinality(freeList') = Cardinality(freeList) + n - 1
    <3>1. b \in freeList \cup New
      BY <1>2
    <3>2. Cardinality((freeList \cup New) \ {b}) = Cardinality(freeList \cup New) - 1
      BY <2>1, <3>1, FS_RemoveElement
    <3>3. Cardinality(freeList') = Cardinality(freeList \cup New) - 1
      BY <1>7, <3>2
    <3>4. Cardinality(freeList) \in Nat
      BY FreeFinite
    <3> QED
      BY <1>1, <2>1, <3>3, <3>4
  <2>3. numFree' = Cardinality(freeList') /\ numFree' \in Nat
    BY <1>1, <2>2 DEF PoolInv, FreeCountsExact
  <2>4. ASSUME NEW t \in Segs
        PROVE  segFree'[t] = Cardinality(FreeOf(t)') /\ segFree'[t] \in Nat
    <3>1. CASE t = s
      <4>1. \A c \in freeList : c[1] # s
        BY FreeFinite DEF Allocated
      <4>2. FreeOf(t)' = New \ {b}
        BY <1>2, <1>7, <3>1, <4>1 DEF FreeOf, BufsOf
      <4>3. Cardinality(New \ {b}) = n - 1
        BY <1>2, <1>5, FS_RemoveElement
      <4>4. segFree'[t] = n - 1
        BY <3>1 DEF PoolInv, TypeOK
      <4> QED
        BY <1>1, <4>2, <4>3, <4>4
    <3>2. CASE t # s
      <4>1. FreeOf(t)' = FreeOf(t)
        BY <1>2, <1>7, <3>2 DEF FreeOf, BufsOf
      <4> QED
        BY <3>2, <4>1 DEF PoolInv, TypeOK, FreeCountsExact
    <3> QED
      BY <3>1, <3>2
  <2>5. segFree' \in [Segs -> Nat]
    BY <2>4 DEF PoolInv, TypeOK
  <2> QED
    BY <2>3, <2>4, <2>5 DEF FreeCountsExact
<1>9. TypeOK'
  BY <1>1, <1>3, <1>7, <1>8 DEF PoolInv, TypeOK, Idle
<1>10. RefcountExact'
  <2>1. ASSUME NEW c \in Buf
        PROVE  refcount'[c] = Cardinality(holders'[c]) + Cardinality(ViewsOf(c)')
    <3>1. ViewsOf(c)' = ViewsOf(c)
      BY DEF ViewsOf
    <3>2. CASE c = b
      <4>1. refcount'[c] = 1 /\ holders'[c] = {h} /\ ViewsOf(c)' = {}
        BY <1>2, <1>6, <3>1, <3>2 DEF PoolInv, TypeOK
      <4>2. Cardinality(holders'[c]) = 1 /\ Cardinality(ViewsOf(c)') = 0
        BY <4>1, FS_Singleton, FS_EmptySet
      <4> QED
        BY <4>1, <4>2
    <3>3. CASE c # b
      BY <3>1, <3>3 DEF PoolInv, TypeOK, RefcountExact
    <3> QED
      BY <3>2, <3>3
  <2>2. \A v \in Views : /\ viewRefs'[v] = Cardinality(viewHolders'[v])
                         /\ owner'[v] = NoBuf <=> viewHolders'[v] = {}
    BY DEF PoolInv, RefcountExact
  <2> QED
    BY <2>1, <2>2 DEF RefcountExact
<1>11. FreeIffUnreferenced'
  <2>1. ASSUME NEW c \in Allocated'
        PROVE  c \in freeList' <=> refcount'[c] = 0
    <3>1. refcount'[c] = IF c = b THEN 1 ELSE refcount[c]
      BY DEF PoolInv, TypeOK, Allocated
    <3>2. CASE c = b
      BY <1>7, <3>1, <3>2
    <3>3. CASE c # b /\ c \in New
      BY <1>6, <1>7, <3>1, <3>3
    <3>4. CASE c # b /\ c \in Allocated
      BY <1>4, <1>7, <3>1, <3>4 DEF PoolInv, FreeIffUnreferenced
    <3> QED
      BY <1>4, <3>2, <3>3, <3>4
  <2>2. freeList' \subseteq Allocated'
    BY <1>4, <1>7, FreeFinite
  <2> QED
    BY <2>1, <2>2 DEF FreeIffUnreferenced
<1>12. NoUseAfterFree'
  <2>1. ASSUME NEW c \in Buf, holders'[c] # {} \/ ViewsOf(c)' # {}
        PROVE  c \in Allocated'
    BY <1>2, <1>4, <2>1 DEF PoolInv, TypeOK, NoUseAfterFree, ViewsOf
  <2> QED
    BY <2>1 DEF NoUseAfterFree
<1>13. NoFdLeak'
  BY <1>2, <1>4, <1>6 DEF PoolInv, TypeOK, NoFdLeak
<1>14. SizeInBounds'
  <2>1. Cardinality(Allocated') = Cardinality(Allocated) + n
    <3>1. Cardinality(Allocated \cap New) = 0
      <4>1. Allocated \cap New = {}
        BY <1>4
      <4> QED
        BY <4>1, FS_EmptySet
    <3>2. IsFiniteSet(Allocated) /\ Cardinality(Allocated) \in Nat
      BY FS_CardinalityType DEF PoolInv, SegmentSizes
    <3>3. Cardinality(Allocated \cup New) =
               Cardinality(Allocated) + Cardinality(New) - Cardinality(Allocated \cap New)
      BY <1>5, <3>2, FS_Union
    <3> QED
      BY <1>1, <1>4, <1>5, <3>1, <3>2, <3>3
  <2>2. numBuffers' <= Larger(InitialBuffers, MaxBuffers)
    BY <1>1, SegmentMax, PoolSizes
  <2> QED
    BY <1>1, <2>1, <2>2, PoolSizes DEF PoolInv, SizeInBounds
<1>15. SegmentSizes' /\ ShrinkLoop'
  <2>1. IsFiniteSet(Allocated')
    BY <1>4, <1>5, FS_Union DEF PoolInv, SegmentSizes
  <2>2. ASSUME NEW t \in Segs
        PROVE  /\ size'[t] <= Larger(InitialBuffers, ExpandSize)
               /\ t \notin segments' => size'[t] = 0
    <3>1. n <= Larger(InitialBuffers, ExpandSize)
      BY <1>1, SegmentMax, PoolSizes
    <3> QED
      BY <1>1, <3>1 DEF PoolInv, TypeOK, SegmentSizes
  <2> QED
    BY <2>1, <2>2 DEF SegmentSizes, ShrinkLoop, Idle
<1> QED
  BY <1>8, <1>9, <1>10, <1>11, <1>12, <1>13, <1>14, <1>15 DEF PoolInv

LEMMA ShrinkBeginInv ==
    ASSUME PoolInv, ShrinkBegin
    PROVE  PoolInv'
<1> USE DEF ShrinkBegin, viewVars, counters
<1>1. Allocated' = Allocated
  BY DEF Allocated
<1>2. TypeOK' /\ ShrinkLoop'
  BY DEF PoolInv, TypeOK, ShrinkLoop
<1>3. RefcountExact' /\ NoUseAfterFree' /\ FreeIffUnreferenced' /\ NoFdLeak'
  BY <1>1 DEF PoolInv, RefcountExact, NoUseAfterFree, FreeIffUnreferenced,
              NoFdLeak, ViewsOf
<1>4. SizeInBounds' /\ SegmentSizes' /\ FreeCountsExact'
  BY <1>1 DEF PoolInv, SizeInBounds, SegmentSizes, FreeCountsExact, FreeOf
<1> QED
  BY <1>2, <1>3, <1>4 DEF PoolInv

LEMMA ShrinkKeepInv ==
    ASSUME PoolInv, NEW s \in Segs, ShrinkKeep(s)
    PROVE  PoolInv'
<1> USE DEF ShrinkKeep, viewVars, counters
<1>1. Allocated' = Allocated
  BY DEF Allocated
<1>2. TypeOK' /\ ShrinkLoop'
  BY DEF PoolInv, TypeOK, ShrinkLoop
<1>3. RefcountExact' /\ NoUseAfterFree' /\ FreeIffUnreferenced' /\ NoFdLeak'
  BY <1>1 DEF PoolInv, RefcountExact, NoUseAfterFree, FreeIffUnreferenced,
              NoFdLeak, ViewsOf
<1>4. SizeInBounds' /\ SegmentSizes' /\ FreeCountsExact'
  BY <1>1 DEF PoolInv, SizeInBounds, SegmentSizes, FreeCountsExact, FreeOf
<1> QED
  BY <1>2, <1>3, <1>4 DEF PoolInv

\* A segment that counts as completely free has all its buffers on the free
\* list, so removing the buffers in its address range removes exactly its size.
LEMMA FreeSegment ==
    ASSUME PoolInv, NEW s \in segments, segFree[s] = size[s]
    PROVE  /\ FreeOf(s) = {b \in Allocated : b[1] = s}
           /\ IsFiniteSet(FreeOf(s)) /\ Cardinality(FreeOf(s)) = size[s]
<1>1. s \in Segs /\ size[s] \in Nat /\ size[s] <= Larger(InitialBuffers, ExpandSize)
  BY DEF PoolInv, TypeOK, SegmentSizes
<1>2. {b \in Allocated : b[1] = s} = BufsOf(s, size[s])
  <2>1. ASSUME NEW b \in BufsOf(s, size[s]) PROVE b \in Allocated /\ b[1] = s
    <3>1. b = <<s, b[2]>> /\ b[1] = s /\ b[2] \in 1 .. size[s]
      BY DEF BufsOf
    <3>2. b[2] \in Idx
      BY <1>1, <3>1, SegmentMax DEF Idx
    <3> QED
      BY <1>1, <3>1, <3>2 DEF Allocated, Buf
  <2>2. ASSUME NEW b \in Allocated, b[1] = s PROVE b \in BufsOf(s, size[s])
    BY <1>1, <2>2 DEF Allocated, BufsOf, Buf, Idx
  <2> QED
    BY <2>1, <2>2
<1>3. /\ IsFiniteSet(BufsOf(s, size[s]))
      /\ Cardinality(BufsOf(s, size[s])) = size[s]
  BY <1>1, SegmentCardinality
<1>4. FreeOf(s) \subseteq BufsOf(s, size[s])
  BY <1>2, FreeFinite DEF FreeOf
<1>5. Cardinality(FreeOf(s)) = size[s]
  BY <1>1 DEF PoolInv, FreeCountsExact
<1>6. FreeOf(s) = BufsOf(s, size[s])
  BY <1>3, <1>4, <1>5, FS_Subset
<1> QED
  BY <1>2, <1>3, <1>5, <1>6

LEMMA ShrinkFreeInv ==
    ASSUME PoolInv, NEW s \in Segs, ShrinkFree(s)
    PROVE  PoolInv' /\ numFree' > LowWatermark
<1> USE DEF ShrinkFree, viewVars
<1>1. s \in segments /\ s \in todo /\ segFree[s] = size[s]
      /\ numBuffers - size[s] >= InitialBuffers
  BY DEF PoolInv, TypeOK, CanFree
<1>2. /\ FreeOf(s) = {b \in Allocated : b[1] = s}
      /\ IsFiniteSet(FreeOf(s)) /\ Cardinality(FreeOf(s)) = size[s]
  BY <1>1, FreeSegment
<1>3. FreeOf(s) \subseteq freeList /\ freeList \subseteq Allocated
  BY FreeFinite DEF FreeOf
<1>4. Allocated' = Allocated \ FreeOf(s)
  <2>1. ASSUME NEW b \in Buf
        PROVE  b \in Allocated' <=> b \in Allocated /\ b[1] # s
    BY DEF PoolInv, TypeOK, Allocated, Buf
  <2>2. Allocated \subseteq Buf /\ Allocated' \subseteq Buf
    BY DEF Allocated
  <2> QED
    BY <1>2, <2>1, <2>2
<1>5. /\ size[s] \in Nat /\ size[s] <= Larger(InitialBuffers, ExpandSize)
      /\ numFree > HighWatermark /\ numFree \in Nat
      /\ numFree' = numFree - size[s]
  BY <1>1, <1>2 DEF PoolInv, TypeOK, SegmentSizes, ShrinkLoop
<1>6. numFree' > LowWatermark /\ numFree' \in Nat
  BY <1>5, Hysteresis, PoolSizes, SegmentMax
<1>7. FreeCountsExact' /\ segFree' \in [Segs -> Nat]
  <2>1. Cardinality(freeList') = Cardinality(freeList) - size[s]
    <3>1. freeList \cap FreeOf(s) = FreeOf(s)
      BY <1>3
    <3>2. Cardinality(freeList \ FreeOf(s)) =
            Cardinality(freeList) - Cardinality(freeList \cap FreeOf(s))
      BY FreeFinite, FS_Difference
    <3> QED
      BY <1>2, <3>1, <3>2
  <2>2. numFree' = Cardinality(freeList')
    BY <1>5, <2>1 DEF PoolInv, FreeCountsExact
  <2>3. ASSUME NEW t \in Segs
        PROVE  segFree'[t] = Cardinality(FreeOf(t)') /\ segFree'[t] \in Nat
    <3>1. CASE t = s
      <4>1. FreeOf(t)' = {}
        BY <3>1 DEF FreeOf
      <4>2. segFree'[t] = 0
        BY <3>1 DEF PoolInv, TypeOK
      <4> QED
        BY <4>1, <4>2, FS_EmptySet
    <3>2. CASE t # s
      <4>1. FreeOf(t)' = FreeOf(t)
        BY <3>2 DEF FreeOf
      <4> QED
        BY <3>2, <4>1 DEF PoolInv, TypeOK, FreeCountsExact
    <3> QED
      BY <3>1, <3>2
  <2>4. segFree' \in [Segs -> Nat]
    BY <2>3 DEF PoolInv, TypeOK
  <2> QED
    BY <2>2, <2>3, <2>4 DEF FreeCountsExact
<1>8. TypeOK'
  <2>1. size' \in [Segs -> Nat] /\ segments' \in SUBSET Segs /\ todo' \in SUBSET segments'
    BY DEF PoolInv, TypeOK
  <2>2. numBuffers' \in Nat
    BY <1>1, <1>5, PoolSizes DEF PoolInv, TypeOK
  <2> QED
    BY <1>6, <1>7, <2>1, <2>2 DEF PoolInv, TypeOK
<1>9. \A b \in FreeOf(s) : refcount[b] = 0 /\ holders[b] = {} /\ ViewsOf(b) = {}
  <2>1. \A b \in FreeOf(s) : b \in Buf /\ refcount[b] = 0
    BY <1>3 DEF PoolInv, FreeIffUnreferenced, Allocated
  <2> QED
    BY <2>1, ReferenceCounts
<1>10. RefcountExact'
  BY DEF PoolInv, RefcountExact, ViewsOf
<1>11. FreeIffUnreferenced'
  BY <1>4 DEF PoolInv, FreeIffUnreferenced
<1>12. NoUseAfterFree'
  BY <1>4, <1>9 DEF PoolInv, NoUseAfterFree, ViewsOf
<1>13. NoFdLeak'
  BY <1>4, <1>9 DEF PoolInv, NoFdLeak
<1>14. SizeInBounds' /\ IsFiniteSet(Allocated')
  <2>1. IsFiniteSet(Allocated) /\ Cardinality(Allocated) = numBuffers
    BY DEF PoolInv, SegmentSizes, SizeInBounds
  <2>2. Allocated \cap FreeOf(s) = FreeOf(s)
    BY <1>3
  <2>3. /\ IsFiniteSet(Allocated \ FreeOf(s))
        /\ Cardinality(Allocated \ FreeOf(s)) =
             Cardinality(Allocated) - Cardinality(Allocated \cap FreeOf(s))
    BY <2>1, FS_Difference
  <2>4. numBuffers' = Cardinality(Allocated') /\ IsFiniteSet(Allocated')
    BY <1>2, <1>4, <2>1, <2>2, <2>3
  <2> QED
    BY <1>1, <1>5, <2>4, SegmentMax, PoolSizes DEF PoolInv, TypeOK, SizeInBounds
<1>15. SegmentSizes' /\ ShrinkLoop'
  <2>1. ShrinkLoop'
    BY <1>6, PoolSizes DEF ShrinkLoop
  <2>2. ASSUME NEW t \in Segs
        PROVE  /\ size'[t] <= Larger(InitialBuffers, ExpandSize)
               /\ t \notin segments' => size'[t] = 0
    BY SegmentMax DEF PoolInv, TypeOK, SegmentSizes
  <2> QED
    BY <1>14, <2>1, <2>2 DEF SegmentSizes
<1> QED
  BY <1>6, <1>7, <1>8, <1>10, <1>11, <1>12, <1>13, <1>14, <1>15 DEF PoolInv

-----------------------------------------------------------------------------
LEMMA StepInv == PoolInv /\ [Next]_vars => PoolInv'
<1> SUFFICES ASSUME PoolInv, [Next]_vars PROVE PoolInv'
  OBVIOUS
<1>1. ASSUME NEW h \in Holders, NEW b \in Buf,
             Alloc(h, b) \/ Put(h, b) \/ Snapshot(h, b)
      PROVE  PoolInv'
  BY <1>1, AllocInv, PutInv, SnapshotInv
<1>2. ASSUME NEW h \in Holders, NEW s \in Segs, NEW b \in Buf, AllocExpand(h, s, b)
      PROVE  PoolInv'
  BY <1>2, AllocExpandInv
<1>3. ASSUME NEW g \in Holders, NEW h \in Holders, NEW b \in Buf, Get(g, h, b)
      PROVE  PoolInv'
  BY <1>3, GetInv
<1>4. ASSUME NEW g \in Holders, NEW h \in Holders, NEW b \in Buf, NEW v \in Views,
             View(g, h, b, v)
      PROVE  PoolInv'
  BY <1>4, ViewInv
<1>5. ASSUME NEW g \in Holders, NEW h \in Holders, NEW w \in Views, NEW v \in Views,
             ViewOfView(g, h, w, v)
      PROVE  PoolInv'
  BY <1>5, ViewOfViewInv
<1>6. ASSUME NEW g \in Holders, NEW h \in Holders, NEW v \in Views, GetView(g, h, v)
      PROVE  PoolInv'
  BY <1>6, GetViewInv
<1>7. ASSUME NEW h \in Holders, NEW v \in Views, PutView(h, v)
      PROVE  PoolInv'
  BY <1>7, PutViewInv
<1>8. ASSUME NEW s \in Segs, ShrinkFree(s) \/ ShrinkKeep(s)
      PROVE  PoolInv'
  BY <1>8, ShrinkFreeInv, ShrinkKeepInv
<1>9. CASE ShrinkBegin
  BY <1>9, ShrinkBeginInv
<1>10. CASE UNCHANGED vars
  BY <1>10 DEF vars, PoolInv, TypeOK, SegmentSizes, ShrinkLoop, RefcountExact,
     FreeIffUnreferenced, NoUseAfterFree, FreeCountsExact, SizeInBounds, NoFdLeak,
     Allocated, ViewsOf, FreeOf
<1> QED
  BY <1>1, <1>2, <1>3, <1>4, <1>5, <1>6, <1>7, <1>8, <1>9, <1>10 DEF Next

\* The whole inductive invariant holds of the pool.
THEOREM PoolInvariant == Spec => []PoolInv
<1>1. Init => PoolInv
  BY InitInv
<1>2. PoolInv /\ [Next]_vars => PoolInv'
  BY StepInv
<1> QED
  BY <1>1, <1>2, PTL DEF Spec

\* The counters of the pool stay within their types: no size_t wraps.
THEOREM PoolTypes == Spec => []TypeOK
<1>1. PoolInv => TypeOK
  BY DEF PoolInv
<1> QED
  BY <1>1, PoolInvariant, PTL

\* A buffer somebody can reach is in a segment of the pool and not on the free
\* list: neither buffer_ref_put nor the shrink recycles memory in use.
THEOREM PoolMemorySafety == Spec => [](NoUseAfterFree /\ FreeIffUnreferenced)
<1>1. PoolInv => NoUseAfterFree /\ FreeIffUnreferenced
  BY DEF PoolInv
<1> QED
  BY <1>1, PoolInvariant, PTL

\* The pool's size stays between the initial size and its maximum, and the
\* counts that steer it are exact.
THEOREM PoolCapacity == Spec => [](SizeInBounds /\ FreeCountsExact)
<1>1. PoolInv => SizeInBounds /\ FreeCountsExact
  BY DEF PoolInv
<1> QED
  BY <1>1, PoolInvariant, PTL

\* Shrinking never leaves the pool at or below the low watermark.
THEOREM PoolHysteresis == Spec => NoThrash
<1>1. ASSUME PoolInv, Next, segments' \subseteq segments, segments' # segments
      PROVE  numFree' > LowWatermark
  <2>1. \E s \in Segs : ShrinkFree(s)
    BY <1>1 DEF Next, Alloc, Put, PutPoolBuffer, Snapshot, AllocExpand, Get, View,
       ViewOfView, GetView, PutView, ShrinkBegin, ShrinkKeep, counters
  <2> QED
    BY <1>1, <2>1, ShrinkFreeInv
<1>2. PoolInv /\ [Next]_vars =>
        [segments' \subseteq segments /\ segments' # segments
           => numFree' > LowWatermark]_vars
  BY <1>1
<1> QED
  BY <1>2, PoolInvariant, PTL DEF Spec, NoThrash
=============================================================================
