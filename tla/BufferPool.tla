----------------------------- MODULE BufferPool -----------------------------
(***************************************************************************)
(* The reference-counted output buffer pool of one rtp2httpd worker        *)
(* (buffer_pool.c): segments of equal-sized buffers, one free list over    *)
(* all of them, growth on demand up to max_buffers, idle segments given    *)
(* back by buffer_pool_try_shrink, and views (heap objects that share the  *)
(* bytes of a pool buffer and keep it alive).                              *)
(*                                                                         *)
(* A worker is single threaded, so every call is one step; only the walk   *)
(* of the shrink over the segment list is cut into one step per segment,   *)
(* with every other call disabled while the walk is in progress.           *)
(*                                                                         *)
(* Who holds a reference is not state of the C program.  Holders are the   *)
(* places a reference can be kept in (a receive slot, a reorder slot, a    *)
(* send queue, a multicast batch), and holders[b] / viewHolders[v] record  *)
(* which of them still owe a buffer_ref_put.                               *)
(***************************************************************************)
EXTENDS Integers, FiniteSets

CONSTANTS
    Segs,            \* identities of segments (addresses malloc can return)
    Views,           \* identities of view objects
    Holders,         \* places that keep references
    NoBuf,           \* "this view object is not allocated"
    InitialBuffers,  \* initial_buffers, also the min_buffers of the shrink
    MaxBuffers,      \* max_buffers (configurable, may be below the initial)
    ExpandSize,      \* expand_size
    LowWatermark,    \* low_watermark
    HighWatermark    \* high_watermark

Larger(m, n) == IF m >= n THEN m ELSE n
Smaller(m, n) == IF m <= n THEN m ELSE n

Idx == 1 .. Larger(InitialBuffers, ExpandSize)

\* A buffer_ref_t of a segment: the segment and the position in its refs array.
Buf == Segs \X Idx

ASSUME PoolSizes ==
    /\ InitialBuffers \in Nat \ {0} /\ MaxBuffers \in Nat \ {0}
    /\ ExpandSize \in Nat \ {0}
    /\ LowWatermark \in Nat /\ HighWatermark \in Nat

\* All three pools are configured so that giving one segment back at the high
\* watermark leaves more than the low watermark: 384/128/32, 32/16/4, 12/4/2.
ASSUME Hysteresis ==
    HighWatermark >= LowWatermark + Larger(InitialBuffers, ExpandSize)

ASSUME Distinct == NoBuf \notin Buf /\ IsFiniteSet(Views) /\ IsFiniteSet(Holders)

VARIABLES
    segments,     \* pool->segments, as the set of segments on the list
    size,         \* segment->num_buffers
    segFree,      \* segment->num_free
    freeList,     \* pool->free_list, as the set of buffers on it
    numBuffers,   \* pool->num_buffers
    numFree,      \* pool->num_free
    refcount,     \* ref->refcount of pool buffers
    sharedFd,     \* pool buffers whose ref->shared_fd is an open memfd
    owner,        \* view->owner, NoBuf for a view that is not allocated
    viewRefs,     \* view->refcount
    todo,         \* segments the shrink in progress has still to visit
    holders,      \* who holds references to a pool buffer
    viewHolders   \* who holds references to a view

counters == <<segments, size, segFree, freeList, numBuffers, numFree>>
viewVars == <<owner, viewRefs, viewHolders>>
vars == <<segments, size, segFree, freeList, numBuffers, numFree, refcount,
          sharedFd, owner, viewRefs, todo, holders, viewHolders>>

BufsOf(s, n) == {s} \X (1 .. n)
Allocated == {b \in Buf : b[1] \in segments /\ b[2] <= size[b[1]]}
ViewsOf(b) == {v \in Views : owner[v] = b}
FreeOf(s) == {b \in freeList : b[1] = s}
Idle == todo = {}

-----------------------------------------------------------------------------
(* buffer_pool_init: one segment with every buffer on the free list.       *)
Init ==
    \E s \in Segs :
      /\ segments = {s}
      /\ size = [t \in Segs |-> IF t = s THEN InitialBuffers ELSE 0]
      /\ segFree = size
      /\ freeList = BufsOf(s, InitialBuffers)
      /\ numBuffers = InitialBuffers
      /\ numFree = InitialBuffers
      /\ refcount = [b \in Buf |-> 0]
      /\ sharedFd = {}
      /\ owner = [v \in Views |-> NoBuf]
      /\ viewRefs = [v \in Views |-> 0]
      /\ todo = {}
      /\ holders = [b \in Buf |-> {}]
      /\ viewHolders = [v \in Views |-> {}]

\* The expansion is asked for when the free list is empty, and proactively
\* below the low watermark; buffer_pool_expand refuses at the maximum.
WantsExpand ==
    /\ freeList = {} \/ numFree <= LowWatermark
    /\ numBuffers < MaxBuffers

\* Faulty variant: the last expansion is not capped.
BuffersToAddUncapped == ExpandSize

BuffersToAdd == Smaller(ExpandSize, MaxBuffers - numBuffers)

(* buffer_pool_alloc_from without a new segment: none is wanted, or malloc *)
(* failed.  With an empty free list the call returns NULL and changes      *)
(* nothing.                                                                *)
Alloc(h, b) ==
    /\ Idle
    /\ b \in freeList
    /\ freeList' = freeList \ {b}
    /\ numFree' = numFree - 1
    /\ segFree' = [segFree EXCEPT ![b[1]] = @ - 1]
    /\ refcount' = [refcount EXCEPT ![b] = 1]
    /\ holders' = [holders EXCEPT ![b] = {h}]
    /\ UNCHANGED <<segments, size, numBuffers, sharedFd, todo>>
    /\ UNCHANGED viewVars

(* buffer_pool_alloc_from with buffer_pool_expand: the new segment's       *)
(* buffers are pushed in front of the free list, so one of them is popped. *)
AllocExpand(h, s, b) ==
    /\ Idle
    /\ WantsExpand
    /\ s \in Segs \ segments
    /\ b \in BufsOf(s, BuffersToAdd)
    /\ segments' = segments \cup {s}
    /\ size' = [size EXCEPT ![s] = BuffersToAdd]
    /\ segFree' = [segFree EXCEPT ![s] = BuffersToAdd - 1]
    /\ freeList' = (freeList \cup BufsOf(s, BuffersToAdd)) \ {b}
    /\ numBuffers' = numBuffers + BuffersToAdd
    /\ numFree' = numFree + BuffersToAdd - 1
    /\ refcount' = [refcount EXCEPT ![b] = 1]
    /\ holders' = [holders EXCEPT ![b] = {h}]
    /\ UNCHANGED <<sharedFd, todo>>
    /\ UNCHANGED viewVars

(* buffer_ref_get: g holds the buffer and h takes a reference of its own.  *)
Get(g, h, b) ==
    /\ Idle
    /\ g \in holders[b] /\ h \notin holders[b]
    /\ refcount' = [refcount EXCEPT ![b] = @ + 1]
    /\ holders' = [holders EXCEPT ![b] = @ \cup {h}]
    /\ UNCHANGED <<counters, sharedFd, todo>>
    /\ UNCHANGED viewVars

(* The part of buffer_ref_put that acts on a pool buffer: the last         *)
(* reference closes the snapshot and pushes the buffer on the free list.   *)
PutPoolBuffer(b) ==
    /\ refcount' = [refcount EXCEPT ![b] = @ - 1]
    /\ \/ /\ refcount[b] - 1 <= 0
          /\ sharedFd' = sharedFd \ {b}
          /\ segFree' = [segFree EXCEPT ![b[1]] = @ + 1]
          /\ freeList' = freeList \cup {b}
          /\ numFree' = numFree + 1
       \/ /\ refcount[b] - 1 > 0
          /\ UNCHANGED <<sharedFd, segFree, freeList, numFree>>
    /\ UNCHANGED <<segments, size, numBuffers, todo>>

(* buffer_ref_put of a pool buffer.                                        *)
Put(h, b) ==
    /\ Idle
    /\ h \in holders[b]
    /\ holders' = [holders EXCEPT ![b] = @ \ {h}]
    /\ PutPoolBuffer(b)
    /\ UNCHANGED viewVars

\* Faulty variant: the view does not keep its owner alive.
ViewWithoutReference(g, h, b, v) ==
    /\ Idle
    /\ g \in holders[b]
    /\ owner[v] = NoBuf
    /\ owner' = [owner EXCEPT ![v] = b]
    /\ viewRefs' = [viewRefs EXCEPT ![v] = 1]
    /\ viewHolders' = [viewHolders EXCEPT ![v] = {h}]
    /\ UNCHANGED <<counters, refcount, sharedFd, todo, holders>>

(* buffer_ref_view of a pool buffer g holds; h keeps the new view, which   *)
(* owns a reference to the buffer.                                         *)
View(g, h, b, v) ==
    /\ Idle
    /\ g \in holders[b]
    /\ owner[v] = NoBuf
    /\ owner' = [owner EXCEPT ![v] = b]
    /\ viewRefs' = [viewRefs EXCEPT ![v] = 1]
    /\ viewHolders' = [viewHolders EXCEPT ![v] = {h}]
    /\ refcount' = [refcount EXCEPT ![b] = @ + 1]
    /\ UNCHANGED <<counters, sharedFd, todo, holders>>

(* buffer_ref_view of a view: the new view refers to the original buffer.  *)
ViewOfView(g, h, w, v) ==
    /\ Idle
    /\ g \in viewHolders[w]
    /\ owner[v] = NoBuf
    /\ owner' = [owner EXCEPT ![v] = owner[w]]
    /\ viewRefs' = [viewRefs EXCEPT ![v] = 1]
    /\ viewHolders' = [viewHolders EXCEPT ![v] = {h}]
    /\ refcount' = [refcount EXCEPT ![owner[w]] = @ + 1]
    /\ UNCHANGED <<counters, sharedFd, todo, holders>>

(* buffer_ref_get of a view.                                               *)
GetView(g, h, v) ==
    /\ Idle
    /\ g \in viewHolders[v] /\ h \notin viewHolders[v]
    /\ viewRefs' = [viewRefs EXCEPT ![v] = @ + 1]
    /\ viewHolders' = [viewHolders EXCEPT ![v] = @ \cup {h}]
    /\ UNCHANGED <<counters, refcount, sharedFd, owner, todo, holders>>

(* buffer_ref_put of a view: the last reference frees the view object and  *)
(* gives up its reference to the pool buffer.                              *)
PutView(h, v) ==
    /\ Idle
    /\ h \in viewHolders[v]
    /\ viewHolders' = [viewHolders EXCEPT ![v] = @ \ {h}]
    /\ viewRefs' = [viewRefs EXCEPT ![v] = @ - 1]
    /\ \/ /\ viewRefs[v] - 1 <= 0
          /\ owner' = [owner EXCEPT ![v] = NoBuf]
          /\ PutPoolBuffer(owner[v])
       \/ /\ viewRefs[v] - 1 > 0
          /\ UNCHANGED <<counters, refcount, sharedFd, owner, todo>>
    /\ UNCHANGED holders

(* buffer_ref_snapshot: publish an immutable memfd copy once; when the     *)
(* kernel refuses, nothing changes.                                        *)
Snapshot(h, b) ==
    /\ Idle
    /\ h \in holders[b]
    /\ b \notin sharedFd
    /\ sharedFd' = sharedFd \cup {b}
    /\ UNCHANGED <<counters, refcount, todo, holders>>
    /\ UNCHANGED viewVars

\* Faulty variant: the shrink starts at the wrong watermark.
ShrinkBeginAtLow ==
    /\ Idle
    /\ numFree > LowWatermark
    /\ numBuffers > InitialBuffers
    /\ todo' = segments
    /\ UNCHANGED <<counters, refcount, sharedFd, holders>>
    /\ UNCHANGED viewVars

(* buffer_pool_try_shrink_pool up to its loop.                             *)
ShrinkBegin ==
    /\ Idle
    /\ numFree > HighWatermark
    /\ numBuffers > InitialBuffers
    /\ todo' = segments
    /\ UNCHANGED <<counters, refcount, sharedFd, holders>>
    /\ UNCHANGED viewVars

\* Faulty variant: one buffer of the segment may still be in use.
CanFreeInUse(s) ==
    /\ segFree[s] + 1 >= size[s]
    /\ numBuffers - size[s] >= InitialBuffers

CanFree(s) ==
    /\ segFree[s] = size[s]
    /\ numBuffers - size[s] >= InitialBuffers

(* One iteration of its loop that frees the segment and stops at the high  *)
(* watermark; the buffers taken off the free list are those whose address  *)
(* lies in the segment.                                                    *)
ShrinkFree(s) ==
    /\ s \in todo
    /\ CanFree(s)
    /\ segments' = segments \ {s}
    /\ size' = [size EXCEPT ![s] = 0]
    /\ segFree' = [segFree EXCEPT ![s] = 0]
    /\ freeList' = freeList \ FreeOf(s)
    /\ numBuffers' = numBuffers - size[s]
    /\ numFree' = numFree - Cardinality(FreeOf(s))
    /\ todo' = IF numFree' <= HighWatermark THEN {} ELSE todo \ {s}
    /\ UNCHANGED <<refcount, sharedFd, holders>>
    /\ UNCHANGED viewVars

(* One iteration of its loop that keeps the segment.                       *)
ShrinkKeep(s) ==
    /\ s \in todo
    /\ ~CanFree(s)
    /\ todo' = todo \ {s}
    /\ UNCHANGED <<counters, refcount, sharedFd, holders>>
    /\ UNCHANGED viewVars

Next ==
    \/ \E h \in Holders, b \in Buf : Alloc(h, b) \/ Put(h, b) \/ Snapshot(h, b)
    \/ \E h \in Holders, s \in Segs, b \in Buf : AllocExpand(h, s, b)
    \/ \E g, h \in Holders, b \in Buf : Get(g, h, b)
    \/ \E g, h \in Holders, b \in Buf, v \in Views : View(g, h, b, v)
    \/ \E g, h \in Holders, w, v \in Views : ViewOfView(g, h, w, v)
    \/ \E g, h \in Holders, v \in Views : GetView(g, h, v)
    \/ \E h \in Holders, v \in Views : PutView(h, v)
    \/ ShrinkBegin
    \/ \E s \in Segs : ShrinkFree(s) \/ ShrinkKeep(s)

Spec == Init /\ [][Next]_vars

-----------------------------------------------------------------------------
(* Types: the counters are size_t, so none of them may go below zero.      *)
TypeOK ==
    /\ segments \in SUBSET Segs /\ todo \in SUBSET segments
    /\ size \in [Segs -> Nat] /\ segFree \in [Segs -> Nat]
    /\ freeList \in SUBSET Buf /\ sharedFd \in SUBSET Buf
    /\ numBuffers \in Nat /\ numFree \in Nat
    /\ refcount \in [Buf -> Nat] /\ viewRefs \in [Views -> Nat]
    /\ owner \in [Views -> Buf \cup {NoBuf}]
    /\ holders \in [Buf -> SUBSET Holders]
    /\ viewHolders \in [Views -> SUBSET Holders]

\* The reference counts of buffer_ref_get, buffer_ref_view and buffer_ref_put
\* are exactly the references owed: one per holder and one per view that
\* shares the buffer; a view object exists exactly as long as it is held.
RefcountExact ==
    /\ \A b \in Buf :
         refcount[b] = Cardinality(holders[b]) + Cardinality(ViewsOf(b))
    /\ \A v \in Views :
         /\ viewRefs[v] = Cardinality(viewHolders[v])
         /\ owner[v] = NoBuf <=> viewHolders[v] = {}

\* No buffer is on the free list while a holder or a view can reach it, and
\* none is lost: the buffers of the pool's segments that nobody refers to are
\* the free list (buffer_pool_alloc_from, buffer_ref_put).
FreeIffUnreferenced == freeList = {b \in Allocated : refcount[b] = 0}

\* A segment given back by buffer_pool_try_shrink_pool, or never created,
\* has no buffer that a holder or a view still uses.
NoUseAfterFree ==
    \A b \in Buf : holders[b] # {} \/ ViewsOf(b) # {} => b \in Allocated

\* pool->num_free and every segment->num_free, which decide growth and
\* shrinking, equal what is on the free list.
FreeCountsExact ==
    /\ numFree = Cardinality(freeList)
    /\ \A s \in Segs : segFree[s] = Cardinality(FreeOf(s))

\* The pool never grows past its maximum (or past the initial segment, when
\* the maximum is configured below it) and never shrinks below the initial
\* size, whatever mixture of capped expansions and shrinks led here.
SizeInBounds ==
    /\ numBuffers = Cardinality(Allocated)
    /\ numBuffers >= InitialBuffers
    /\ numBuffers <= Larger(InitialBuffers, MaxBuffers)

\* A batch snapshot's memfd is open only while the batch is referenced: the
\* last buffer_ref_put closes it, so neither the free list nor a segment
\* given back hides an open descriptor.
NoFdLeak == \A b \in sharedFd : b \in Allocated /\ refcount[b] > 0

\* The shrink loop goes on only above the high watermark, and a segment that
\* is not on the list has no size left.  With the properties above this is the
\* inductive invariant of the pool.
ShrinkLoop == todo # {} => numFree > HighWatermark
SegmentSizes ==
    /\ IsFiniteSet(Allocated)
    /\ \A s \in Segs :
         /\ size[s] <= Larger(InitialBuffers, ExpandSize)
         /\ s \notin segments => size[s] = 0
PoolInv ==
    /\ TypeOK /\ SegmentSizes /\ ShrinkLoop
    /\ RefcountExact /\ FreeIffUnreferenced /\ NoUseAfterFree
    /\ FreeCountsExact /\ SizeInBounds /\ NoFdLeak

\* Giving segments back never drops the free count to the low watermark, so
\* a shrink is never undone by the proactive expansion of the next allocation.
NoThrash == [][segments' \subseteq segments /\ segments' # segments
                 => numFree' > LowWatermark]_vars
=============================================================================
