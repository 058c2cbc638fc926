-------------------------------- MODULE Heap --------------------------------
(***************************************************************************)
(* One heap of memory/heap.c (kernelGlobalHeap, kernelSleepHeap,           *)
(* kernelSignalHeap or a task's heap): segments with their headers in a    *)
(* doubly linked list that runs from mainSegment, at the highest address,  *)
(* down to lastSegment, and a lower end that grows downwards by whole      *)
(* pages.  Each operation runs under heap_lock with interrupts off; the    *)
(* steps of one _malloc (search, expand_heap, search again) are separate   *)
(* here.  Addresses and lengths are in units of 0x10, to which _malloc     *)
(* rounds every size; the statistics totalSize, usedSize and freeSize are  *)
(* left out.                                                               *)
(***************************************************************************)
EXTENDS Integers, FiniteSets

CONSTANTS
    HDR,     \* sizeof(struct heap_segment_header)
    PAGE,    \* PAGESIZE
    Top,     \* first address above the heap
    Sizes    \* sizes asked for

ASSUME HeapAssumption == /\ HDR \in Nat \ {0}
                         /\ PAGE \in Nat /\ PAGE > 2 * HDR
                         /\ Top \in Nat /\ Top > PAGE
                         /\ Sizes \subseteq Nat \ {0}

VARIABLES
    segments,    \* addresses of the headers that carry HEAP_SIGNATURE
    length, free, next, last,   \* the header fields, 0 the null pointer
    heapEnd, lastSegment,
    held,        \* segments callers own, with the size they asked for
    want,        \* size _malloc is looking for, 0 outside _malloc
    tries,       \* how often it has called expand_heap
    old          \* buffer of the _realloc in progress, 0 if none

fields == <<length, free, next, last>>
vars == <<segments, fields, heapEnd, lastSegment, held, want, tries, old>>

mainSegment == Top - HDR

TypeOK ==
    /\ segments \subseteq 1..Top
    /\ length \in [segments -> Nat]
    /\ free \in [segments -> BOOLEAN]
    /\ next \in [segments -> Nat]
    /\ last \in [segments -> Nat]
    /\ heapEnd \in 1..Top
    /\ lastSegment \in segments
    /\ held \subseteq [seg : segments, size : Sizes]
    /\ want \in Sizes \cup {0}
    /\ tries \in Nat
    /\ old \in segments \cup {0}

\* _initHeap: the main segment, empty and never free, above one free segment.
Init ==
    /\ heapEnd = Top - PAGE
    /\ segments = {mainSegment, heapEnd}
    /\ length = [s \in segments |-> IF s = mainSegment THEN 0 ELSE PAGE - 2 * HDR]
    /\ free = [s \in segments |-> s # mainSegment]
    /\ next = [s \in segments |-> IF s = mainSegment THEN heapEnd ELSE 0]
    /\ last = [s \in segments |-> IF s = mainSegment THEN 0 ELSE mainSegment]
    /\ lastSegment = heapEnd
    /\ held = {}
    /\ want = 0
    /\ tries = 0
    /\ old = 0
-----------------------------------------------------------------------------
Put(f, s, v) == [f EXCEPT ![s] = v]

Fits(s, size) == free[s] /\ (length[s] > size + HDR \/ length[s] = size)

\* The first segment from mainSegment on that _malloc takes.
FirstFit(s, size) ==
    /\ Fits(s, size)
    /\ \A t \in segments : t > s => ~Fits(t, size)

\* Fault: the segment above still points to the one that was split.
splitSegment_no_relink(s, size) ==
    LET new == s + length[s] - size
        S == segments \cup {new}
    IN  /\ segments' = S
        /\ length' = [t \in S |-> IF t = new THEN size ELSE
                                  IF t = s THEN length[s] - size - HDR ELSE length[t]]
        /\ free' = [t \in S |-> IF t = new THEN FALSE ELSE free[t]]
        /\ next' = [t \in S |-> IF t = new THEN s ELSE next[t]]
        /\ last' = [t \in S |-> IF t = new THEN last[s]
                                ELSE IF t = s THEN new ELSE last[t]]
        /\ held' = held \cup {[seg |-> new, size |-> size]}

\* The upper end of segment s becomes a used segment of its own.
splitSegment(s, size) ==
    LET new == s + length[s] - size
        S == segments \cup {new}
    IN  /\ segments' = S
        /\ length' = [t \in S |-> IF t = new THEN size
                                  ELSE IF t = s THEN length[s] - size - HDR
                                  ELSE length[t]]
        /\ free' = [t \in S |-> IF t = new THEN FALSE ELSE free[t]]
        /\ next' = [t \in S |-> IF t = new THEN s
                                ELSE IF t = last[s] THEN new ELSE next[t]]
        /\ last' = [t \in S |-> IF t = new THEN last[s]
                                ELSE IF t = s THEN new ELSE last[t]]
        /\ held' = held \cup {[seg |-> new, size |-> size]}

\* Fault: the segment stays marked free.
TakeWhole_free(s, size) ==
    /\ held' = held \cup {[seg |-> s, size |-> size]}
    /\ UNCHANGED <<segments, fields>>

TakeWhole(s, size) ==
    /\ free' = Put(free, s, FALSE)
    /\ held' = held \cup {[seg |-> s, size |-> size]}
    /\ UNCHANGED <<segments, length, next, last>>

\* The search of _malloc ends at a segment that fits.
Allocate ==
    /\ want # 0
    /\ \E s \in segments :
          /\ FirstFit(s, want)
          /\ \/ length[s] > want + HDR /\ splitSegment(s, want)
             \/ length[s] = want /\ TakeWhole(s, want)
    /\ want' = 0
    /\ tries' = 0
    /\ UNCHANGED <<heapEnd, lastSegment, old>>

\* Fault: the merged segment is given the header's bytes as well.
ExpandedLength_overlong(len) ==
    IF free[lastSegment] THEN length[lastSegment] + len + HDR ELSE len

\* Fault: the new segment is only as long as the new pages.
ExpandedLength_pages(len) == len - HDR

\* A free last segment is merged into the new one (its header's HDR units are
\* given up); else the new one is linked below it.
ExpandedLength(len) ==
    (IF free[lastSegment] THEN length[lastSegment] + len ELSE len) - HDR

NewLastSegment(new) == new

\* The search fails: whole pages are mapped below the heap and the search
\* starts again.  The bound is the address space the model gives the heap.
expand_heap ==
    /\ want # 0
    /\ \A s \in segments : ~Fits(s, want)
    /\ \E len \in (want + HDR)..(want + HDR + PAGE - 1) :
          /\ len % PAGE = 0 /\ len >= PAGE
          /\ heapEnd - len > 0
          /\ heapEnd' = heapEnd - len
          /\ LET new == heapEnd - len
                 above == IF free[lastSegment] THEN last[lastSegment] ELSE lastSegment
                 S == (segments \ (IF free[lastSegment] THEN {lastSegment} ELSE {}))
                         \cup {new}
             IN  /\ segments' = S
                 /\ length' = [t \in S |-> IF t = new THEN ExpandedLength(len) ELSE length[t]]
                 /\ free' = [t \in S |-> IF t = new THEN TRUE ELSE free[t]]
                 /\ next' = [t \in S |-> IF t = new THEN 0
                                         ELSE IF t = above THEN new ELSE next[t]]
                 /\ last' = [t \in S |-> IF t = new THEN above ELSE last[t]]
                 /\ lastSegment' = NewLastSegment(new)
    /\ tries' = tries + 1
    /\ UNCHANGED <<held, want, old>>

_malloc(size) ==
    /\ want = 0 /\ old = 0
    /\ want' = size
    /\ UNCHANGED <<segments, fields, heapEnd, lastSegment, held, tries, old>>

_realloc(buffer, size) ==
    /\ want = 0 /\ old = 0
    /\ want' = size
    /\ old' = buffer
    /\ UNCHANGED <<segments, fields, heapEnd, lastSegment, held, tries>>
-----------------------------------------------------------------------------
\* The length of segment below once it has absorbed the segments above it, one
\* or two, up to and including above.
MergedLength(below, above) ==
    length[below] + length[last[below]] + HDR
        + (IF above = last[below] THEN 0 ELSE length[above] + HDR)

Merge(below, above) ==
    LET S == segments \ {last[below], above}
        len == MergedLength(below, above)
        top == last[above]
    IN  /\ segments' = S
        /\ length' = [t \in S |-> IF t = below THEN len ELSE length[t]]
        /\ free' = [t \in S |-> IF t = below THEN TRUE ELSE free[t]]
        /\ next' = [t \in S |-> IF t = top THEN below ELSE next[t]]
        /\ last' = [t \in S |-> IF t = below THEN top ELSE last[t]]

FreeBelow(s) == next[s] # 0 /\ free[next[s]]

FreeAbove(s) == last[s] # 0 /\ free[last[s]]

\* Fault: the segment above is not looked at when the one below is free.
_free_one_side(s) ==
    \/ FreeBelow(s) /\ Merge(next[s], s)
    \/ ~FreeBelow(s) /\ FreeAbove(s) /\ Merge(s, last[s])
    \/ /\ ~FreeBelow(s) /\ ~FreeAbove(s)
       /\ free' = Put(free, s, TRUE)
       /\ UNCHANGED <<segments, length, next, last>>

\* Neighbours that are free are merged with the segment.
_free(s) ==
    \/ FreeBelow(s) /\ FreeAbove(s) /\ Merge(next[s], last[s])
    \/ ~FreeBelow(s) /\ FreeAbove(s) /\ Merge(s, last[s])
    \/ FreeBelow(s) /\ ~FreeAbove(s) /\ Merge(next[s], s)
    \/ /\ ~FreeBelow(s) /\ ~FreeAbove(s)
       /\ free' = Put(free, s, TRUE)
       /\ UNCHANGED <<segments, length, next, last>>

Disown(s) == held' = {h \in held : h.seg # s}

kfree ==
    /\ want = 0 /\ old = 0
    /\ \E h \in held : _free(h.seg) /\ Disown(h.seg)
    /\ UNCHANGED <<heapEnd, lastSegment, want, tries, old>>

\* The end of _realloc: the old buffer has been copied and is freed.
ReallocFree ==
    /\ want = 0 /\ old # 0
    /\ _free(old)
    /\ Disown(old)
    /\ old' = 0
    /\ UNCHANGED <<heapEnd, lastSegment, want, tries>>

Next ==
    \/ \E size \in Sizes : _malloc(size)
    \/ \E size \in Sizes, h \in held : _realloc(h.seg, size)
    \/ Allocate \/ expand_heap \/ kfree \/ ReallocFree

Spec == Init /\ [][Next]_vars
-----------------------------------------------------------------------------
\* No two segments overlap, headers included, and none reaches outside the
\* pages mapped for the heap.
SegmentsDisjoint ==
    /\ \A s \in segments : heapEnd <= s /\ s + HDR + length[s] <= Top
    /\ \A s, t \in segments : s < t => s + HDR + length[s] <= t

\* The list is the segments in address order: ->next is the nearest segment
\* below, ->last the nearest above, and lastSegment the lowest one, which lies
\* at heapEnd, where expand_heap will continue.
ListInAddressOrder ==
    /\ lastSegment = heapEnd
    /\ mainSegment \in segments
    /\ \A s \in segments :
          /\ IF s = heapEnd THEN next[s] = 0
             ELSE /\ next[s] \in segments /\ next[s] < s
                  /\ last[next[s]] = s
          /\ IF s = mainSegment THEN last[s] = 0
             ELSE /\ last[s] \in segments /\ last[s] > s
                  /\ next[last[s]] = s
          /\ \A t \in segments : (t > s => t >= last[s]) /\ (t < s => t <= next[s])

\* A caller's block is a used segment of at least the size asked for, and no
\* other caller's.
BlocksOwned ==
    /\ \A h \in held : /\ ~free[h.seg]
                       /\ h.seg # mainSegment
                       /\ length[h.seg] >= h.size
    /\ \A g, h \in held : g.seg = h.seg => g = h
    /\ ~free[mainSegment] /\ length[mainSegment] = 0

\* _free leaves no two free neighbours, and neither does expand_heap: free
\* memory is never split in pieces each too small for a request.
Coalesced ==
    \A s \in segments : s # heapEnd => ~(free[s] /\ free[next[s]])

\* The memory a caller was given: it begins behind the header.
Payload(h) == (h.seg + HDR)..(h.seg + HDR + h.size - 1)

HeapBlock ==
    {b \in {x..(x + n - 1) : x \in 1..mainSegment, n \in Sizes} : b \subseteq 1..(mainSegment - 1)}

HeapOut == {[holder |-> "caller", units |-> Payload(h)] : h \in held}

HeapAllocator == INSTANCE Allocator WITH
    Holder <- {"caller"}, Block <- HeapBlock, out <- HeapOut

\* To its callers the heap is an allocator: whatever it splits, merges or maps
\* meanwhile, _malloc returns memory no caller holds, below the main segment,
\* kfree takes back that one block, and _realloc hands the new block out before
\* it takes back the old one.
HeapImplements == HeapAllocator!ASpec

\* The recursion of _malloc ends: after two expansions the search succeeds.
TwoExpansionsSuffice == tries <= 2
=============================================================================
