---------------------------- MODULE MemoryProofs ----------------------------
(***************************************************************************)
(* Proofs about the two allocators.  The segment structure of a heap is    *)
(* kept by every operation, for every header size, page size, heap size    *)
(* and set of request sizes.  The page frame allocator, which holds no     *)
(* lock, hands no page out twice for as long as no task is preempted in    *)
(* the Window, and reports exhaustion truthfully to a task that is not     *)
(* preempted at all, for every number of pages and of tasks.               *)
(***************************************************************************)
EXTENDS Heap, PageFrames, FiniteSetTheorems, TLAPS

\* The buffer that _realloc is moving is still its caller's.
OldOwned == old # 0 => \E h \in held : h.seg = old

Shape == SegmentsDisjoint /\ ListInAddressOrder

IInv == TypeOK /\ Shape /\ BlocksOwned /\ OldOwned

\* The structural part of the state, without the caller's side.
StructOK ==
    /\ segments \subseteq 1..Top
    /\ length \in [segments -> Nat]
    /\ free \in [segments -> BOOLEAN]
    /\ next \in [segments -> Nat]
    /\ last \in [segments -> Nat]
    /\ heapEnd \in 1..Top
    /\ lastSegment \in segments

\* What the provers need to know of the constants.
LEMMA Numbers ==
    /\ HDR \in Nat /\ HDR > 0
    /\ PAGE \in Nat /\ PAGE > 2 * HDR
    /\ Top \in Nat /\ Top > PAGE
    /\ mainSegment \in Nat /\ mainSegment > 0
    /\ \A n \in Sizes : n \in Nat /\ n > 0
BY HeapAssumption DEF mainSegment

\* _initHeap establishes the invariant.
LEMMA InitIInv == Init => IInv
<1> SUFFICES ASSUME Init PROVE IInv
  OBVIOUS
<1> USE Numbers
<1>1. /\ segments = {mainSegment, heapEnd}
      /\ heapEnd = Top - PAGE
      /\ mainSegment = Top - HDR
      /\ lastSegment = heapEnd
      /\ length = [s \in segments |-> IF s = mainSegment THEN 0 ELSE PAGE - 2 * HDR]
      /\ free = [s \in segments |-> s # mainSegment]
      /\ next = [s \in segments |-> IF s = mainSegment THEN heapEnd ELSE 0]
      /\ last = [s \in segments |-> IF s = mainSegment THEN 0 ELSE mainSegment]
  BY DEF Init, mainSegment
<1>2. heapEnd < mainSegment /\ heapEnd \in 1..Top /\ mainSegment \in 1..Top
  BY <1>1
<1>3. StructOK
  <2>1. free \in [segments -> BOOLEAN]
    BY <1>1, Zenon
  <2>2. length \in [segments -> Nat] /\ next \in [segments -> Nat] /\ last \in [segments -> Nat]
    BY <1>1, <1>2
  <2> QED
    BY <1>1, <1>2, <2>1, <2>2 DEF StructOK
<1>4. TypeOK
  BY <1>3 DEF StructOK, TypeOK, Init
<1>5. SegmentsDisjoint
  BY <1>1, <1>2 DEF SegmentsDisjoint
<1>6. ListInAddressOrder
  BY <1>1, <1>2 DEF ListInAddressOrder
<1>7. BlocksOwned /\ OldOwned
  BY ZenonT(30), <1>1, <1>2 DEF BlocksOwned, OldOwned, Init
<1> QED
  BY <1>4, <1>5, <1>6, <1>7 DEF IInv, Shape

\* Splitting a free segment that is longer than the request and a header.
LEMMA SplitShape ==
    ASSUME StructOK, Shape, NEW s \in segments, NEW size \in Nat,
           s # mainSegment, length[s] > size + HDR, splitSegment(s, size),
           UNCHANGED <<heapEnd, lastSegment>>
    PROVE  StructOK' /\ Shape'
<1> USE Numbers
<1> DEFINE new == s + length[s] - size
           above == last[s]
<1>1. /\ s \in Nat /\ length[s] \in Nat
      /\ above \in Nat /\ above \in segments /\ above > s /\ next[above] = s
      /\ new \in Nat /\ s < new /\ new + HDR + size <= above
      /\ new = s + HDR + (length[s] - size - HDR)
      /\ heapEnd <= s /\ above <= Top
  BY DEF StructOK, Shape, SegmentsDisjoint, ListInAddressOrder
<1>2. \A t \in segments : t <= s \/ t >= above
  BY <1>1 DEF Shape, ListInAddressOrder, StructOK
<1>3. new \notin segments
  BY <1>1, <1>2
<1>4. /\ segments' = segments \cup {new}
      /\ length' = [t \in segments \cup {new} |->
            IF t = new THEN size ELSE IF t = s THEN length[s] - size - HDR ELSE length[t]]
      /\ free' = [t \in segments \cup {new} |-> IF t = new THEN FALSE ELSE free[t]]
      /\ next' = [t \in segments \cup {new} |->
            IF t = new THEN s ELSE IF t = above THEN new ELSE next[t]]
      /\ last' = [t \in segments \cup {new} |->
            IF t = new THEN above ELSE IF t = s THEN new ELSE last[t]]
      /\ heapEnd' = heapEnd /\ lastSegment' = lastSegment
  BY DEF splitSegment
<1> HIDE DEF new, above
<1>5. StructOK'
  <2>1. free' \in [segments' -> BOOLEAN]
    BY ZenonT(30), <1>4 DEF StructOK
  <2>2. segments' \subseteq 1..Top
    <3>1. new \in 1..Top
      BY <1>1
    <3> QED
      BY <3>1, <1>4 DEF StructOK
  <2>3. length[s] - size - HDR \in Nat
    BY <1>1
  <2>4. length' \in [segments' -> Nat]
    BY ZenonT(30), <1>4, <2>3 DEF StructOK
  <2>5. next' \in [segments' -> Nat] /\ last' \in [segments' -> Nat]
    BY ZenonT(30), <1>1, <1>4 DEF StructOK
  <2> QED
    BY ZenonT(30), <1>4, <2>1, <2>2, <2>4, <2>5 DEF StructOK
<1>6. SegmentsDisjoint'
  BY <1>1, <1>2, <1>3, <1>4 DEF StructOK, Shape, SegmentsDisjoint
<1>7. ListInAddressOrder'
  BY <1>1, <1>2, <1>3, <1>4 DEF StructOK, Shape, ListInAddressOrder
<1> QED
  BY <1>5, <1>6, <1>7 DEF Shape
\* New pages below the heap, with or without a free last segment to merge.
LEMMA ExpandShape ==
    ASSUME StructOK, Shape, ~free[mainSegment], expand_heap, want \in Sizes
    PROVE  /\ StructOK' /\ Shape'
           /\ segments \subseteq segments' \cup {lastSegment}
           /\ free[lastSegment] \/ segments \subseteq segments'
           /\ free'[lastSegment'] /\ lastSegment' \notin segments
           /\ \A t \in segments' :
                 t # lastSegment' => length'[t] = length[t] /\ free'[t] = free[t]
<1> USE Numbers
<1>1. PICK len \in (want + HDR)..(want + HDR + PAGE - 1) :
        /\ len >= PAGE
        /\ heapEnd - len > 0
        /\ heapEnd' = heapEnd - len
        /\ LET new == heapEnd - len
               above == IF free[lastSegment] THEN last[lastSegment] ELSE lastSegment
               S == (segments \ (IF free[lastSegment] THEN {lastSegment} ELSE {}))
                       \cup {new}
           IN  /\ segments' = S
               /\ length' = [t \in S |-> IF t = new THEN ExpandedLength(len) ELSE length[t]]
               /\ free' = [t \in S |-> IF t = new THEN TRUE ELSE free[t]]
               /\ next' = [t \in S |-> IF t = new THEN 0
                                       ELSE IF t = above THEN new ELSE next[t]]
               /\ last' = [t \in S |-> IF t = new THEN above ELSE last[t]]
               /\ lastSegment' = new
  BY ZenonT(30) DEF expand_heap, NewLastSegment
<1> DEFINE new == heapEnd - len
           above == IF free[lastSegment] THEN last[lastSegment] ELSE lastSegment
           S == (segments \ (IF free[lastSegment] THEN {lastSegment} ELSE {})) \cup {new}
           n == ExpandedLength(len)
<1>2. /\ heapEnd \in Nat /\ len \in Nat /\ len > 2 * HDR
      /\ new \in Nat /\ new > 0 /\ new + len = heapEnd
      /\ lastSegment = heapEnd /\ lastSegment \in segments
      /\ length[lastSegment] \in Nat
  BY <1>1 DEF StructOK, Shape, ListInAddressOrder
<1>3. free[lastSegment] => lastSegment # mainSegment
  OBVIOUS
<1>4. /\ above \in segments /\ above \in Nat /\ above >= heapEnd /\ above \in S
      /\ next[above] = IF free[lastSegment] THEN lastSegment ELSE 0
  BY <1>2, <1>3 DEF StructOK, Shape, ListInAddressOrder
<1>5. n \in Nat /\ new + HDR + n <= above
  BY <1>2, <1>3, <1>4 DEF ExpandedLength, Shape, SegmentsDisjoint, ListInAddressOrder
<1>6. \A t \in segments : t >= heapEnd /\ t \in Nat /\ t # new /\ new < t
  BY <1>2 DEF Shape, SegmentsDisjoint, StructOK
<1>7. \A t \in S : t = new \/ (t \in segments /\ t >= above)
  BY <1>2, <1>4, <1>6 DEF Shape, ListInAddressOrder
<1>8. /\ segments' = S
      /\ length' = [t \in S |-> IF t = new THEN n ELSE length[t]]
      /\ free' = [t \in S |-> IF t = new THEN TRUE ELSE free[t]]
      /\ next' = [t \in S |-> IF t = new THEN 0 ELSE IF t = above THEN new ELSE next[t]]
      /\ last' = [t \in S |-> IF t = new THEN above ELSE last[t]]
      /\ heapEnd' = new /\ lastSegment' = new
  BY <1>1
<1>9. S \subseteq segments \cup {new} /\ new \in S /\ segments \ {lastSegment} \subseteq S
  OBVIOUS
<1>10. free[lastSegment] \/ segments \subseteq S
  OBVIOUS
<1>11. mainSegment \in S
  BY <1>3 DEF Shape, ListInAddressOrder
<1>12. \A t \in S : t # new /\ t # above => next[t] \in S
  BY <1>2, <1>3, <1>4, <1>9, <1>10 DEF Shape, ListInAddressOrder
<1>13. \A t \in S : t # new /\ t # mainSegment => last[t] \in S /\ last[t] > above
  <2> SUFFICES ASSUME NEW t \in S, t # new, t # mainSegment
               PROVE  last[t] \in S /\ last[t] > above
    OBVIOUS
  <2>1. t \in segments /\ t >= above /\ t \in Nat
    BY <1>6, <1>7
  <2>2. last[t] \in segments /\ last[t] > t
    BY <2>1 DEF Shape, ListInAddressOrder
  <2>3. last[t] \in Nat
    BY <2>2, <1>6
  <2>4. last[t] # lastSegment
    BY <2>1, <2>2, <2>3, <1>2, <1>4
  <2> QED
    BY <2>1, <2>2, <2>3, <2>4, <1>4, <1>9
<1> HIDE DEF new, above, S, n
<1>14. StructOK'
  <2>1. segments' \subseteq 1..Top
    <3>1. new \in 1..Top
      BY <1>2 DEF StructOK
    <3> QED
      BY <3>1, <1>8, <1>9 DEF StructOK
  <2>2. free' \in [segments' -> BOOLEAN]
    BY ZenonT(30), <1>8, <1>9 DEF StructOK
  <2>3. length' \in [segments' -> Nat]
    BY <1>5, <1>8, <1>9 DEF StructOK
  <2>4. next' \in [segments' -> Nat] /\ last' \in [segments' -> Nat]
    BY <1>2, <1>4, <1>8, <1>9 DEF StructOK
  <2>5. heapEnd' \in 1..Top
    BY <1>2, <1>8 DEF StructOK
  <2> QED
    BY ZenonT(30), <1>8, <1>9, <2>1, <2>2, <2>3, <2>4, <2>5 DEF StructOK
<1>15. SegmentsDisjoint'
  BY <1>2, <1>4, <1>5, <1>6, <1>7, <1>8, <1>9 DEF Shape, SegmentsDisjoint, StructOK
<1>16. ListInAddressOrder'
  <2> SUFFICES ASSUME NEW t \in S
               PROVE  /\ IF t = new THEN next'[t] = 0
                         ELSE /\ next'[t] \in S /\ next'[t] < t /\ last'[next'[t]] = t
                      /\ IF t = mainSegment THEN last'[t] = 0
                         ELSE /\ last'[t] \in S /\ last'[t] > t /\ next'[last'[t]] = t
                      /\ \A u \in S : (u > t => u >= last'[t]) /\ (u < t => u <= next'[t])
    BY ZenonT(30), <1>8, <1>11 DEF ListInAddressOrder, mainSegment
  <2>1. t = new \/ (t \in segments /\ t \in Nat /\ t >= above)
    BY <1>6, <1>7
  <2>2. CASE t = new
    <3>1. new # mainSegment /\ above # new
      BY <1>4, <1>6 DEF Shape, ListInAddressOrder
    <3>2. next'[new] = 0 /\ last'[new] = above /\ next'[above] = new
      BY <1>4, <1>8, <1>9, <3>1
    <3>3. \A u \in S : u > new => u >= above
      BY <1>2, <1>7
    <3>4. \A u \in S : ~(u < new)
      BY <1>2, <1>4, <1>6, <1>7
    <3> QED
      BY <2>2, <1>2, <1>4, <3>1, <3>2, <3>3, <3>4
  <2>3. CASE t # new /\ t = above
    <3>1. next'[t] = new /\ last'[new] = t /\ last'[t] = last[t] /\ new < t
      BY <2>3, <1>2, <1>4, <1>8, <1>9
    <3>2. t # mainSegment => next'[last[t]] = t /\ last[t] > t /\ last[t] \in S
      BY <2>1, <2>3, <1>2, <1>4, <1>6, <1>8, <1>13 DEF Shape, ListInAddressOrder
    <3>3. t = mainSegment => last[t] = 0
      BY <2>3, <1>4 DEF Shape, ListInAddressOrder
    <3>4. \A u \in S : (u > t => u >= last[t]) /\ (u < t => u <= new)
      <4>1. \A u \in S : u > t => u \in segments
        BY <3>1, <1>2, <1>4, <1>7, <2>3
      <4>2. \A u \in S : u < t => u = new
        BY <1>4, <1>6, <1>7, <2>3
      <4>3. \A u \in segments : u > t => u >= last[t]
        BY <2>3, <1>4 DEF Shape, ListInAddressOrder
      <4>4. new \in Nat /\ new <= new
        <5>1. new \in Nat
          BY <1>2
        <5> QED
          BY <5>1
      <4> QED
        BY <4>1, <4>2, <4>3, <4>4
    <3> QED
      BY <2>3, <1>9, <3>1, <3>2, <3>3, <3>4
  <2>4. CASE t # new /\ t # above
    <3>1. t \in segments /\ t \in Nat /\ t > above /\ t # heapEnd
      BY <2>1, <2>4, <1>2, <1>4
    <3>2. /\ next[t] \in segments /\ next[t] \in S /\ next[t] < t /\ last[next[t]] = t
          /\ next[t] # new
      BY ZenonT(30), <3>1, <2>4, <1>6, <1>12 DEF Shape, ListInAddressOrder
    <3>3. next'[t] = next[t] /\ last'[t] = last[t] /\ last'[next[t]] = t
      BY <2>4, <3>2, <1>8
    <3>4. t # mainSegment => /\ next'[last[t]] = t /\ last[t] > t /\ last[t] \in S
      <4>1. SUFFICES ASSUME t # mainSegment
                     PROVE  /\ next'[last[t]] = t /\ last[t] > t /\ last[t] \in S
        OBVIOUS
      <4>2. last[t] \in S /\ last[t] > above
        BY <4>1, <2>4, <1>13
      <4>3. last[t] \in segments /\ last[t] > t /\ next[last[t]] = t
        BY <4>1, <3>1 DEF Shape, ListInAddressOrder
      <4>4. last[t] # new /\ last[t] # above
        BY <4>2, <4>3, <1>4, <1>6, <1>2
      <4> QED
        BY <4>2, <4>3, <4>4, <1>8
    <3>5. t = mainSegment => last[t] = 0
      BY <3>1 DEF Shape, ListInAddressOrder
    <3>6. \A u \in S : u > t => u >= last[t]
      BY <3>1, <1>2, <1>4, <1>6, <1>7 DEF Shape, ListInAddressOrder
    <3>7. \A u \in S : u < t => u <= next[t]
      <4>1. new <= next[t]
        <5>1. next[t] \in Nat /\ new < next[t]
          BY <3>2, <1>6
        <5>2. new \in Nat
          BY <1>2
        <5> QED
          BY <5>1, <5>2
      <4>2. \A u \in segments : u < t => u <= next[t]
        BY <3>1 DEF Shape, ListInAddressOrder
      <4> QED
        BY <4>1, <4>2, <1>9
    <3> QED
      BY <2>4, <3>2, <3>3, <3>4, <3>5, <3>6, <3>7
  <2> QED
    BY <2>2, <2>3, <2>4
<1> QED
  BY <1>6, <1>8, <1>9, <1>10, <1>14, <1>15, <1>16 DEF Shape

\* A segment absorbs its one or two neighbours above it, as _free does with
\* free neighbours.
LEMMA MergeShape ==
    ASSUME StructOK, Shape, NEW below \in segments, NEW above \in segments,
           below # mainSegment, above # mainSegment,
           \/ above = last[below]
           \/ last[below] # mainSegment /\ above = last[last[below]],
           Merge(below, above), UNCHANGED <<heapEnd, lastSegment>>
    PROVE  StructOK' /\ Shape'
<1> USE Numbers
<1> DEFINE mid == last[below]
           top == last[above]
           S == segments \ {mid, above}
           len == MergedLength(below, above)
<1>1. /\ below \in Nat /\ mid \in Nat /\ above \in Nat /\ top \in Nat
      /\ mid \in segments /\ top \in segments
      /\ below < mid /\ mid <= above /\ above < top /\ heapEnd <= below
      /\ next[top] = above
  BY DEF StructOK, Shape, SegmentsDisjoint, ListInAddressOrder
<1>2. \A t \in segments : t <= below \/ t = mid \/ t = above \/ t >= top
  BY <1>1 DEF Shape, ListInAddressOrder, StructOK
<1>3. len \in Nat /\ below + HDR + len <= top
  <2>1. length[below] \in Nat /\ length[mid] \in Nat /\ length[above] \in Nat
    BY <1>1 DEF StructOK
  <2>2. below + HDR + length[below] <= mid
    BY <1>1 DEF Shape, SegmentsDisjoint
  <2>3. above + HDR + length[above] <= top
    BY <1>1 DEF Shape, SegmentsDisjoint
  <2>4. mid # above => mid + HDR + length[mid] <= above
    BY <1>1 DEF Shape, SegmentsDisjoint
  <2> QED
    BY <1>1, <2>1, <2>2, <2>3, <2>4 DEF MergedLength
<1>4. /\ segments' = S
      /\ length' = [t \in S |-> IF t = below THEN len ELSE length[t]]
      /\ free' = [t \in S |-> IF t = below THEN TRUE ELSE free[t]]
      /\ next' = [t \in S |-> IF t = top THEN below ELSE next[t]]
      /\ last' = [t \in S |-> IF t = below THEN top ELSE last[t]]
      /\ heapEnd' = heapEnd /\ lastSegment' = lastSegment
  BY DEF Merge
<1>5. \A t \in S : /\ t \in segments /\ t \in Nat /\ t # mid /\ t # above
                   /\ t <= below \/ t >= top
  BY <1>2 DEF StructOK
<1>6. below \in S /\ top \in S /\ lastSegment \in S /\ mainSegment \in S
  <2>1. mid # mainSegment /\ mainSegment \in segments /\ lastSegment = heapEnd
    BY DEF Shape, ListInAddressOrder
  <2>2. lastSegment \in segments /\ lastSegment \in Nat /\ top \in segments
    BY <1>1 DEF StructOK
  <2>3. below # mid /\ below # above /\ top # mid /\ top # above
    BY <1>1
  <2>4. lastSegment # mid /\ lastSegment # above
    BY <1>1, <2>1, <2>2
  <2> QED
    BY <2>1, <2>2, <2>3, <2>4
<1>7. \A t \in segments : t <= below \/ t >= top => t \in S
  BY <1>1
<1> HIDE DEF mid, top, S, len
<1>8. StructOK'
  <2>1. segments' \subseteq 1..Top
    BY <1>4, <1>5 DEF StructOK
  <2>2. free' \in [segments' -> BOOLEAN]
    BY ZenonT(30), <1>4, <1>5 DEF StructOK
  <2>3. length' \in [segments' -> Nat]
    BY <1>3, <1>4, <1>5 DEF StructOK
  <2>4. next' \in [segments' -> Nat] /\ last' \in [segments' -> Nat]
    BY <1>1, <1>4, <1>5 DEF StructOK
  <2> QED
    BY ZenonT(30), <1>4, <1>6, <2>1, <2>2, <2>3, <2>4 DEF StructOK
<1>9. SegmentsDisjoint'
  BY <1>1, <1>3, <1>4, <1>5, <1>6 DEF Shape, SegmentsDisjoint, StructOK
<1>10. ListInAddressOrder'
  <2> SUFFICES ASSUME NEW t \in S
               PROVE  /\ IF t = heapEnd THEN next'[t] = 0
                         ELSE /\ next'[t] \in S /\ next'[t] < t /\ last'[next'[t]] = t
                      /\ IF t = mainSegment THEN last'[t] = 0
                         ELSE /\ last'[t] \in S /\ last'[t] > t /\ next'[last'[t]] = t
                      /\ \A u \in S : (u > t => u >= last'[t]) /\ (u < t => u <= next'[t])
    BY <1>4, <1>6 DEF ListInAddressOrder, Shape
  <2>1. /\ IF t = heapEnd THEN next[t] = 0
           ELSE /\ next[t] \in segments /\ next[t] \in Nat /\ next[t] < t /\ last[next[t]] = t
        /\ IF t = mainSegment THEN last[t] = 0
           ELSE /\ last[t] \in segments /\ last[t] \in Nat /\ last[t] > t /\ next[last[t]] = t
        /\ \A u \in segments : (u > t => u >= last[t]) /\ (u < t => u <= next[t])
    BY ZenonT(30), <1>5 DEF Shape, ListInAddressOrder, StructOK
  <2>2. CASE t = below
    <3>1. /\ next'[t] = next[t] /\ last'[t] = top /\ next'[top] = t
      BY <2>2, <1>1, <1>4, <1>6
    <3>2. t # heapEnd => next[t] \in S /\ last'[next[t]] = t
      BY <2>1, <2>2, <1>1, <1>4, <1>7
    <3> QED
      BY <2>1, <2>2, <3>1, <3>2, <1>1, <1>5, <1>6
  <2>3. CASE t = top
    <3>1. /\ next'[t] = below /\ last'[t] = last[t] /\ last'[below] = t /\ t # heapEnd
      BY <2>3, <1>1, <1>4, <1>6
    <3>2. t # mainSegment => last[t] \in S /\ next'[last[t]] = t
      BY <2>1, <2>3, <1>1, <1>4, <1>7
    <3> QED
      BY <2>1, <2>3, <3>1, <3>2, <1>1, <1>5, <1>6
  <2>4. CASE t # below /\ t # top
    <3>1. next'[t] = next[t] /\ last'[t] = last[t]
      BY <2>4, <1>4
    <3>2. t # heapEnd => next[t] \in S /\ last'[next[t]] = t
      <4> SUFFICES ASSUME t # heapEnd PROVE next[t] \in S /\ last'[next[t]] = t
        OBVIOUS
      <4>1. next[t] <= below \/ next[t] >= top
        BY <2>1, <2>4, <1>1, <1>5
      <4>2. next[t] # below
        BY <2>1, <1>5 DEF mid
      <4> QED
        BY <2>1, <4>1, <4>2, <1>4, <1>7
    <3>3. t # mainSegment => last[t] \in S /\ next'[last[t]] = t
      <4> SUFFICES ASSUME t # mainSegment PROVE last[t] \in S /\ next'[last[t]] = t
        OBVIOUS
      <4>1. last[t] <= below \/ last[t] >= top
        BY <2>1, <2>4, <1>1, <1>5
      <4>2. last[t] # top
        BY <2>1, <1>1, <1>5
      <4> QED
        BY <2>1, <4>1, <4>2, <1>4, <1>7
    <3> QED
      BY <2>1, <3>1, <3>2, <3>3, <1>5
  <2> QED
    BY <2>2, <2>3, <2>4
<1> QED
  BY <1>8, <1>9, <1>10 DEF Shape

\* Freeing a used segment keeps the structure and every other used segment.
LEMMA FreeShape ==
    ASSUME StructOK, Shape, ~free[mainSegment],
           NEW s \in segments, ~free[s], s # mainSegment,
           _free(s), UNCHANGED <<heapEnd, lastSegment>>
    PROVE  /\ StructOK' /\ Shape'
           /\ \A t \in segments : ~free[t] /\ t # s =>
                 t \in segments' /\ length'[t] = length[t] /\ ~free'[t]
<1> USE Numbers
<1>1. /\ last[s] \in segments /\ last[s] > s /\ next[last[s]] = s /\ s \in Nat
      /\ s # heapEnd => next[s] \in segments /\ next[s] < s /\ last[next[s]] = s
      /\ s = heapEnd => next[s] = 0
  BY DEF StructOK, Shape, ListInAddressOrder
<1>2. FreeBelow(s) => /\ next[s] \in segments /\ next[s] < s /\ last[next[s]] = s
                      /\ free[next[s]] /\ next[s] # mainSegment
  BY <1>1 DEF FreeBelow
<1>3. FreeAbove(s) => free[last[s]] /\ last[s] # mainSegment
  BY DEF FreeAbove
<1>4. CASE FreeBelow(s) /\ FreeAbove(s) /\ Merge(next[s], last[s])
  <2>1. StructOK' /\ Shape'
    BY ZenonT(30), <1>1, <1>2, <1>3, <1>4, MergeShape
  <2> QED
    BY ZenonT(30), <1>1, <1>2, <1>3, <1>4, <2>1 DEF Merge
<1>5. CASE ~FreeBelow(s) /\ FreeAbove(s) /\ Merge(s, last[s])
  <2>1. StructOK' /\ Shape'
    BY ZenonT(30), <1>1, <1>3, <1>5, MergeShape
  <2> QED
    BY ZenonT(30), <1>1, <1>3, <1>5, <2>1 DEF Merge
<1>6. CASE FreeBelow(s) /\ ~FreeAbove(s) /\ Merge(next[s], s)
  <2>1. StructOK' /\ Shape'
    BY ZenonT(30), <1>1, <1>2, <1>6, MergeShape
  <2> QED
    BY ZenonT(30), <1>1, <1>2, <1>6, <2>1 DEF Merge
<1>7. CASE free' = Put(free, s, TRUE) /\ UNCHANGED <<segments, length, next, last>>
  <2>1. free' \in [segments' -> BOOLEAN]
    BY <1>7 DEF Put, StructOK
  <2>2. StructOK'
    BY ZenonT(30), <1>7, <2>1 DEF StructOK
  <2>3. Shape'
    BY <1>7 DEF Shape, SegmentsDisjoint, ListInAddressOrder, mainSegment
  <2> QED
    BY <1>7, <2>2, <2>3 DEF Put, StructOK
<1> QED
  BY ZenonT(30), <1>4, <1>5, <1>6, <1>7 DEF _free

\* What a step keeps of the segments in use is enough for their owners.
LEMMA OwnersKept ==
    ASSUME IInv, NEW gone \in Nat,
           \A t \in segments : ~free[t] /\ t # gone =>
                 t \in segments' /\ length'[t] = length[t] /\ ~free'[t],
           \A h \in held' : h \in held /\ h.seg # gone, gone # mainSegment
    PROVE  /\ BlocksOwned'
           /\ held' \subseteq [seg : segments', size : Sizes]
<1>1. \A h \in held' : /\ h.seg \in segments /\ ~free[h.seg] /\ h.seg # gone
                       /\ h.seg # mainSegment /\ h \in [seg : segments, size : Sizes]
                       /\ length[h.seg] >= h.size
  BY DEF IInv, TypeOK, BlocksOwned
<1>2. \A h \in held' : /\ h.seg \in segments' /\ ~free'[h.seg] /\ h.seg # mainSegment
                       /\ length'[h.seg] >= h.size
                       /\ h \in [seg : segments', size : Sizes]
  BY <1>1
<1>3. mainSegment \in segments /\ ~free[mainSegment] /\ length[mainSegment] = 0
  BY DEF IInv, BlocksOwned, Shape, ListInAddressOrder
<1>4. ~free'[mainSegment] /\ length'[mainSegment] = 0
  BY <1>3
<1>5. \A g, h \in held' : g.seg = h.seg => g = h
  BY DEF IInv, BlocksOwned
<1> QED
  BY <1>2, <1>4, <1>5 DEF BlocksOwned, mainSegment

\* A block that is handed out was in no caller's hands.
LEMMA OwnerAdded ==
    ASSUME IInv, NEW size \in Sizes, NEW b \in segments',
           b \in segments => free[b], b # mainSegment,
           ~free'[b], length'[b] = size,
           \A t \in segments : ~free[t] =>
                 t \in segments' /\ length'[t] = length[t] /\ ~free'[t],
           held' = held \cup {[seg |-> b, size |-> size]}
    PROVE  /\ BlocksOwned'
           /\ held' \subseteq [seg : segments', size : Sizes]
<1> USE Numbers
<1>1. \A h \in held : /\ h.seg \in segments /\ ~free[h.seg]
                      /\ h.seg # mainSegment /\ h \in [seg : segments, size : Sizes]
                      /\ length[h.seg] >= h.size
  BY DEF IInv, TypeOK, BlocksOwned
<1>2. \A h \in held : /\ h.seg \in segments' /\ ~free'[h.seg] /\ h.seg # mainSegment
                      /\ length'[h.seg] >= h.size /\ h.seg # b
                      /\ h \in [seg : segments', size : Sizes]
  BY <1>1
<1>3. ~free'[mainSegment] /\ length'[mainSegment] = 0
  BY DEF IInv, BlocksOwned, Shape, ListInAddressOrder
<1>4. \A g, h \in held' : g.seg = h.seg => g = h
  BY <1>2 DEF IInv, BlocksOwned
<1>5. size >= size
  OBVIOUS
<1> QED
  BY <1>2, <1>3, <1>4, <1>5 DEF BlocksOwned, mainSegment

\* The search of _malloc ends in a split or in taking a whole segment.
LEMMA AllocateIInv == IInv /\ Allocate => IInv'
<1> SUFFICES ASSUME IInv, Allocate PROVE IInv'
  OBVIOUS
<1> USE Numbers
<1>1. PICK s \in segments :
         /\ free[s]
         /\ \/ length[s] > want + HDR /\ splitSegment(s, want)
            \/ length[s] = want /\ TakeWhole(s, want)
  BY DEF Allocate, FirstFit, Fits
<1>2. /\ StructOK /\ Shape /\ ~free[mainSegment] /\ s # mainSegment
      /\ want \in Sizes /\ want \in Nat
      /\ want' = 0 /\ tries' = 0 /\ old' = old
      /\ UNCHANGED <<heapEnd, lastSegment>>
  BY <1>1 DEF IInv, TypeOK, StructOK, BlocksOwned, Allocate
<1>3. StructOK' /\ Shape' /\ BlocksOwned' /\ held' \subseteq [seg : segments', size : Sizes]
      /\ held \subseteq held'
  <2>1. CASE length[s] > want + HDR /\ splitSegment(s, want)
    <3> DEFINE b == s + length[s] - want
    <3>1. StructOK' /\ Shape'
      BY <1>2, <2>1, SplitShape
    <3>2. /\ s \in Nat /\ length[s] \in Nat /\ last[s] \in segments /\ last[s] \in Nat
          /\ \A t \in segments : t <= s \/ t >= last[s]
          /\ s + HDR + length[s] <= last[s] /\ mainSegment \in segments
      BY <1>2 DEF StructOK, Shape, SegmentsDisjoint, ListInAddressOrder
    <3>3. b \notin segments /\ b # mainSegment /\ b # s
      BY <1>2, <2>1, <3>2
    <3>4. /\ segments' = segments \cup {b} /\ b \in segments'
          /\ ~free'[b] /\ length'[b] = want
          /\ \A t \in segments : ~free[t] =>
                t \in segments' /\ length'[t] = length[t] /\ ~free'[t]
          /\ held' = held \cup {[seg |-> b, size |-> want]}
      BY <1>1, <2>1, <3>3 DEF splitSegment
    <3> HIDE DEF b
    <3> QED
      BY <1>2, <3>1, <3>3, <3>4, OwnerAdded
  <2>2. CASE length[s] = want /\ TakeWhole(s, want)
    <3>1. /\ UNCHANGED <<segments, length, next, last>>
          /\ free' = [free EXCEPT ![s] = FALSE]
          /\ held' = held \cup {[seg |-> s, size |-> want]}
      BY <2>2 DEF TakeWhole, Put
    <3>2. free' \in [segments' -> BOOLEAN]
      BY <1>2, <3>1 DEF StructOK
    <3>3. StructOK'
      BY ZenonT(30), <1>2, <3>1, <3>2 DEF StructOK
    <3>4. Shape'
      BY <1>2, <3>1 DEF Shape, SegmentsDisjoint, ListInAddressOrder, mainSegment
    <3>5. ~free'[s] /\ \A t \in segments : ~free[t] =>
                t \in segments' /\ length'[t] = length[t] /\ ~free'[t]
      BY <1>2, <3>1 DEF StructOK
    <3> QED
      BY <1>1, <1>2, <2>2, <3>1, <3>3, <3>4, <3>5, OwnerAdded
  <2> QED
    BY <1>1, <2>1, <2>2
<1>4. OldOwned'
  BY <1>2, <1>3 DEF IInv, OldOwned
<1>5. old' \in segments' \cup {0}
  BY <1>3, <1>4 DEF OldOwned
<1> QED
  BY <1>2, <1>3, <1>4, <1>5 DEF IInv, TypeOK, StructOK

\* kfree and the end of _realloc free a block that a caller owns.
LEMMA FreeIInv ==
    ASSUME IInv, NEW s \in segments, \E h \in held : h.seg = s,
           _free(s), Disown(s), old' = 0,
           UNCHANGED <<heapEnd, lastSegment, want, tries>>
    PROVE  IInv'
<1> USE Numbers
<1>1. /\ StructOK /\ Shape /\ ~free[mainSegment] /\ ~free[s] /\ s # mainSegment
      /\ s \in Nat
  BY SMTT(30) DEF IInv, TypeOK, StructOK, BlocksOwned
<1>2. /\ StructOK' /\ Shape'
      /\ \A t \in segments : ~free[t] /\ t # s =>
            t \in segments' /\ length'[t] = length[t] /\ ~free'[t]
  BY ZenonT(30), <1>1, FreeShape
<1>3. \A h \in held' : h \in held /\ h.seg # s
  BY ZenonT(30) DEF Disown
<1>4. BlocksOwned' /\ held' \subseteq [seg : segments', size : Sizes]
  BY <1>1, <1>2, <1>3, OwnersKept
<1>5. OldOwned'
  BY DEF OldOwned
<1>6. want \in Sizes \cup {0} /\ tries \in Nat
  BY DEF IInv, TypeOK
<1> QED
  BY <1>2, <1>4, <1>5, <1>6 DEF IInv, TypeOK, StructOK

\* Every step of every operation keeps the invariant.
LEMMA NextIInv == IInv /\ [Next]_vars => IInv'
<1> SUFFICES ASSUME IInv, [Next]_vars PROVE IInv'
  BY ZenonT(30)
<1> USE Numbers
<1>1. ASSUME NEW size \in Sizes, _malloc(size) PROVE IInv'
  BY ZenonT(30), <1>1 DEF _malloc, fields, IInv, TypeOK, Shape, SegmentsDisjoint,
              ListInAddressOrder, BlocksOwned, OldOwned, mainSegment
<1>2. ASSUME NEW size \in Sizes, NEW h \in held, _realloc(h.seg, size) PROVE IInv'
  <2>1. h.seg \in segments
    BY DEF IInv, TypeOK
  <2> QED
    BY <1>2, <2>1 DEF _realloc, fields, IInv, TypeOK, Shape, SegmentsDisjoint,
                      ListInAddressOrder, BlocksOwned, OldOwned, mainSegment
<1>3. CASE Allocate
  BY <1>3, AllocateIInv
<1>4. CASE expand_heap
  <2>1. /\ StructOK /\ Shape /\ ~free[mainSegment] /\ want \in Sizes
        /\ want' = want /\ tries' = tries + 1 /\ old' = old /\ held' = held
        /\ tries \in Nat
    BY <1>4 DEF IInv, TypeOK, StructOK, BlocksOwned, expand_heap
  <2>2. /\ StructOK' /\ Shape'
        /\ segments \subseteq segments' \cup {lastSegment}
        /\ free[lastSegment] \/ segments \subseteq segments'
        /\ lastSegment' \notin segments
        /\ \A t \in segments' :
              t # lastSegment' => length'[t] = length[t] /\ free'[t] = free[t]
    BY <1>4, <2>1, ExpandShape
  <2>3. \A t \in segments : ~free[t] /\ t # 0 =>
           t \in segments' /\ length'[t] = length[t] /\ ~free'[t]
    BY <2>2
  <2>4. \A h \in held' : h \in held /\ h.seg # 0
    BY <2>1 DEF IInv, TypeOK
  <2>5. BlocksOwned' /\ held' \subseteq [seg : segments', size : Sizes]
    BY <2>3, <2>4, OwnersKept
  <2>6. OldOwned'
    BY <2>1 DEF IInv, OldOwned
  <2>7. old' \in segments' \cup {0}
    BY <2>5, <2>6 DEF OldOwned
  <2> QED
    BY <2>1, <2>2, <2>5, <2>6, <2>7 DEF IInv, TypeOK, StructOK
<1>5. CASE kfree
  <2>1. PICK h \in held : _free(h.seg) /\ Disown(h.seg)
    BY <1>5 DEF kfree
  <2>2. h.seg \in segments
    BY DEF IInv, TypeOK
  <2>3. old' = 0 /\ UNCHANGED <<heapEnd, lastSegment, want, tries>>
    BY <1>5 DEF kfree
  <2> QED
    BY <2>1, <2>2, <2>3, FreeIInv
<1>6. CASE ReallocFree
  <2>1. old \in segments /\ \E h \in held : h.seg = old
    BY <1>6 DEF ReallocFree, IInv, TypeOK, OldOwned
  <2>2. /\ _free(old) /\ Disown(old) /\ old' = 0
        /\ UNCHANGED <<heapEnd, lastSegment, want, tries>>
    BY ZenonT(30), <1>6 DEF ReallocFree
  <2> QED
    BY <2>1, <2>2, FreeIInv
<1>7. CASE UNCHANGED vars
  BY <1>7 DEF vars, fields, IInv, TypeOK, Shape, SegmentsDisjoint,
              ListInAddressOrder, BlocksOwned, OldOwned, mainSegment
<1> QED
  BY <1>1, <1>2, <1>3, <1>4, <1>5, <1>6, <1>7 DEF Next

\* The invariant holds in every state of the heap.
LEMMA Invariant == Spec => []IInv
BY InitIInv, NextIInv, PTL DEF Spec

\* The header fields keep their types, and callers own only segments.
THEOREM TypeCorrect == Spec => []TypeOK
<1>1. IInv => TypeOK
  BY DEF IInv
<1> QED
  BY <1>1, Invariant, PTL

\* Splits, merges and expansions never make two segments overlap.
THEOREM NoOverlap == Spec => []SegmentsDisjoint
<1>1. IInv => SegmentsDisjoint
  BY DEF IInv, Shape
<1> QED
  BY <1>1, Invariant, PTL

\* The links that splitSegment, expand_heap and the merges of _free patch
\* always form the list of segments in address order.
THEOREM ListIsOrdered == Spec => []ListInAddressOrder
<1>1. IInv => ListInAddressOrder
  BY DEF IInv, Shape
<1> QED
  BY <1>1, Invariant, PTL

\* What _malloc hands out stays its caller's alone until it is freed.
THEOREM OwnersAreAlone == Spec => []BlocksOwned
<1>1. IInv => BlocksOwned
  BY DEF IInv
<1> QED
  BY <1>1, Invariant, PTL
-----------------------------------------------------------------------------
\* A segment is merged between two that are not free.
LEMMA MergeCoalesces ==
    ASSUME StructOK, Shape, Coalesced, NEW below \in segments, NEW above \in segments,
           below # mainSegment, above # mainSegment,
           \/ above = last[below]
           \/ last[below] # mainSegment /\ above = last[last[below]],
           ~free[last[above]], below # heapEnd => ~free[next[below]],
           Merge(below, above), UNCHANGED heapEnd
    PROVE  Coalesced'
<1> USE Numbers
<1> DEFINE mid == last[below]
           top == last[above]
           S == segments \ {mid, above}
<1>1. /\ below \in Nat /\ mid \in Nat /\ above \in Nat /\ top \in Nat
      /\ mid \in segments /\ top \in segments
      /\ below < mid /\ mid <= above /\ above < top /\ heapEnd <= below
      /\ next[top] = above /\ next[mid] = below /\ above # mid => next[above] = mid
  BY DEF StructOK, Shape, SegmentsDisjoint, ListInAddressOrder
<1>2. /\ segments' = S
      /\ free' = [t \in S |-> IF t = below THEN TRUE ELSE free[t]]
      /\ next' = [t \in S |-> IF t = top THEN below ELSE next[t]]
  BY DEF Merge
<1>3. below \in S /\ top \in S /\ heapEnd' = heapEnd
  BY <1>1
<1> SUFFICES ASSUME NEW t \in S, t # heapEnd, free'[t], free'[next'[t]]
             PROVE  FALSE
  BY ZenonT(30), <1>2, <1>3 DEF Coalesced
<1>4. t \in segments /\ next[t] \in segments /\ next[t] < t /\ last[next[t]] = t
  BY DEF Shape, ListInAddressOrder
<1>5. t # top
  BY <1>1, <1>2, <1>3
<1>6. next[t] # mid /\ next[t] # above
  BY <1>1, <1>4, <1>5
<1>7. next'[t] = next[t] /\ next[t] \in S
  BY <1>2, <1>4, <1>5, <1>6
<1>8. CASE t = below
  BY <1>1, <1>2, <1>4, <1>7, <1>8
<1>9. CASE t # below
  <2>1. next[t] # below
    BY <1>4, <1>9
  <2> QED
    BY <1>2, <1>4, <1>7, <1>9, <2>1 DEF Coalesced
<1> QED
  BY <1>8, <1>9

\* _free looks at both neighbours, so that the merged segment has none that
\* is free.
LEMMA FreeCoalesces ==
    ASSUME StructOK, Shape, Coalesced, ~free[mainSegment],
           NEW s \in segments, ~free[s], s # mainSegment,
           _free(s), UNCHANGED heapEnd
    PROVE  Coalesced'
<1> USE Numbers
<1>1. /\ last[s] \in segments /\ last[s] > s /\ next[last[s]] = s /\ s \in Nat /\ s # 0
      /\ last[s] \in Nat /\ last[s] # 0
      /\ s # heapEnd => next[s] \in segments /\ next[s] < s /\ last[next[s]] = s
      /\ s = heapEnd => next[s] = 0
      /\ 0 \notin segments
  BY DEF StructOK, Shape, ListInAddressOrder
<1>2. FreeBelow(s) => /\ s # heapEnd /\ next[s] \in segments /\ next[s] < s
                      /\ last[next[s]] = s /\ free[next[s]] /\ next[s] # mainSegment
                      /\ next[s] # heapEnd => ~free[next[next[s]]]
  BY ZenonT(30), <1>1 DEF FreeBelow, Coalesced
<1>3. ~FreeBelow(s) => (s # heapEnd => ~free[next[s]])
  BY <1>1 DEF FreeBelow
<1>4. FreeAbove(s) => /\ free[last[s]] /\ last[s] # mainSegment /\ ~free[last[last[s]]]
  <2>1. SUFFICES ASSUME FreeAbove(s)
                 PROVE  /\ free[last[s]] /\ last[s] # mainSegment /\ ~free[last[last[s]]]
    OBVIOUS
  <2>2. free[last[s]] /\ last[s] # mainSegment
    BY <2>1 DEF FreeAbove
  <2>3. /\ last[last[s]] \in segments /\ last[last[s]] > last[s]
        /\ next[last[last[s]]] = last[s] /\ heapEnd <= last[s]
        /\ last[last[s]] \in Nat /\ heapEnd \in Nat
    BY <1>1, <2>2 DEF StructOK, Shape, ListInAddressOrder, SegmentsDisjoint
  <2> QED
    BY <1>1, <2>2, <2>3 DEF Coalesced
<1>5. ~FreeAbove(s) => ~free[last[s]]
  BY <1>1 DEF FreeAbove
<1>6. CASE FreeBelow(s) /\ FreeAbove(s) /\ Merge(next[s], last[s])
  BY ZenonT(30), <1>1, <1>2, <1>4, <1>6, MergeCoalesces
<1>7. CASE ~FreeBelow(s) /\ FreeAbove(s) /\ Merge(s, last[s])
  BY <1>1, <1>3, <1>4, <1>7, MergeCoalesces
<1>8. CASE FreeBelow(s) /\ ~FreeAbove(s) /\ Merge(next[s], s)
  BY ZenonT(30), <1>1, <1>2, <1>5, <1>8, MergeCoalesces
<1>9. CASE /\ ~FreeBelow(s) /\ ~FreeAbove(s)
           /\ free' = Put(free, s, TRUE) /\ UNCHANGED <<segments, length, next, last>>
  <2> SUFFICES ASSUME NEW t \in segments, t # heapEnd, free'[t], free'[next[t]]
               PROVE  FALSE
    BY ZenonT(30), <1>9 DEF Coalesced
  <2>1. next[t] \in segments /\ last[next[t]] = t
    BY DEF Shape, ListInAddressOrder
  <2>2. free' = [free EXCEPT ![s] = TRUE] /\ free \in [segments -> BOOLEAN]
    BY <1>9 DEF Put, StructOK
  <2>3. CASE t = s
    <3>1. ~free[next[s]] /\ next[s] # s
      BY <1>1, <1>3, <1>9, <2>3
    <3> QED
      BY ONLY <2>1, <2>2, <2>3, <3>1, free'[next[t]]
  <2>4. CASE next[t] = s
    <3>1. ~free[t] /\ t # s
      BY <1>1, <1>5, <1>9, <2>1, <2>4
    <3> QED
      BY ONLY <2>2, <3>1, free'[t], t \in segments
  <2>5. CASE t # s /\ next[t] # s
    BY <2>1, <2>2, <2>5 DEF Coalesced
  <2> QED
    BY <2>3, <2>4, <2>5
<1> QED
  BY ZenonT(30), <1>6, <1>7, <1>8, <1>9 DEF _free

\* A split leaves its free part below the part in use.
LEMMA SplitCoalesces ==
    ASSUME StructOK, Shape, Coalesced, NEW s \in segments, NEW size \in Nat,
           s # mainSegment, length[s] > size + HDR, splitSegment(s, size),
           UNCHANGED heapEnd
    PROVE  Coalesced'
<1> USE Numbers
<1> DEFINE new == s + length[s] - size
           above == last[s]
           S == segments \cup {new}
<1>1. /\ s \in Nat /\ length[s] \in Nat /\ above \in Nat /\ above \in segments
      /\ s < new /\ new < above /\ next[above] = s
      /\ \A t \in segments : t <= s \/ t >= above
  BY DEF StructOK, Shape, SegmentsDisjoint, ListInAddressOrder
<1>2. new \notin segments
  BY <1>1
<1>3. /\ segments' = S /\ heapEnd' = heapEnd
      /\ free' = [t \in S |-> IF t = new THEN FALSE ELSE free[t]]
      /\ next' = [t \in S |-> IF t = new THEN s
                              ELSE IF t = above THEN new ELSE next[t]]
  BY DEF splitSegment
<1> HIDE DEF new, above
<1> SUFFICES ASSUME NEW t \in S, t # heapEnd, free'[t], free'[next'[t]]
             PROVE  FALSE
  BY ZenonT(30), <1>3 DEF Coalesced
<1>4. t # new /\ t \in segments /\ free[t]
  BY <1>3
<1>5. t # above
  BY <1>3
<1>6. next'[t] = next[t] /\ next[t] \in segments /\ next[t] # new
  BY <1>2, <1>3, <1>4, <1>5 DEF Shape, ListInAddressOrder
<1> QED
  BY ZenonT(30), <1>3, <1>4, <1>6 DEF Coalesced

\* expand_heap merges a free last segment into the new one, so that the
\* segment above the new one is in use.
LEMMA ExpandCoalesces ==
    ASSUME StructOK, Shape, Coalesced, ~free[mainSegment], expand_heap, want \in Sizes
    PROVE  Coalesced'
<1> USE Numbers
<1>1. PICK len \in (want + HDR)..(want + HDR + PAGE - 1) :
        /\ len >= PAGE /\ heapEnd' = heapEnd - len
        /\ LET new == heapEnd - len
               above == IF free[lastSegment] THEN last[lastSegment] ELSE lastSegment
               S == (segments \ (IF free[lastSegment] THEN {lastSegment} ELSE {}))
                       \cup {new}
           IN  /\ segments' = S
               /\ free' = [t \in S |-> IF t = new THEN TRUE ELSE free[t]]
               /\ next' = [t \in S |-> IF t = new THEN 0
                                       ELSE IF t = above THEN new ELSE next[t]]
  BY ZenonT(30) DEF expand_heap
<1> DEFINE new == heapEnd - len
           above == IF free[lastSegment] THEN last[lastSegment] ELSE lastSegment
           S == (segments \ (IF free[lastSegment] THEN {lastSegment} ELSE {})) \cup {new}
<1>2. /\ lastSegment = heapEnd /\ heapEnd \in segments /\ heapEnd \in Nat
      /\ \A t \in segments : t \in Nat /\ heapEnd <= t
      /\ len \in Nat /\ new < heapEnd
  BY <1>1 DEF StructOK, Shape, SegmentsDisjoint, ListInAddressOrder
<1>3. above \in segments /\ ~free[above]
  <2>1. CASE free[lastSegment]
    <3>1. /\ last[lastSegment] \in segments /\ last[lastSegment] > lastSegment
          /\ next[last[lastSegment]] = lastSegment
      BY <1>2, <2>1 DEF Shape, ListInAddressOrder
    <3>2. last[lastSegment] # heapEnd /\ above = last[lastSegment]
      BY <1>2, <2>1, <3>1
    <3> QED
      BY <2>1, <3>1, <3>2 DEF Coalesced
  <2>2. CASE ~free[lastSegment]
    BY <1>2, <2>2
  <2> QED
    BY <2>1, <2>2
<1>4. new \notin segments
  BY <1>2
<1>5. /\ segments' = S /\ heapEnd' = new
      /\ free' = [t \in S |-> IF t = new THEN TRUE ELSE free[t]]
      /\ next' = [t \in S |-> IF t = new THEN 0 ELSE IF t = above THEN new ELSE next[t]]
  BY <1>1
<1> SUFFICES ASSUME NEW t \in S, t # new, free'[t], free'[next'[t]]
             PROVE  FALSE
  BY ZenonT(30), <1>5 DEF Coalesced
<1>6. t \in segments /\ free[t] /\ t # above
  BY <1>3, <1>4, <1>5
<1>7. t # heapEnd
  BY <1>2, <1>6
<1>8. next[t] \in segments /\ last[next[t]] = t
  BY <1>6, <1>7 DEF Shape, ListInAddressOrder
<1>9. next[t] \in S /\ next[t] # new /\ next'[t] = next[t]
  BY <1>2, <1>4, <1>5, <1>6, <1>8
<1> QED
  BY <1>5, <1>6, <1>7, <1>9 DEF Coalesced

LEMMA CoalescedStep == IInv /\ Coalesced /\ [Next]_vars => Coalesced'
<1> SUFFICES ASSUME IInv, Coalesced, [Next]_vars PROVE Coalesced'
  OBVIOUS
<1>1. StructOK /\ Shape /\ ~free[mainSegment] /\ \A n \in Sizes : n \in Nat
  BY Numbers DEF IInv, TypeOK, StructOK, BlocksOwned
<1>2. CASE UNCHANGED <<segments, fields, heapEnd>>
  BY <1>2 DEF Coalesced, fields
<1>3. CASE Allocate
  <2>1. PICK s \in segments :
          /\ free[s]
          /\ \/ length[s] > want + HDR /\ splitSegment(s, want)
             \/ TakeWhole(s, want)
    BY <1>3 DEF Allocate, FirstFit, Fits
  <2>2. want \in Nat /\ s # mainSegment /\ UNCHANGED heapEnd
    BY <1>1, <1>3, <2>1 DEF Allocate, IInv, TypeOK
  <2>3. CASE TakeWhole(s, want)
    <3>1. next' = next /\ segments' = segments /\ \A t \in segments : free'[t] => free[t]
      BY <1>1, <2>1, <2>3 DEF TakeWhole, Put, StructOK
    <3>2. \A t \in segments : t # heapEnd => next[t] \in segments
      BY <1>1 DEF Shape, ListInAddressOrder
    <3> QED
      BY <2>2, <3>1, <3>2 DEF Coalesced
  <2> QED
    BY <1>1, <2>1, <2>2, <2>3, SplitCoalesces
<1>4. CASE expand_heap
  BY ZenonT(30), <1>1, <1>4, ExpandCoalesces DEF expand_heap, IInv, TypeOK
<1>5. ASSUME NEW s \in segments, \E h \in held : h.seg = s, _free(s), UNCHANGED heapEnd
      PROVE  Coalesced'
  <2>1. ~free[s] /\ s # mainSegment
    BY <1>5 DEF IInv, BlocksOwned
  <2> QED
    BY <1>1, <1>5, <2>1, FreeCoalesces
<1>6. CASE kfree
  <2>1. PICK h \in held : _free(h.seg) /\ UNCHANGED heapEnd
    BY <1>6 DEF kfree
  <2>2. h.seg \in segments
    BY DEF IInv, TypeOK
  <2> QED
    BY <1>5, <2>1, <2>2
<1>7. CASE ReallocFree
  <2>1. old \in segments /\ (\E h \in held : h.seg = old) /\ _free(old) /\ UNCHANGED heapEnd
    BY <1>7 DEF ReallocFree, IInv, TypeOK, OldOwned
  <2> QED
    BY <1>5, <2>1
<1>8. (\E size \in Sizes : _malloc(size) \/ \E h \in held : _realloc(h.seg, size))
         => UNCHANGED <<segments, fields, heapEnd>>
  BY DEF _malloc, _realloc
<1> QED
  BY <1>2, <1>3, <1>4, <1>6, <1>7, <1>8 DEF Next, vars, fields

\* No two neighbours of the list are free, for every history of requests.
THEOREM NoFreeNeighbours == Spec => []Coalesced
<1>1. Init => Coalesced
  BY ZenonT(30), Numbers DEF Init, Coalesced, mainSegment
<1> QED
  BY <1>1, CoalescedStep, Invariant, PTL DEF Spec
-----------------------------------------------------------------------------
\* What _malloc has gained by calling expand_heap: after the first call the
\* last segment is long enough, if perhaps by too little to be split; after
\* the second it fits.
SearchInv ==
    /\ tries <= 2
    /\ tries > 0 => want # 0 /\ free[lastSegment] /\ length[lastSegment] >= want
    /\ tries = 2 => Fits(lastSegment, want)

\* The new last segment has room for the request; one more expansion adds more
\* than the two headers a split can lack.
LEMMA ExpandGains ==
    ASSUME IInv, SearchInv, expand_heap
    PROVE  SearchInv'
<1> USE Numbers
<1>1. PICK len \in (want + HDR)..(want + HDR + PAGE - 1) :
        /\ len >= PAGE
        /\ LET new == heapEnd - len
               S == (segments \ (IF free[lastSegment] THEN {lastSegment} ELSE {}))
                       \cup {new}
           IN  /\ length' = [t \in S |-> IF t = new THEN ExpandedLength(len) ELSE length[t]]
               /\ free' = [t \in S |-> IF t = new THEN TRUE ELSE free[t]]
               /\ lastSegment' = new
  BY ZenonT(30) DEF expand_heap, NewLastSegment
<1>2. /\ want \in Nat /\ want # 0 /\ tries \in Nat /\ want' = want /\ tries' = tries + 1
      /\ lastSegment \in segments /\ length[lastSegment] \in Nat
      /\ ~Fits(lastSegment, want) /\ len \in Nat /\ len >= want + HDR
  BY <1>1 DEF expand_heap, IInv, TypeOK
<1>3. free'[lastSegment'] /\ length'[lastSegment'] = ExpandedLength(len)
  BY <1>1
<1>4. ExpandedLength(len) \in Int /\ ExpandedLength(len) >= want
  BY <1>2 DEF ExpandedLength
<1>5. CASE tries = 0
  BY <1>2, <1>3, <1>4, <1>5 DEF SearchInv
<1>6. CASE tries = 1
  <2>1. free[lastSegment] /\ length[lastSegment] > want
    BY <1>2, <1>6 DEF SearchInv, Fits
  <2>2. ExpandedLength(len) > want + HDR
    BY <1>1, <1>2, <2>1 DEF ExpandedLength
  <2> QED
    BY <1>2, <1>3, <1>4, <1>6, <2>2 DEF SearchInv, Fits
<1>7. tries = 0 \/ tries = 1
  BY <1>2 DEF SearchInv
<1> QED
  BY <1>5, <1>6, <1>7

\* _malloc, which calls itself after every expansion, does so at most twice.
THEOREM SearchEnds == Spec => []TwoExpansionsSuffice
<1>1. Init => SearchInv
  BY DEF Init, SearchInv
<1>2. IInv /\ SearchInv /\ [Next]_vars => SearchInv'
  <2> SUFFICES ASSUME IInv, SearchInv, [Next]_vars PROVE SearchInv'
    OBVIOUS
  <2>1. CASE expand_heap
    BY <2>1, ExpandGains
  <2>2. CASE Allocate
    BY <2>2 DEF Allocate, SearchInv
  <2>3. tries \in Nat /\ (want = 0 => tries = 0)
    BY DEF SearchInv, IInv, TypeOK
  <2>4. CASE kfree \/ ReallocFree
    BY <2>3, <2>4 DEF kfree, ReallocFree, SearchInv
  <2>5. ASSUME NEW size \in Sizes, NEW h, _malloc(size) \/ _realloc(h, size) PROVE SearchInv'
    BY <2>3, <2>5 DEF _malloc, _realloc, SearchInv
  <2>6. CASE UNCHANGED vars
    BY <2>6 DEF vars, fields, SearchInv, Fits
  <2> QED
    BY <2>1, <2>2, <2>4, <2>5, <2>6 DEF Next
<1>3. SearchInv => TwoExpansionsSuffice
  BY DEF SearchInv, TwoExpansionsSuffice
<1> QED
  BY <1>1, <1>2, <1>3, Invariant, PTL DEF Spec
-----------------------------------------------------------------------------
(* The heap implements the abstract allocator. *)

LEMMA IsBlock ==
    ASSUME NEW x \in 1..mainSegment, NEW n \in Sizes,
           x..(x + n - 1) \subseteq 1..(mainSegment - 1)
    PROVE  x..(x + n - 1) \in HeapBlock
<1>1. x..(x + n - 1) \in {y..(y + m - 1) : y \in 1..mainSegment, m \in Sizes}
  OBVIOUS
<1> QED
  BY <1>1 DEF HeapBlock

\* Memory behind a header that ends below the main segment is a block.
LEMMA BlockBelowMain ==
    ASSUME NEW s \in Nat, s > 0, NEW n \in Sizes, s + HDR + n <= mainSegment
    PROVE  Payload([seg |-> s, size |-> n]) \in HeapBlock
<1> USE Numbers
<1>1. PICK x \in Nat : x = s + HDR
  OBVIOUS
<1>2. x \in 1..mainSegment /\ x..(x + n - 1) \subseteq 1..(mainSegment - 1)
  BY <1>1
<1>3. Payload([seg |-> s, size |-> n]) = x..(x + n - 1)
  BY <1>1 DEF Payload
<1>4. x..(x + n - 1) \in HeapBlock
  BY ONLY <1>2, n \in Sizes, IsBlock
<1> QED
  BY ONLY <1>3, <1>4

\* Blocks of two segments that do not overlap have no address in common.
LEMMA PayloadsApart ==
    ASSUME NEW s \in Nat, NEW t \in Nat, NEW m \in Sizes, NEW n \in Sizes,
           s + HDR + m <= t \/ t + HDR + n <= s
    PROVE  /\ Payload([seg |-> s, size |-> m]) \cap Payload([seg |-> t, size |-> n]) = {}
           /\ Payload([seg |-> s, size |-> m]) # Payload([seg |-> t, size |-> n])
<1> USE Numbers
<1>1. s + HDR \in Payload([seg |-> s, size |-> m])
  BY DEF Payload
<1>2. Payload([seg |-> s, size |-> m]) \cap Payload([seg |-> t, size |-> n]) = {}
  BY DEF Payload
<1> QED
  BY ONLY ZenonT(30), <1>1, <1>2

\* What callers hold lies below the main segment, in segments of their own.
HeldOK ==
    /\ \A h \in held : /\ h = [seg |-> h.seg, size |-> h.size]
                       /\ h.seg \in segments /\ h.seg \in Nat /\ h.seg > 0
                       /\ h.size \in Sizes
                       /\ h.seg + HDR + h.size <= mainSegment
    /\ \A g, h \in held : g.seg # h.seg =>
          g.seg + HDR + g.size <= h.seg \/ h.seg + HDR + h.size <= g.seg

LEMMA HeldFacts == IInv => HeldOK
<1> SUFFICES ASSUME IInv PROVE HeldOK
  OBVIOUS
<1> USE Numbers
<1>1. ASSUME NEW h \in held
      PROVE  /\ h = [seg |-> h.seg, size |-> h.size]
             /\ h.seg \in segments /\ h.seg \in Nat /\ h.seg > 0
             /\ h.size \in Sizes /\ h.size \in Nat
             /\ length[h.seg] \in Nat /\ h.size <= length[h.seg]
             /\ h.seg # mainSegment
  <2>1. h \in [seg : segments, size : Sizes]
    BY DEF IInv, TypeOK
  <2>2. h = [seg |-> h.seg, size |-> h.size] /\ h.seg \in segments /\ h.size \in Sizes
    BY ONLY <2>1
  <2>3. /\ segments \subseteq 1..Top /\ length \in [segments -> Nat]
        /\ h.size <= length[h.seg] /\ h.seg # mainSegment
    BY DEF IInv, TypeOK, BlocksOwned
  <2>4. h.seg \in Nat /\ h.seg > 0 /\ h.size \in Nat /\ length[h.seg] \in Nat
    BY ONLY <2>2, <2>3, Numbers
  <2> QED
    BY ONLY <2>2, <2>3, <2>4
<1>2. ASSUME NEW h \in held PROVE h.seg + HDR + h.size <= mainSegment
  <2>1. mainSegment \in segments /\ h.seg + HDR + length[h.seg] <= Top
    BY <1>1 DEF IInv, Shape, ListInAddressOrder, SegmentsDisjoint
  <2>2. h.seg < mainSegment
    BY ONLY <1>1, <2>1, Numbers DEF mainSegment
  <2>3. h.seg + HDR + length[h.seg] <= mainSegment
    BY <1>1, <2>1, <2>2 DEF IInv, Shape, SegmentsDisjoint
  <2> QED
    BY ONLY <1>1, <2>3, Numbers
<1>3. ASSUME NEW g \in held, NEW h \in held, g.seg # h.seg
      PROVE  g.seg + HDR + g.size <= h.seg \/ h.seg + HDR + h.size <= g.seg
  <2>1. g.seg + HDR + length[g.seg] <= h.seg \/ h.seg + HDR + length[h.seg] <= g.seg
    BY <1>1, <1>3 DEF IInv, Shape, SegmentsDisjoint
  <2> QED
    BY ONLY <1>1, <2>1, Numbers
<1> QED
  BY ONLY <1>1, <1>2, <1>3 DEF HeldOK

\* _malloc returns a segment that was new or free.
LEMMA AllocateOwner ==
    ASSUME IInv, Allocate
    PROVE  \E b \in segments' : /\ b \in segments => free[b]
                                /\ held' = held \cup {[seg |-> b, size |-> want]}
<1> USE Numbers
<1>1. PICK s \in segments :
         /\ free[s]
         /\ \/ length[s] > want + HDR /\ splitSegment(s, want)
            \/ length[s] = want /\ TakeWhole(s, want)
  BY DEF Allocate, FirstFit, Fits
<1>2. CASE length[s] > want + HDR /\ splitSegment(s, want)
  <2> DEFINE b == s + length[s] - want
  <2>1. /\ StructOK /\ Shape /\ ~free[mainSegment] /\ s # mainSegment /\ want \in Nat
    BY <1>1 DEF IInv, TypeOK, StructOK, BlocksOwned, Allocate
  <2>2. /\ s \in Nat /\ length[s] \in Nat /\ last[s] \in segments /\ last[s] \in Nat
        /\ \A t \in segments : t <= s \/ t >= last[s]
        /\ s + HDR + length[s] <= last[s]
    BY <2>1 DEF StructOK, Shape, SegmentsDisjoint, ListInAddressOrder
  <2>3. b \notin segments
    BY <1>2, <2>1, <2>2
  <2>4. b \in segments' /\ held' = held \cup {[seg |-> b, size |-> want]}
    BY ZenonT(30), <1>2 DEF splitSegment
  <2> QED
    BY <2>3, <2>4
<1>3. CASE length[s] = want /\ TakeWhole(s, want)
  BY <1>1, <1>3 DEF TakeWhole
<1> QED
  BY <1>1, <1>2, <1>3

\* The search of _malloc ends: a block nobody holds is handed out.
LEMMA AllocateAllots ==
    ASSUME IInv, IInv', Allocate
    PROVE  \E b \in HeapBlock : HeapAllocator!Allot("caller", b)
<1>1. PICK b \in segments' : /\ b \in segments => free[b]
                             /\ held' = held \cup {[seg |-> b, size |-> want]}
  BY AllocateOwner
<1> DEFINE new == [seg |-> b, size |-> want]
<1>2. HeldOK'
  BY HeldFacts, PTL
<1>3. /\ new \in held' /\ b \in Nat /\ b > 0 /\ want \in Sizes
      /\ b + HDR + want <= mainSegment
  <2>1. new \in held' /\ new.seg = b /\ new.size = want
    BY <1>1
  <2> QED
    BY ONLY <1>2, <2>1 DEF HeldOK, mainSegment
<1>4. Payload(new) \in HeapBlock
  BY ONLY <1>3, BlockBelowMain
<1>5. ASSUME NEW h \in held PROVE Payload(h) \cap Payload(new) = {}
  <2>1. ~free[h.seg] /\ h.seg \in segments
    BY DEF IInv, BlocksOwned, TypeOK
  <2>2. h.seg # b
    BY ONLY <1>1, <2>1
  <2>3. h \in held' /\ new \in held' /\ new.seg = b /\ new.size = want
    BY <1>1
  <2>4. /\ h = [seg |-> h.seg, size |-> h.size] /\ h.seg \in Nat /\ h.size \in Sizes
        /\ h.seg + HDR + h.size <= b \/ b + HDR + want <= h.seg
    BY ONLY <1>2, <2>2, <2>3 DEF HeldOK, mainSegment
  <2>5. Payload([seg |-> h.seg, size |-> h.size]) \cap Payload(new) = {}
    BY ONLY <1>3, <2>4, PayloadsApart
  <2> QED
    BY ONLY <2>4, <2>5
<1>6. HeapOut' = HeapOut \cup {[holder |-> "caller", units |-> Payload(new)]}
  BY Zenon, <1>1 DEF HeapOut, Payload
<1>7. \A g \in HeapOut : g.units \cap Payload(new) = {}
  BY ONLY <1>5 DEF HeapOut
<1>8. HeapAllocator!Allot("caller", Payload(new))
  BY ONLY <1>6, <1>7 DEF HeapAllocator!Allot, HeapAllocator!Handed
<1> QED
  BY ONLY <1>4, <1>8

\* kfree and the end of _realloc: that one block is taken back.
LEMMA FreeGivesBack ==
    ASSUME IInv, NEW h \in held, Disown(h.seg)
    PROVE  \E g \in HeapOut : HeapAllocator!GiveBack(g)
<1> DEFINE g == [holder |-> "caller", units |-> Payload(h)]
<1>1. g \in HeapOut
  BY DEF HeapOut
<1>2. \A x \in held : x \in held' <=> x.seg # h.seg
  BY DEF Disown
<1>3. held' \subseteq held
  BY DEF Disown
<1>4. ASSUME NEW x \in held, x.seg # h.seg PROVE Payload(x) # Payload(h)
  <2>1. HeldOK
    BY HeldFacts
  <2>2. /\ h = [seg |-> h.seg, size |-> h.size] /\ h.seg \in Nat /\ h.size \in Sizes
        /\ x = [seg |-> x.seg, size |-> x.size] /\ x.seg \in Nat /\ x.size \in Sizes
        /\ x.seg + HDR + x.size <= h.seg \/ h.seg + HDR + h.size <= x.seg
    BY ONLY <1>4, <2>1, h \in held DEF HeldOK
  <2>3. Payload([seg |-> x.seg, size |-> x.size]) # Payload([seg |-> h.seg, size |-> h.size])
    BY ONLY <2>2, PayloadsApart
  <2> QED
    BY ONLY <2>2, <2>3
<1>5. ASSUME NEW x \in held, x.seg = h.seg PROVE x = h
  BY <1>5 DEF IInv, BlocksOwned
<1>6. HeapOut' = {[holder |-> "caller", units |-> Payload(x)] : x \in held'}
  BY DEF HeapOut, Payload
<1> HIDE DEF g
<1>7. ASSUME NEW y \in HeapOut' PROVE y \in HeapOut /\ y # g
  <2>1. PICK x \in held' : y = [holder |-> "caller", units |-> Payload(x)]
    BY <1>6
  <2>2. x \in held /\ x.seg # h.seg
    BY ONLY <1>2, <1>3, <2>1
  <2>3. y \in HeapOut
    BY ONLY <2>1, <2>2 DEF HeapOut
  <2>4. y.units = Payload(x) /\ g.units = Payload(h)
    BY ONLY <2>1 DEF g
  <2> QED
    BY ONLY <1>4, <2>2, <2>3, <2>4
<1>8. ASSUME NEW y \in HeapOut, y # g PROVE y \in HeapOut'
  <2>1. PICK x \in held : y = [holder |-> "caller", units |-> Payload(x)]
    BY DEF HeapOut
  <2>2. x.seg # h.seg
    BY ONLY <1>5, <1>8, <2>1 DEF g
  <2> QED
    BY ONLY <1>2, <1>6, <2>1, <2>2
<1>9. HeapOut' = HeapOut \ {g}
  BY ONLY <1>7, <1>8
<1> QED
  BY ONLY <1>1, <1>9 DEF HeapAllocator!GiveBack

LEMMA HeapStepImplements ==
    ASSUME IInv, IInv', [Next]_vars
    PROVE  [HeapAllocator!ANext]_HeapOut
<1>1. CASE Allocate
  BY <1>1, AllocateAllots DEF HeapAllocator!ANext
<1>2. CASE kfree
  <2>1. PICK h \in held : Disown(h.seg)
    BY <1>2 DEF kfree
  <2> QED
    BY <2>1, FreeGivesBack DEF HeapAllocator!ANext
<1>3. CASE ReallocFree
  <2>1. PICK h \in held : h.seg = old
    BY <1>3 DEF ReallocFree, IInv, OldOwned
  <2>2. Disown(h.seg)
    BY <1>3, <2>1 DEF ReallocFree
  <2> QED
    BY <2>2, FreeGivesBack DEF HeapAllocator!ANext
<1>4. CASE held' = held
  BY <1>4 DEF HeapOut, Payload
<1>5. ASSUME NEW size \in Sizes, NEW s, _malloc(size) \/ _realloc(s, size) PROVE held' = held
  BY <1>5 DEF _malloc, _realloc
<1>6. expand_heap \/ UNCHANGED vars => held' = held
  BY Zenon DEF expand_heap, vars
<1> QED
  BY <1>1, <1>2, <1>3, <1>4, <1>5, <1>6 DEF Next

\* _malloc, _realloc and kfree implement the allocator their callers count on,
\* for every header, page and heap size and every set of request sizes.
THEOREM HeapIsAllocator == Spec => HeapImplements
<1>1. Init => HeapAllocator!AInit
  BY DEF Init, HeapAllocator!AInit, HeapOut
<1>2. Init /\ [][Next]_vars /\ []IInv => HeapAllocator!AInit /\ [][HeapAllocator!ANext]_HeapOut
  BY <1>1, HeapStepImplements, PTL
<1> QED
  BY <1>2, Invariant, PTL DEF Spec, HeapImplements, HeapAllocator!ASpec
-----------------------------------------------------------------------------
(* The page frame allocator. *)

\* Pages that belong to somebody are locked, and to one only; pages locked for a
\* run stay locked.
Kept ==
    /\ 0..(UsedSpace - 1) \subseteq bitfield
    /\ \A c \in Client :
          /\ owned[c] \subseteq bitfield
          /\ owned[c] \cap 0..(UsedSpace - 1) = {}
          /\ \A d \in Client \ {c} : owned[c] \cap owned[d] = {}
          /\ \A r \in runs : owned[c] \cap r.pages = {}
    /\ \A r \in runs : r.pages \subseteq bitfield

\* A page that is locked and that nobody holds yet.
Granted(p) ==
    /\ p \in bitfield /\ p \in UsedSpace..Pages
    /\ \A d \in Client : p \notin owned[d]
    /\ \A r \in runs : p \notin r.pages

\* What a task in the Window relies on: what it has read still holds.
Here(c) ==
    /\ pc[c] \in {"lock", "set", "verify", "reserved", "return"} => page[c] = Cursor(c)
    /\ pc[c] = "set" =>
          /\ page[c] <= Pages /\ page[c] \notin bitfield
          /\ byte[c] = bitfield \cap Byte(page[c])
    /\ pc[c] \in {"verify", "reserved", "return"} => Granted(page[c])
    /\ pc[c] \in {"unlock", "clear"} =>
          page[c] \in owned[c] /\ byte[c] = bitfield \cap Byte(page[c])

Whole == Kept /\ \A c \in Client : Here(c)

FramesInv == FramesTypeOK /\ (torn \/ Whole)

LEMMA FramesInvInit == FramesInit => FramesInv
<1> SUFFICES ASSUME FramesInit PROVE FramesInv
  OBVIOUS
<1>1. bitfield \subseteq Nat /\ 0..(UsedSpace - 1) \subseteq bitfield
  <2>1. PICK stray \in SUBSET (Pages..(Pages + 1 + Cardinality(Client)) \ Byte(Pages - 1)) :
              bitfield = 0..(UsedSpace - 1) \cup stray
    BY DEF FramesInit
  <2>2. Cardinality(Client) \in Nat
    BY FS_CardinalityType, PageAssumption
  <2>3. Pages..(Pages + 1 + Cardinality(Client)) \subseteq Nat
    BY <2>2, PageAssumption
  <2> QED
    BY ONLY <2>1, <2>3, PageAssumption
<1>2. FramesTypeOK
  <2>1. /\ last_requested \in Nat /\ last_run \in 0..(Pages + 1)
        /\ first \in [Client -> Int] /\ page \in [Client -> Nat]
    BY PageAssumption DEF FramesInit
  <2>2. /\ byte \in [Client -> SUBSET Nat] /\ owned \in [Client -> SUBSET Nat]
        /\ pc \in [Client -> Place] /\ disturbed \in [Client -> BOOLEAN]
    BY DEF FramesInit, Place
  <2>3. /\ \A r \in runs : r.start \in Int /\ r.pages \subseteq 0..Pages
        /\ booting \in BOOLEAN /\ cached \in BOOLEAN /\ panicked \in Message /\ torn \in BOOLEAN
    BY Zenon DEF FramesInit, Message
  <2> QED
    BY <1>1, <2>1, <2>2, <2>3 DEF FramesTypeOK
<1>3. Kept /\ \A c \in Client : Here(c)
  BY <1>1 DEF FramesInit, Kept, Here
<1> QED
  BY <1>2, <1>3 DEF FramesInv, Whole
-----------------------------------------------------------------------------
(* Types. *)

LEMMA AtTypes ==
    ASSUME FramesTypeOK, NEW c \in Client, NEW place, At(c, place)
    PROVE  /\ disturbed' \in [Client -> BOOLEAN] /\ torn' \in BOOLEAN
           /\ last_run' = last_run /\ runs' = runs /\ booting' = booting /\ cached' = cached
<1>1. disturbed' = [d \in Client |-> pc[d] # "idle" /\ (d = c => disturbed[c])]
  BY Zenon DEF At
<1>2. torn' = (torn \/ \E d \in Client \ {c} : pc[d] \in Window)
  BY Zenon DEF At
<1>3. last_run' = last_run /\ runs' = runs /\ booting' = booting /\ cached' = cached
  BY Zenon DEF At
<1>4. \A d \in Client : disturbed[d] \in BOOLEAN
  BY DEF FramesTypeOK
<1>5. disturbed' \in [Client -> BOOLEAN]
  BY ONLY Zenon, <1>1, <1>4
<1>6. torn' \in BOOLEAN
  BY ONLY Zenon, <1>2
<1> QED
  BY <1>3, <1>5, <1>6

\* Going on to a place, or stopping with a message.
Moves(c) ==
    \/ \E place \in Place : Goto(c, place)
    \/ \E m \in Message : panic(c, m)

LEMMA MoveTypes ==
    ASSUME FramesTypeOK, NEW c \in Client, Moves(c)
    PROVE  pc' \in [Client -> Place] /\ panicked' \in Message
<1>1. pc \in [Client -> Place] /\ panicked \in Message /\ "panicked" \in Place
  BY Zenon DEF FramesTypeOK, Place
<1>2. ASSUME NEW place \in Place, Goto(c, place)
      PROVE  pc' \in [Client -> Place] /\ panicked' \in Message
  BY Zenon, <1>1, <1>2 DEF Goto
<1>3. ASSUME NEW m \in Message, panic(c, m)
      PROVE  pc' \in [Client -> Place] /\ panicked' \in Message
  BY Zenon, <1>1, <1>3 DEF panic
<1> QED
  BY <1>2, <1>3 DEF Moves

\* The pieces of the type invariant a step of a task can change.
LEMMA TypesTogether ==
    ASSUME FramesTypeOK, NEW c \in Client, NEW place, At(c, place), Moves(c),
           bitfield' \subseteq Nat, last_requested' \in Nat,
           first' \in [Client -> Int], page' \in [Client -> Nat],
           byte' \in [Client -> SUBSET Nat], owned' \in [Client -> SUBSET Nat]
    PROVE  FramesTypeOK'
<1>1. pc' \in [Client -> Place] /\ panicked' \in Message
  BY MoveTypes
<1>2. /\ disturbed' \in [Client -> BOOLEAN] /\ torn' \in BOOLEAN
      /\ last_run' = last_run /\ runs' = runs /\ booting' = booting /\ cached' = cached
  BY AtTypes
<1> QED
  BY Zenon, <1>1, <1>2 DEF FramesTypeOK

LEMMA ByteTypes ==
    ASSUME NEW p \in Nat
    PROVE  p \in Byte(p) /\ Byte(p) \subseteq Nat
<1>1. p \div 8 \in Nat /\ 8 * (p \div 8) <= p /\ p <= 8 * (p \div 8) + 7
  OBVIOUS
<1> QED
  BY <1>1 DEF Byte

LEMMA LockMessages ==
    ASSUME NEW c \in Client
    PROVE  /\ (IF page[c] > Pages THEN "address out of bounds" ELSE "Page already locked!") \in Message
           /\ (IF page[c] > Pages THEN "address out of bounds" ELSE "Page was not locked!") \in Message
  BY Zenon DEF Message

LEMMA CursorType ==
    ASSUME FramesTypeOK, NEW c \in Client
    PROVE  Cursor(c) \in Nat /\ cached \in BOOLEAN
BY DEF FramesTypeOK, Cursor

\* Moving the cursor changes it, or the task's own copy of it.
LEMMA CursorMoves ==
    ASSUME FramesTypeOK, NEW c \in Client, NEW p \in Nat, SetCursor(c, p), cached' = cached
    PROVE  /\ last_requested' \in Nat /\ page' \in [Client -> Nat]
           /\ \A d \in Client \ {c} : page'[d] = page[d]
           /\ Cursor(c)' = p
<1>1. last_requested \in Nat /\ page \in [Client -> Nat] /\ cached \in BOOLEAN
  BY DEF FramesTypeOK
<1>2. CASE cached
  BY <1>1, <1>2 DEF SetCursor, Cursor
<1>3. CASE ~cached
  BY <1>1, <1>3 DEF SetCursor, Cursor
<1> QED
  BY <1>2, <1>3

LEMMA CopyTypes ==
    ASSUME FramesTypeOK, NEW c \in Client,
           page' = IF cached THEN [page EXCEPT ![c] = last_requested] ELSE page
    PROVE  page' \in [Client -> Nat] /\ \A d \in Client \ {c} : page'[d] = page[d]
<1>1. last_requested \in Nat /\ page \in [Client -> Nat]
  BY DEF FramesTypeOK
<1> QED
  BY <1>1

LEMMA RequestTypes ==
    ASSUME FramesTypeOK, NEW c \in Client, Request(c)
    PROVE  FramesTypeOK'
<1>1. /\ bitfield \subseteq Nat /\ last_requested \in Nat
      /\ first \in [Client -> Int] /\ page \in [Client -> Nat]
      /\ byte \in [Client -> SUBSET Nat] /\ owned \in [Client -> SUBSET Nat]
  BY DEF FramesTypeOK
<1>2. CASE request_page(c)
  <2>1. Moves(c) /\ At(c, "idle") /\ first' = [first EXCEPT ![c] = last_requested - 1]
        /\ page' = (IF cached THEN [page EXCEPT ![c] = last_requested] ELSE page)
        /\ UNCHANGED <<bitfield, last_requested, owned, byte>>
    BY Zenon, <1>2 DEF request_page, Moves, Place, shared
  <2>2. first' \in [Client -> Int]
    BY <1>1, <2>1
  <2>3. page' \in [Client -> Nat]
    BY Zenon, <2>1, CopyTypes
  <2> QED
    BY <1>1, <2>1, <2>2, <2>3, TypesTogether
<1>3. CASE SearchTest(c)
  <2>1. Moves(c) /\ At(c, "test") /\ UNCHANGED <<bitfield, last_requested, owned, first, page, byte>>
    BY Zenon, <1>3 DEF SearchTest, Moves, Place, locals, shared
  <2> QED
    BY <1>1, <2>1, TypesTogether
<1>4. CASE SearchWrap(c)
  <2> DEFINE p == IF Cursor(c) >= Pages THEN 0 ELSE Cursor(c)
  <2>1. Moves(c) /\ At(c, "wrap") /\ SetCursor(c, p)
        /\ UNCHANGED <<bitfield, owned, first, byte>>
    BY Zenon, <1>4 DEF SearchWrap, Moves, Place
  <2>2. p \in Nat
    BY CursorType
  <2>3. cached' = cached
    BY Zenon, <2>1, AtTypes
  <2> HIDE DEF p
  <2>4. last_requested' \in Nat /\ page' \in [Client -> Nat]
    BY Zenon, <2>1, <2>2, <2>3, CursorMoves
  <2> QED
    BY <1>1, <2>1, <2>4, TypesTogether
<1>5. CASE SearchCompare(c)
  <2>1. Moves(c) /\ At(c, "compare") /\ UNCHANGED <<bitfield, last_requested, owned, first, page, byte>>
    BY Zenon, <1>5 DEF SearchCompare, Moves, Place, Message, locals, shared
  <2> QED
    BY <1>1, <2>1, TypesTogether
<1>6. CASE SearchAdvance(c)
  <2> DEFINE p == Cursor(c) + 1
  <2>1. Moves(c) /\ At(c, "advance") /\ SetCursor(c, p)
        /\ UNCHANGED <<bitfield, owned, first, byte>>
    BY Zenon, <1>6 DEF SearchAdvance, Moves, Place
  <2>2. p \in Nat
    BY CursorType
  <2>3. cached' = cached
    BY Zenon, <2>1, AtTypes
  <2> HIDE DEF p
  <2>4. last_requested' \in Nat /\ page' \in [Client -> Nat]
    BY Zenon, <2>1, <2>2, <2>3, CursorMoves
  <2> QED
    BY <1>1, <2>1, <2>4, TypesTogether
<1>7. CASE CallLock(c)
  <2>1. Moves(c) /\ At(c, "found") /\ page' = [page EXCEPT ![c] = Cursor(c)]
        /\ first' = [first EXCEPT ![c] = 0]
        /\ (last_requested' = last_requested \/ last_requested' = Cursor(c))
        /\ UNCHANGED <<bitfield, owned, byte>>
    BY Zenon, <1>7 DEF CallLock, Moves, Place, Window
  <2>2. page' \in [Client -> Nat] /\ first' \in [Client -> Int] /\ last_requested' \in Nat
    BY <1>1, <2>1, CursorType
  <2> QED
    BY <1>1, <2>1, <2>2, TypesTogether
<1>8. CASE lock_page(c)
  <2>1. Moves(c) /\ At(c, "lock")
        /\ (byte' = byte \/ byte' = [byte EXCEPT ![c] = bitfield \cap Byte(page[c])])
        /\ UNCHANGED <<bitfield, last_requested, owned, first, page>>
    BY Zenon, <1>8, LockMessages DEF lock_page, Read, Moves, Place, Window, shared
  <2>2. byte' \in [Client -> SUBSET Nat]
    BY <1>1, <2>1
  <2> QED
    BY <1>1, <2>1, <2>2, TypesTogether
<1>9. CASE set_page_bit(c)
  <2>1. Moves(c) /\ At(c, "set") /\ byte' = [byte EXCEPT ![c] = {}]
        /\ UNCHANGED <<last_requested, owned, first, page>>
    BY Zenon, <1>9 DEF set_page_bit, Moves, Place, Window
  <2>2. PICK others \in {byte[c], bitfield \cap Byte(page[c])} :
              bitfield' = (bitfield \ Byte(page[c])) \cup others \cup {page[c]}
    BY Zenon, <1>9 DEF set_page_bit, Reread
  <2>3. bitfield' \subseteq Nat /\ byte' \in [Client -> SUBSET Nat]
    BY <1>1, <2>1, <2>2
  <2> QED
    BY <1>1, <2>1, <2>3, TypesTogether
<1>10. CASE VerifySet(c)
  <2>1. Moves(c) /\ At(c, "verify") /\ UNCHANGED <<bitfield, last_requested, owned, first, page, byte>>
    BY Zenon, <1>10 DEF VerifySet, Moves, Place, Window, Message, locals, shared
  <2> QED
    BY <1>1, <2>1, TypesTogether
<1>11. CASE VerifyReserved(c)
  <2>1. Moves(c) /\ At(c, "reserved") /\ UNCHANGED <<bitfield, last_requested, owned, first, page, byte>>
    BY Zenon, <1>11 DEF VerifyReserved, Moves, Place, Window, Message, locals, shared
  <2> QED
    BY <1>1, <2>1, TypesTogether
<1>12. CASE Return(c)
  <2>1. Moves(c) /\ At(c, "return") /\ owned' = [owned EXCEPT ![c] = @ \cup {Cursor(c)}]
        /\ page' = [page EXCEPT ![c] = 0]
        /\ UNCHANGED <<bitfield, last_requested, first, byte>>
    BY Zenon, <1>12 DEF Return, Moves, Place
  <2>2. owned' \in [Client -> SUBSET Nat] /\ page' \in [Client -> Nat]
    BY <1>1, <2>1, CursorType
  <2> QED
    BY <1>1, <2>1, <2>2, TypesTogether
<1> QED
  BY Zenon, <1>2, <1>3, <1>4, <1>5, <1>6, <1>7, <1>8, <1>9, <1>10, <1>11, <1>12 DEF Request

LEMMA FreeTypes ==
    ASSUME FramesTypeOK, NEW c \in Client, Free(c)
    PROVE  FramesTypeOK'
<1>1. /\ bitfield \subseteq Nat /\ last_requested \in Nat
      /\ first \in [Client -> Int] /\ page \in [Client -> Nat]
      /\ byte \in [Client -> SUBSET Nat] /\ owned \in [Client -> SUBSET Nat]
  BY DEF FramesTypeOK
<1>2. CASE free_page(c)
  <2>1. PICK p \in owned[c] : /\ Moves(c) /\ page' = [page EXCEPT ![c] = p]
                              /\ byte' = [byte EXCEPT ![c] = bitfield \cap Byte(p)]
    BY Zenon, <1>2 DEF free_page, Moves, Place, Window, Message
  <2>2. At(c, "idle") /\ UNCHANGED <<bitfield, last_requested, owned, first>>
    BY Zenon, <1>2 DEF free_page, shared
  <2>3. page' \in [Client -> Nat] /\ byte' \in [Client -> SUBSET Nat]
    BY <1>1, <2>1
  <2> QED
    BY <1>1, <2>1, <2>2, <2>3, TypesTogether
<1>3. CASE unlock_page(c)
  <2>1. Moves(c) /\ At(c, "unlock")
        /\ UNCHANGED <<bitfield, last_requested, owned, first, page>>
    BY Zenon, <1>3, LockMessages DEF unlock_page, Moves, Place, Window, shared
  <2>3. PICK seen \in {byte[c], bitfield \cap Byte(page[c])} : byte' = [byte EXCEPT ![c] = seen]
    BY Zenon, <1>3 DEF unlock_page, Reread
  <2>2. byte' \in [Client -> SUBSET Nat]
    BY <1>1, <2>3
  <2> QED
    BY <1>1, <2>1, <2>2, TypesTogether
<1>4. CASE clear_page_bit(c)
  <2>1. Moves(c) /\ At(c, "clear") /\ byte' = [byte EXCEPT ![c] = {}]
        /\ owned' = [owned EXCEPT ![c] = @ \ {page[c]}]
        /\ UNCHANGED <<last_requested, first, page>>
    BY Zenon, <1>4 DEF clear_page_bit, Moves, Place
  <2>2. PICK others \in {byte[c], bitfield \cap Byte(page[c])} :
              bitfield' = (bitfield \ Byte(page[c])) \cup (others \ {page[c]})
    BY Zenon, <1>4 DEF clear_page_bit, Reread
  <2>3. /\ bitfield' \subseteq Nat /\ byte' \in [Client -> SUBSET Nat]
        /\ owned' \in [Client -> SUBSET Nat]
    BY <1>1, <2>1, <2>2
  <2> QED
    BY <1>1, <2>1, <2>3, TypesTogether
<1>5. CASE VerifyFreed(c)
  <2>1. Moves(c) /\ At(c, "freed") /\ page' = [page EXCEPT ![c] = 0]
        /\ UNCHANGED <<bitfield, last_requested, owned, first, byte>>
    BY Zenon, <1>5 DEF VerifyFreed, Moves, Place, Message, shared
  <2>2. page' \in [Client -> Nat]
    BY <1>1, <2>1
  <2> QED
    BY <1>1, <2>1, <2>2, TypesTogether
<1> QED
  BY Zenon, <1>2, <1>3, <1>4, <1>5 DEF Free
-----------------------------------------------------------------------------
(* One task at a time is in the Window. *)

LEMMA Quiet ==
    ASSUME FramesInv, NEW c \in Client, NEW place, At(c, place), ~torn'
    PROVE  /\ ~torn /\ Whole /\ pc[c] = place
           /\ \A d \in Client \ {c} : pc[d] \notin Window
<1>1. torn' = (torn \/ \E d \in Client \ {c} : pc[d] \in Window) /\ pc[c] = place
  BY Zenon DEF At
<1> QED
  BY Zenon, <1>1 DEF FramesInv

LEMMA Moved ==
    ASSUME FramesInv, NEW c \in Client, Moves(c)
    PROVE  \A d \in Client \ {c} : pc'[d] = pc[d]
<1>1. pc \in [Client -> Place]
  BY Zenon DEF FramesInv, FramesTypeOK
<1>2. PICK x : pc' = [pc EXCEPT ![c] = x]
  BY Zenon DEF Moves, Goto, panic
<1> QED
  BY <1>1, <1>2

\* The other tasks are where they were, outside the Window, and rely on nothing.
LEMMA OthersHere ==
    ASSUME FramesInv, NEW c \in Client, NEW place, At(c, place), Moves(c), ~torn'
    PROVE  \A d \in Client \ {c} : Here(d)'
<1> SUFFICES ASSUME NEW d \in Client \ {c} PROVE Here(d)'
  OBVIOUS
<1>1. pc'[d] \notin Window
  BY Zenon, Quiet, Moved
<1> QED
  BY ONLY <1>1 DEF Here, Window

LEMMA StepWhole ==
    ASSUME FramesInv, NEW c \in Client, NEW place, At(c, place), Moves(c), ~torn',
           Kept', Here(c)'
    PROVE  Whole'
<1>1. \A d \in Client \ {c} : Here(d)'
  BY Zenon, OthersHere
<1> QED
  BY Zenon, <1>1 DEF Whole

LEMMA KeptSame ==
    ASSUME Kept, bitfield' = bitfield, owned' = owned, runs' = runs
    PROVE  Kept'
BY Zenon DEF Kept

\* Outside the Window a task that frees nothing relies on nothing.
Outside == {"idle", "test", "wrap", "compare", "advance", "found", "freed", "panicked"}

LEMMA PlainHere ==
    ASSUME NEW c \in Client, pc'[c] \in Outside
    PROVE  Here(c)'
BY DEF Here, Outside

\* A step of the search, or a panic, changes nothing that is relied on.
LEMMA PlainWhole ==
    ASSUME FramesInv, NEW c \in Client, NEW place, At(c, place), Moves(c), ~torn',
           bitfield' = bitfield, owned' = owned, pc'[c] \in Outside
    PROVE  Whole'
<1>1. Kept'
  BY Zenon, Quiet, KeptSame, AtTypes DEF Whole, FramesInv
<1>2. Here(c)'
  BY Zenon, PlainHere
<1> QED
  BY Zenon, <1>1, <1>2, StepWhole

LEMMA Going ==
    ASSUME FramesInv, NEW c \in Client
    PROVE  /\ \A x : Goto(c, x) => pc'[c] = x
           /\ \A m : panic(c, m) => pc'[c] = "panicked"
<1>1. pc \in [Client -> Place]
  BY Zenon DEF FramesInv, FramesTypeOK
<1> QED
  BY Zenon, <1>1 DEF Goto, panic

LEMMA SearchWhole ==
    ASSUME FramesInv, NEW c \in Client, ~torn',
           \/ request_page(c) \/ SearchTest(c) \/ SearchWrap(c) \/ SearchCompare(c)
           \/ SearchAdvance(c)
    PROVE  Whole'
<1>1. CASE request_page(c)
  <2>1. /\ At(c, "idle") /\ Goto(c, "test") /\ Moves(c)
        /\ UNCHANGED <<bitfield, owned>>
    BY Zenon, <1>1 DEF request_page, Moves, Place, shared
  <2>2. pc'[c] \in Outside
    BY Zenon, <2>1, Going DEF Outside
  <2> QED
    BY Zenon, <2>1, <2>2, PlainWhole
<1>2. CASE SearchTest(c)
  <2>1. /\ At(c, "test") /\ Moves(c) /\ (Goto(c, "wrap") \/ Goto(c, "found"))
        /\ UNCHANGED <<bitfield, owned>>
    BY Zenon, <1>2 DEF SearchTest, Moves, Place, shared
  <2>2. pc'[c] \in Outside
    BY Zenon, <2>1, Going DEF Outside
  <2> QED
    BY Zenon, <2>1, <2>2, PlainWhole
<1>3. CASE SearchWrap(c)
  <2>1. /\ At(c, "wrap") /\ Goto(c, "compare") /\ Moves(c)
        /\ UNCHANGED <<bitfield, owned>>
    BY Zenon, <1>3 DEF SearchWrap, Moves, Place, locals
  <2>2. pc'[c] \in Outside
    BY Zenon, <2>1, Going DEF Outside
  <2> QED
    BY Zenon, <2>1, <2>2, PlainWhole
<1>4. CASE SearchCompare(c)
  <2>1. /\ At(c, "compare") /\ Moves(c)
        /\ (Goto(c, "advance") \/ \E m : panic(c, m))
        /\ UNCHANGED <<bitfield, owned>>
    BY Zenon, <1>4 DEF SearchCompare, Moves, Place, Message, locals, shared
  <2>2. pc'[c] \in Outside
    BY Zenon, <2>1, Going DEF Outside
  <2> QED
    BY Zenon, <2>1, <2>2, PlainWhole
<1>5. CASE SearchAdvance(c)
  <2>1. /\ At(c, "advance") /\ Goto(c, "test") /\ Moves(c)
        /\ UNCHANGED <<bitfield, owned>>
    BY Zenon, <1>5 DEF SearchAdvance, Moves, Place, locals
  <2>2. pc'[c] \in Outside
    BY Zenon, <2>1, Going DEF Outside
  <2> QED
    BY Zenon, <2>1, <2>2, PlainWhole
<1> QED
  BY Zenon, <1>1, <1>2, <1>3, <1>4, <1>5

\* A task's view of the cursor changes only with the cursor and its own copy.
LEMMA CursorSame ==
    ASSUME FramesInv, NEW c \in Client, NEW place, At(c, place),
           UNCHANGED <<last_requested, page>>
    PROVE  Cursor(c)' = Cursor(c)
<1>1. cached' = cached
  BY Zenon, AtTypes DEF FramesInv
<1> QED
  BY Zenon, <1>1 DEF Cursor

\* From the argument of lock_page to the page handed out.
LEMMA LockWhole ==
    ASSUME FramesInv, NEW c \in Client, ~torn', CallLock(c) \/ lock_page(c)
    PROVE  Whole'
<1>1. /\ page \in [Client -> Nat] /\ byte \in [Client -> SUBSET Nat]
  BY DEF FramesInv, FramesTypeOK
<1>2. CASE CallLock(c)
  <2>1. /\ At(c, "found") /\ Goto(c, "lock") /\ Moves(c)
        /\ page' = [page EXCEPT ![c] = Cursor(c)]
        /\ last_requested' = (IF Cursor(c) = first[c] + 1 THEN last_requested ELSE Cursor(c))
        /\ UNCHANGED <<bitfield, owned>>
    BY Zenon, <1>2 DEF CallLock, Moves, Place, Window
  <2>2. pc'[c] = "lock" /\ page'[c] = Cursor(c)
    BY Zenon, <1>1, <2>1, Going
  <2>6. page'[c] = Cursor(c)'
    <3>1. cached' = cached
      BY Zenon, <2>1, AtTypes DEF FramesInv
    <3>2. ~cached => last_requested' = Cursor(c)
      BY Zenon, <2>1 DEF Cursor
    <3> QED
      BY Zenon, <2>2, <3>1, <3>2 DEF Cursor
  <2>3. Here(c)'
    BY ONLY <2>2, <2>6 DEF Here
  <2>4. Kept'
    BY Zenon, <2>1, Quiet, KeptSame, AtTypes DEF Whole, FramesInv
  <2> QED
    BY Zenon, <2>1, <2>3, <2>4, StepWhole
<1>3. CASE lock_page(c)
  <2>1. /\ At(c, "lock") /\ Moves(c)
        /\ UNCHANGED <<bitfield, last_requested, owned, page>>
    BY Zenon, <1>3, LockMessages DEF lock_page, Moves, Place, Window, shared
  <2>2. CASE page[c] <= Pages /\ page[c] \notin bitfield
    <3>1. Goto(c, "set") /\ Read(c)
      BY Zenon, <1>3, <2>2 DEF lock_page
    <3>2. pc'[c] = "set" /\ byte'[c] = bitfield \cap Byte(page[c])
      BY Zenon, <1>1, <3>1, Going DEF Read
    <3>3. page[c] = Cursor(c)
      <4>1. Here(c) /\ pc[c] = "lock"
        BY Zenon, <2>1, Quiet DEF Whole
      <4> QED
        BY ONLY <4>1 DEF Here
    <3>4. page'[c] = page[c] /\ Cursor(c)' = Cursor(c)
      BY Zenon, <2>1, CursorSame
    <3>7. page'[c] = Cursor(c)'
      BY Zenon, <3>3, <3>4
    <3>5. Here(c)'
      BY ONLY <2>1, <2>2, <3>2, <3>4, <3>7 DEF Here, Byte
    <3>6. Kept'
      BY Zenon, <2>1, Quiet, KeptSame, AtTypes DEF Whole, FramesInv
    <3> QED
      BY Zenon, <2>1, <3>5, <3>6, StepWhole
  <2>3. CASE ~(page[c] <= Pages /\ page[c] \notin bitfield)
    <3>1. \E m : panic(c, m)
      BY Zenon, <1>3, <2>3 DEF lock_page
    <3>2. pc'[c] \in Outside
      BY Zenon, <3>1, Going DEF Outside
    <3> QED
      BY Zenon, <2>1, <3>2, PlainWhole
  <2> QED
    BY <2>2, <2>3
<1> QED
  BY <1>2, <1>3

\* The bit is stored, and of the other bits of its byte none has changed since
\* they were read.
LEMMA SetBit ==
    ASSUME FramesInv, NEW c \in Client, ~torn', set_page_bit(c)
    PROVE  /\ bitfield' = bitfield \cup {page[c]} /\ page[c] = Cursor(c)
           /\ page[c] \in UsedSpace..Pages /\ page[c] \notin bitfield
<1>1. Here(c) /\ Kept /\ pc[c] = "set"
  <2>1. At(c, "set")
    BY Zenon DEF set_page_bit
  <2> QED
    BY Zenon, <2>1, Quiet DEF Whole
<1>2. /\ page[c] <= Pages /\ page[c] \notin bitfield /\ page[c] = Cursor(c)
      /\ byte[c] = bitfield \cap Byte(page[c])
  BY ONLY <1>1 DEF Here
<1>3. PICK others \in {byte[c], bitfield \cap Byte(page[c])} :
            bitfield' = (bitfield \ Byte(page[c])) \cup others \cup {page[c]}
  BY Zenon DEF set_page_bit, Reread
<1>4. bitfield' = bitfield \cup {page[c]}
  BY ONLY <1>2, <1>3
<1>5. page[c] \in Nat
  BY DEF FramesInv, FramesTypeOK
<1>6. page[c] \in UsedSpace..Pages
  <2>1. page[c] \notin 0..(UsedSpace - 1) /\ page[c] <= Pages
    BY Zenon, <1>1, <1>2 DEF Kept
  <2> QED
    BY ONLY <1>5, <2>1, PageAssumption
<1> QED
  BY <1>2, <1>4, <1>6

\* A page whose bit was clear was nobody's.
LEMMA ClearIsFree ==
    ASSUME Kept, NEW p, p \notin bitfield
    PROVE  /\ \A d \in Client : p \notin owned[d]
           /\ \A r \in runs : p \notin r.pages
BY Zenon DEF Kept

LEMMA SetWhole ==
    ASSUME FramesInv, NEW c \in Client, ~torn', set_page_bit(c)
    PROVE  Whole'
<1>1. /\ At(c, "set") /\ Goto(c, "verify") /\ Moves(c)
      /\ UNCHANGED <<last_requested, owned, page>>
  BY Zenon DEF set_page_bit, Moves, Place, Window
<1>2. /\ bitfield' = bitfield \cup {page[c]} /\ page[c] = Cursor(c)
      /\ page[c] \in UsedSpace..Pages /\ page[c] \notin bitfield
  BY SetBit
<1>3. Kept /\ runs' = runs
  BY Zenon, <1>1, Quiet, AtTypes DEF Whole, FramesInv
<1>4. Kept'
  BY Zenon, <1>1, <1>2, <1>3 DEF Kept
<1>5. Granted(page[c])'
  <2>1. \A d \in Client : page'[c] \notin owned'[d]
    BY Zenon, <1>1, <1>2, <1>3, ClearIsFree
  <2>2. \A r \in runs' : page'[c] \notin r.pages
    BY Zenon, <1>1, <1>2, <1>3, ClearIsFree
  <2>3. page'[c] \in bitfield' /\ page'[c] \in UsedSpace..Pages
    BY Zenon, <1>1, <1>2
  <2> QED
    BY Zenon, <2>1, <2>2, <2>3 DEF Granted
<1>6. pc'[c] = "verify" /\ page'[c] = Cursor(c)'
  BY Zenon, <1>1, <1>2, Going, CursorSame
<1>7. Here(c)'
  BY ONLY <1>5, <1>6 DEF Here
<1> QED
  BY Zenon, <1>1, <1>4, <1>7, StepWhole

LEMMA VerifyWhole ==
    ASSUME FramesInv, NEW c \in Client, ~torn', VerifySet(c) \/ VerifyReserved(c)
    PROVE  Whole'
<1>1. PICK place \in {"verify", "reserved"} :
            /\ At(c, place) /\ Moves(c)
            /\ UNCHANGED <<bitfield, last_requested, owned, page>>
  BY Zenon DEF VerifySet, VerifyReserved, Moves, Place, Window, Message, locals, shared
<1>3. Goto(c, "reserved") \/ Goto(c, "return") \/ \E m : panic(c, m)
  BY Zenon DEF VerifySet, VerifyReserved
<1>4. pc'[c] \in {"reserved", "return", "panicked"}
  BY Zenon, <1>3, Going
<1>5. Whole /\ pc[c] \in {"verify", "reserved"} /\ runs' = runs
  BY Zenon, <1>1, Quiet, AtTypes DEF FramesInv
<1>6. Granted(page[c]) /\ page[c] = Cursor(c)
  <2>1. Here(c)
    BY Zenon, <1>5 DEF Whole
  <2> QED
    BY ONLY <1>5, <2>1 DEF Here
<1>7. Granted(page[c])'
  BY Zenon, <1>1, <1>5, <1>6 DEF Granted
<1>8. page'[c] = Cursor(c)'
  BY Zenon, <1>1, <1>6, CursorSame
<1>9. Here(c)'
  BY ONLY <1>4, <1>7, <1>8 DEF Here
<1>10. Kept'
  BY Zenon, <1>1, <1>5, KeptSame DEF Whole
<1> QED
  BY Zenon, <1>1, <1>9, <1>10, StepWhole

LEMMA ReturnWhole ==
    ASSUME FramesInv, NEW c \in Client, ~torn', Return(c)
    PROVE  Whole'
<1> DEFINE p == Cursor(c)
<1>1. /\ At(c, "return") /\ Goto(c, "idle") /\ Moves(c)
      /\ owned' = [owned EXCEPT ![c] = @ \cup {p}]
      /\ bitfield' = bitfield
  BY Zenon DEF Return, Moves, Place
<1>2. Kept /\ Here(c) /\ pc[c] = "return" /\ runs' = runs
  BY Zenon, <1>1, Quiet, AtTypes DEF Whole, FramesInv
<1>3. Granted(p)
  BY ONLY <1>2 DEF Here
<1> HIDE DEF p
<1>4. owned \in [Client -> SUBSET Nat]
  BY DEF FramesInv, FramesTypeOK
<1>5. owned' = [d \in Client |-> IF d = c THEN owned[c] \cup {p} ELSE owned[d]]
  BY ONLY Zenon, <1>1, <1>4
<1>6. p \notin 0..(UsedSpace - 1)
  BY <1>3, PageAssumption DEF Granted
<1>7. Kept'
  <2>1. owned'[c] = owned[c] \cup {p} /\ \A d \in Client \ {c} : owned'[d] = owned[d]
    BY Zenon, <1>5
  <2>2. ASSUME NEW d \in Client PROVE owned'[d] \subseteq owned[d] \cup {p}
    BY Zenon, <2>1
  <2>3. ASSUME NEW d \in Client, NEW x \in owned'[d]
        PROVE  /\ x \in bitfield /\ x \notin 0..(UsedSpace - 1)
               /\ \A r \in runs : x \notin r.pages
    <3>1. CASE x = p
      BY Zenon, <1>3, <1>6, <3>1 DEF Granted
    <3>2. CASE x \in owned[d]
      BY Zenon, <1>2, <3>2 DEF Kept
    <3> QED
      BY Zenon, <2>2, <3>1, <3>2
  <2>4. ASSUME NEW d \in Client, NEW e \in Client \ {d} PROVE owned'[d] \cap owned'[e] = {}
    <3>1. owned[d] \cap owned[e] = {} /\ p \notin owned[d] /\ p \notin owned[e]
      BY Zenon, <1>2, <1>3 DEF Kept, Granted
    <3>2. CASE d = c
      <4>1. owned'[d] = owned[d] \cup {p} /\ owned'[e] = owned[e]
        BY Zenon, <2>1, <3>2
      <4> QED
        BY ONLY <3>1, <4>1
    <3>3. CASE d # c
      <4>1. owned'[d] = owned[d] /\ owned'[e] \subseteq owned[e] \cup {p}
        BY Zenon, <2>1, <2>2, <3>3
      <4> QED
        BY ONLY <3>1, <4>1
    <3> QED
      BY <3>2, <3>3
  <2>5. ASSUME NEW d \in Client
        PROVE  /\ owned'[d] \subseteq bitfield'
               /\ owned'[d] \cap 0..(UsedSpace - 1) = {}
               /\ \A r \in runs' : owned'[d] \cap r.pages = {}
    BY Zenon, <1>1, <1>2, <2>3
  <2>6. 0..(UsedSpace - 1) \subseteq bitfield' /\ \A r \in runs' : r.pages \subseteq bitfield'
    BY Zenon, <1>1, <1>2 DEF Kept
  <2> QED
    BY Zenon, <2>4, <2>5, <2>6 DEF Kept
<1>8. pc'[c] \in Outside
  BY Zenon, <1>1, Going DEF Outside
<1>9. Here(c)'
  BY Zenon, <1>8, PlainHere
<1> QED
  BY Zenon, <1>1, <1>7, <1>9, StepWhole

\* The bit is cleared, and no other.
LEMMA ClearBit ==
    ASSUME FramesInv, NEW c \in Client, ~torn', clear_page_bit(c)
    PROVE  bitfield' = bitfield \ {page[c]} /\ page[c] \in owned[c]
<1>1. Here(c) /\ pc[c] = "clear"
  <2>1. At(c, "clear")
    BY Zenon DEF clear_page_bit
  <2> QED
    BY Zenon, <2>1, Quiet DEF Whole
<1>2. byte[c] = bitfield \cap Byte(page[c]) /\ page[c] \in owned[c]
  BY ONLY <1>1 DEF Here
<1>3. PICK others \in {byte[c], bitfield \cap Byte(page[c])} :
            bitfield' = (bitfield \ Byte(page[c])) \cup (others \ {page[c]})
  BY Zenon DEF clear_page_bit, Reread
<1>4. page[c] \in Byte(page[c])
  BY ByteTypes DEF FramesInv, FramesTypeOK
<1> QED
  BY ONLY <1>2, <1>3, <1>4

LEMMA ClearWhole ==
    ASSUME FramesInv, NEW c \in Client, ~torn', clear_page_bit(c)
    PROVE  Whole'
<1>1. /\ At(c, "clear") /\ Goto(c, "freed") /\ Moves(c)
      /\ owned' = [owned EXCEPT ![c] = @ \ {page[c]}]
      /\ page' = page
  BY Zenon DEF clear_page_bit, Moves, Place
<1>2. bitfield' = bitfield \ {page[c]} /\ page[c] \in owned[c]
  BY ClearBit
<1>3. Kept /\ runs' = runs
  BY Zenon, <1>1, Quiet, AtTypes DEF Whole, FramesInv
<1>4. owned \in [Client -> SUBSET Nat]
  BY DEF FramesInv, FramesTypeOK
<1>5. owned' = [d \in Client |-> IF d = c THEN owned[c] \ {page[c]} ELSE owned[d]]
  BY ONLY Zenon, <1>1, <1>4
<1>6. Kept'
  BY <1>2, <1>3, <1>5 DEF Kept
<1>7. pc'[c] \in Outside
  BY Zenon, <1>1, Going DEF Outside
<1>8. Here(c)'
  BY Zenon, <1>7, PlainHere
<1> QED
  BY Zenon, <1>1, <1>6, <1>8, StepWhole

LEMMA FreeWhole ==
    ASSUME FramesInv, NEW c \in Client, ~torn',
           free_page(c) \/ unlock_page(c) \/ VerifyFreed(c)
    PROVE  Whole'
<1>1. /\ page \in [Client -> Nat] /\ byte \in [Client -> SUBSET Nat]
  BY DEF FramesInv, FramesTypeOK
<1>2. CASE free_page(c)
  <2>1. PICK p \in owned[c] :
             /\ Goto(c, "unlock") \/ \E m : panic(c, m)
             /\ page' = [page EXCEPT ![c] = p]
             /\ byte' = [byte EXCEPT ![c] = bitfield \cap Byte(p)]
    BY Zenon, <1>2 DEF free_page
  <2>2. /\ At(c, "idle") /\ Moves(c) /\ UNCHANGED <<bitfield, owned>>
    BY Zenon, <1>2 DEF free_page, Moves, Place, Window, Message, shared
  <2>3. pc'[c] \in {"unlock", "panicked"} /\ page'[c] = p /\ byte'[c] = bitfield \cap Byte(p)
    BY ZenonT(30), <1>1, <2>1, Going
  <2>5. Here(c)'
    BY ONLY p \in owned[c], <2>2, <2>3 DEF Here, Byte
  <2>6. Kept'
    BY Zenon, <2>2, Quiet, KeptSame, AtTypes DEF Whole, FramesInv
  <2> QED
    BY Zenon, <2>2, <2>5, <2>6, StepWhole
<1>3. CASE unlock_page(c)
  <2>1. /\ At(c, "unlock") /\ Moves(c) /\ UNCHANGED <<bitfield, owned, page>>
    BY Zenon, <1>3, LockMessages DEF unlock_page, Moves, Place, Window, shared
  <2>2. page[c] \in owned[c] /\ byte[c] = bitfield \cap Byte(page[c])
    <3>1. Here(c) /\ pc[c] = "unlock"
      BY Zenon, <2>1, Quiet DEF Whole
    <3> QED
      BY ONLY <3>1 DEF Here
  <2>3. PICK seen \in {byte[c], bitfield \cap Byte(page[c])} :
             /\ Goto(c, "clear") \/ \E m : panic(c, m)
             /\ byte' = [byte EXCEPT ![c] = seen]
    BY Zenon, <1>3 DEF unlock_page, Reread
  <2>4. pc'[c] \in {"clear", "panicked"} /\ byte'[c] = bitfield \cap Byte(page[c])
    BY Zenon, <1>1, <2>2, <2>3, Going
  <2>5. Here(c)'
    BY ONLY <2>1, <2>2, <2>4 DEF Here, Byte
  <2>6. Kept'
    BY Zenon, <2>1, Quiet, KeptSame, AtTypes DEF Whole, FramesInv
  <2> QED
    BY Zenon, <2>1, <2>5, <2>6, StepWhole
<1>4. CASE VerifyFreed(c)
  <2>1. /\ At(c, "freed") /\ Moves(c) /\ (Goto(c, "idle") \/ \E m : panic(c, m))
        /\ page' = [page EXCEPT ![c] = 0]
        /\ UNCHANGED <<bitfield, owned>>
    BY Zenon, <1>4 DEF VerifyFreed, Moves, Place, Message, shared
  <2>2. pc'[c] \in Outside
    BY Zenon, <2>1, Going DEF Outside
  <2> QED
    BY Zenon, <2>1, <2>2, PlainWhole
<1> QED
  BY <1>2, <1>3, <1>4

LEMMA TaskPreserves ==
    ASSUME FramesInv, NEW c \in Client, Request(c) \/ Free(c)
    PROVE  FramesInv'
<1>1. FramesTypeOK'
  BY Zenon, RequestTypes, FreeTypes DEF FramesInv
<1>2. ~torn' => Whole'
  BY Zenon, SearchWhole, LockWhole, SetWhole, VerifyWhole, ReturnWhole, ClearWhole,
     FreeWhole DEF Request, Free
<1> QED
  BY Zenon, <1>1, <1>2 DEF FramesInv

\* A run is locked while no task is in a call.
LEMMA RunPreserves ==
    ASSUME FramesInv, NEW num \in RunLengths, request_contiguous_pages(num)
    PROVE  FramesInv'
<1>0. /\ UNCHANGED <<last_requested, pc, locals, owned, booting, cached, disturbed, torn>>
      /\ \A c \in Client : pc[c] = "idle"
  BY Zenon DEF request_contiguous_pages, AllIdle
<1>a. \A c \in Client : Here(c)'
  BY <1>0 DEF Here
<1>1. CASE \E m \in Message : StopRun(m)
  <2>1. panicked' \in Message /\ UNCHANGED <<bitfield, last_run, runs>>
    BY Zenon, <1>1 DEF StopRun
  <2>2. FramesTypeOK'
    BY Zenon, <1>0, <2>1 DEF FramesInv, FramesTypeOK, locals
  <2>3. torn' \/ Kept'
    BY Zenon, <1>0, <2>1, KeptSame DEF FramesInv, Whole
  <2> QED
    BY Zenon, <1>a, <2>2, <2>3 DEF FramesInv, Whole
<1>2. CASE ~\E m \in Message : StopRun(m)
  <2>1. PICK p \in 0..(Pages + 1) :
          LET run == p..(p + num - 1)
          IN  /\ run \subseteq 0..Pages
              /\ run \cap bitfield = {}
              /\ bitfield' = bitfield \cup run
              /\ last_run' = p + num
              /\ runs' = runs \cup {[start |-> last_run - 1, pages |-> run]}
              /\ panicked' = panicked
    BY ZenonT(30), <1>2 DEF request_contiguous_pages, Message
  <2>2. num \in Nat \ {0} /\ p \in Int /\ Pages \in Nat
    BY PageAssumption
  <2>3. p + num - 1 \in p..(p + num - 1)
    BY <2>2
  <2>4. last_run' \in 0..(Pages + 1)
    BY <2>1, <2>2, <2>3
  <2> DEFINE run == p..(p + num - 1)
  <2>5. \A r \in runs' : r \in runs \/ (r.start = last_run - 1 /\ r.pages = run)
    BY <2>1
  <2>6. /\ run \subseteq 0..Pages /\ run \cap bitfield = {} /\ bitfield' = bitfield \cup run
        /\ panicked' = panicked
    BY <2>1
  <2> HIDE DEF run
  <2>7. last_run - 1 \in Int
    BY PageAssumption DEF FramesInv, FramesTypeOK
  <2>8. FramesTypeOK'
    <3>1. bitfield' \subseteq Nat
      BY <2>6, PageAssumption DEF FramesInv, FramesTypeOK
    <3>2. \A r \in runs' : r.start \in Int /\ r.pages \subseteq 0..Pages
      BY ZenonT(30), <2>5, <2>6, <2>7 DEF FramesInv, FramesTypeOK
    <3> QED
      BY Zenon, <1>0, <2>4, <2>6, <3>1, <3>2 DEF FramesInv, FramesTypeOK, locals
  <2>9. torn' \/ Kept'
    BY ZenonT(30), <1>0, <2>5, <2>6 DEF FramesInv, Whole, Kept
  <2> QED
    BY Zenon, <1>a, <2>8, <2>9 DEF FramesInv, Whole
<1> QED
  BY <1>1, <1>2

LEMMA FramesInvNext == FramesInv /\ [FramesNext]_frames => FramesInv'
<1> SUFFICES ASSUME FramesInv, [FramesNext]_frames PROVE FramesInv'
  OBVIOUS
<1>1. CASE boot
  <2>1. booting' = FALSE /\ UNCHANGED <<shared, last_run, pc, locals, runs, cached, panicked, disturbed, torn>>
    BY Zenon, <1>1 DEF boot
  <2>2. FramesTypeOK'
    BY Zenon, <2>1 DEF FramesInv, FramesTypeOK, shared, locals
  <2>3. torn' \/ Whole'
    BY Zenon, <2>1 DEF FramesInv, Whole, Kept, Here, Granted, Cursor, Byte, shared, locals
  <2> QED
    BY Zenon, <2>2, <2>3 DEF FramesInv
<1>2. CASE UNCHANGED frames
  <2>1. FramesTypeOK'
    BY Zenon, <1>2 DEF FramesInv, FramesTypeOK, frames, shared, locals
  <2>2. torn' \/ Whole'
    BY Zenon, <1>2 DEF FramesInv, Whole, Kept, Here, Granted, Cursor, Byte, frames, shared, locals
  <2> QED
    BY Zenon, <2>1, <2>2 DEF FramesInv
<1> QED
  BY Zenon, <1>1, <1>2, TaskPreserves, RunPreserves DEF FramesNext

LEMMA FramesInvariant == FramesSpec => []FramesInv
  BY FramesInvInit, FramesInvNext, PTL DEF FramesSpec

\* Types hold for every number of pages, tasks and run lengths, wherever tasks
\* are preempted.
THEOREM FramesTypeCorrect == FramesSpec => []FramesTypeOK
<1>1. FramesInv => FramesTypeOK
  BY DEF FramesInv
<1> QED
  BY <1>1, FramesInvariant, PTL

\* As long as no other task runs while one is in the Window, a page that
\* request_page handed out stays locked until its holder frees it, no two tasks
\* hold one page, and neither a page of a run nor one of the allocator's own
\* structures is handed out: wherever else tasks are preempted, all through the
\* search and before the check of lock_page.
THEOREM NoSharedPage == FramesSpec => []PagesExclusive
<1>1. FramesInv => PagesExclusive
  BY Zenon DEF FramesInv, Whole, Kept, PagesExclusive
<1> QED
  BY <1>1, FramesInvariant, PTL
-----------------------------------------------------------------------------
(* The page frame allocator implements the abstract allocator. *)

\* What is handed out when tasks own the pages own and rs are the runs.
HandedOut(own, rs, g) ==
    \/ \E c \in Client : \E p \in own[c] : g = [holder |-> c, units |-> {p}]
    \/ \E r \in rs : g = [holder |-> "run", units |-> r.pages]

OutIsHanded == \A g : g \in FrameOut <=> HandedOut(owned, runs, g)

LEMMA FrameOutMember == OutIsHanded
<1> SUFFICES ASSUME NEW g PROVE g \in FrameOut <=> HandedOut(owned, runs, g)
  BY DEF OutIsHanded
<1>1. \A c \in Client : g \in PagesOf(c) <=> \E p \in owned[c] : g = [holder |-> c, units |-> {p}]
  BY DEF PagesOf
<1>2. g \in RunsOut <=> \E r \in runs : g = [holder |-> "run", units |-> r.pages]
  BY DEF RunsOut
<1>3. g \in PagesOut <=> \E c \in Client : g \in PagesOf(c)
  BY DEF PagesOut
<1>4. g \in FrameOut <=> (\E c \in Client : g \in PagesOf(c)) \/ g \in RunsOut
  BY <1>3 DEF FrameOut
<1> QED
  BY ONLY <1>1, <1>2, <1>4 DEF HandedOut

LEMMA FrameOutNext == OutIsHanded'
BY FrameOutMember, PTL

LEMMA SameOut ==
    ASSUME owned' = owned, runs' = runs
    PROVE  FrameOut' = FrameOut
BY ONLY FrameOutMember, FrameOutNext, owned' = owned, runs' = runs DEF OutIsHanded

\* Everything handed out is locked.
LEMMA HandedOutLocked ==
    ASSUME Kept, NEW g \in FrameOut
    PROVE  g.units \subseteq bitfield
<1>1. CASE \E c \in Client : \E p \in owned[c] : g = [holder |-> c, units |-> {p}]
  <2>0. PICK c \in Client : \E p \in owned[c] : g = [holder |-> c, units |-> {p}]
    BY ZenonT(30), <1>1
  <2>1. PICK p \in owned[c] : g = [holder |-> c, units |-> {p}]
    BY ZenonT(30), <2>0
  <2>2. p \in bitfield
    BY DEF Kept
  <2> QED
    BY ONLY <2>1, <2>2
<1>2. CASE \E r \in runs : g = [holder |-> "run", units |-> r.pages]
  BY <1>2 DEF Kept
<1> QED
  BY <1>1, <1>2, FrameOutMember DEF HandedOut, OutIsHanded

\* A page that is granted is in no block that is handed out.
LEMMA GrantedIsNew ==
    ASSUME NEW p, Granted(p), NEW g \in FrameOut
    PROVE  g.units \cap {p} = {}
<1>1. CASE \E c \in Client : \E q \in owned[c] : g = [holder |-> c, units |-> {q}]
  <2>0. PICK c \in Client : \E q \in owned[c] : g = [holder |-> c, units |-> {q}]
    BY ZenonT(30), <1>1
  <2>1. PICK q \in owned[c] : g = [holder |-> c, units |-> {q}]
    BY ZenonT(30), <2>0
  <2>2. p # q
    BY Zenon DEF Granted
  <2> QED
    BY ONLY <2>1, <2>2
<1>2. CASE \E r \in runs : g = [holder |-> "run", units |-> r.pages]
  <2>1. PICK r \in runs : g = [holder |-> "run", units |-> r.pages]
    BY Zenon, <1>2
  <2>2. p \notin r.pages
    BY Zenon DEF Granted
  <2> QED
    BY ONLY <2>1, <2>2
<1> QED
  BY <1>1, <1>2, FrameOutMember DEF HandedOut, OutIsHanded

\* request_page, when it returns, hands out a page nobody holds.
LEMMA ReturnImplements ==
    ASSUME FramesInv, ~torn', NEW c \in Client, Return(c)
    PROVE  \E b \in FrameBlock : FrameAllocator!Allot(c, b)
<1> DEFINE p == Cursor(c)
           g == [holder |-> c, units |-> {p}]
<1>1. /\ At(c, "return") /\ owned' = [owned EXCEPT ![c] = @ \cup {p}]
  BY Zenon DEF Return
<1>2. Here(c) /\ pc[c] = "return" /\ runs' = runs
  BY Zenon, <1>1, Quiet, AtTypes DEF Whole, FramesInv
<1>3. Granted(p) /\ p \in UsedSpace..Pages
  BY ONLY <1>2 DEF Here, Granted
<1>4. owned \in [Client -> SUBSET Nat]
  BY DEF FramesInv, FramesTypeOK
<1> HIDE DEF p
<1>5. {p} \in FrameBlock
  <2>1. {p} \in {{q} : q \in UsedSpace..Pages}
    BY ONLY Zenon, <1>3
  <2> QED
    BY ONLY <2>1 DEF FrameBlock
<1>6. \A x \in FrameOut : x.units \cap {p} = {}
  BY Zenon, <1>3, GrantedIsNew
<1>7. owned' = [d \in Client |-> IF d = c THEN owned[c] \cup {p} ELSE owned[d]]
  BY ONLY ZenonT(30), <1>1, <1>4
<1>8. FrameOut' = FrameOut \cup {g}
  <2>1. ASSUME NEW x PROVE HandedOut(owned', runs', x) <=> HandedOut(owned, runs, x) \/ x = g
    BY <1>2, <1>7 DEF HandedOut
  <2> QED
    BY ONLY <2>1, FrameOutMember, FrameOutNext DEF OutIsHanded
<1> QED
  BY ZenonT(30), <1>5, <1>6, <1>8 DEF FrameAllocator!Allot, FrameAllocator!Handed

\* free_page takes back that page and nothing else: no task and no run holds
\* it too.
LEMMA ClearImplements ==
    ASSUME FramesInv, ~torn', NEW c \in Client, clear_page_bit(c)
    PROVE  \E g \in FrameOut : FrameAllocator!GiveBack(g)
<1> DEFINE p == page[c]
           g == [holder |-> c, units |-> {p}]
<1>1. At(c, "clear") /\ owned' = [owned EXCEPT ![c] = @ \ {p}]
  BY Zenon DEF clear_page_bit
<1>2. p \in owned[c]
  BY ClearBit
<1>3. runs' = runs /\ Kept
  BY Zenon, <1>1, Quiet, AtTypes DEF Whole, FramesInv
<1> HIDE DEF p
<1>4. owned \in [Client -> SUBSET Nat]
  BY DEF FramesInv, FramesTypeOK
<1>5. owned' = [d \in Client |-> IF d = c THEN owned[c] \ {p} ELSE owned[d]]
  BY ONLY Zenon, <1>1, <1>4
<1>6. \A r \in runs : p \notin r.pages
  BY <1>2, <1>3 DEF Kept
<1>7. g \in FrameOut
  BY <1>2, FrameOutMember DEF OutIsHanded, HandedOut
<1>8. FrameOut' = FrameOut \ {g}
  <2>1. ASSUME NEW x PROVE HandedOut(owned', runs', x) <=> HandedOut(owned, runs, x) /\ x # g
    BY <1>3, <1>5, <1>6 DEF HandedOut
  <2> QED
    BY ONLY ZenonT(30), <2>1, FrameOutMember, FrameOutNext DEF OutIsHanded
<1> QED
  BY <1>7, <1>8 DEF FrameAllocator!GiveBack

\* request_contiguous_pages locks pages that nobody holds.
LEMMA RunImplements ==
    ASSUME FramesInv, ~torn', NEW num \in RunLengths, request_contiguous_pages(num)
    PROVE  FrameOut' = FrameOut \/ \E b \in FrameBlock : FrameAllocator!Allot("run", b)
<1>0. Whole /\ owned' = owned
  BY Zenon DEF FramesInv, request_contiguous_pages
<1>1. CASE \E m \in Message : StopRun(m)
  <2>1. owned' = owned /\ runs' = runs
    BY Zenon, <1>0, <1>1 DEF StopRun
  <2> QED
    BY Zenon, <2>1, SameOut
<1>2. CASE ~\E m \in Message : StopRun(m)
  <2>1. PICK p \in 0..(Pages + 1) :
             /\ p..(p + num - 1) \subseteq 0..Pages
             /\ p..(p + num - 1) \cap bitfield = {}
             /\ runs' = runs \cup {[start |-> last_run - 1, pages |-> p..(p + num - 1)]}
             /\ owned' = owned
    BY ZenonT(30), <1>2 DEF request_contiguous_pages, Message
  <2> DEFINE run == p..(p + num - 1)
             g == [holder |-> "run", units |-> run]
  <2>2. run \in FrameBlock
    <3>1. p \in Nat /\ num \in Nat \ {0}
      BY PageAssumption
    <3>2. p \in 0..Pages
      BY ONLY <2>1, <3>1
    <3>3. run \subseteq UsedSpace..Pages
      <4>1. 0..(UsedSpace - 1) \subseteq bitfield
        BY <1>0 DEF Whole, Kept
      <4> QED
        BY ONLY <2>1, <4>1, PageAssumption
    <3>4. run \in {q..(q + n - 1) : q \in 0..Pages, n \in RunLengths}
      BY ONLY <3>2, num \in RunLengths
    <3> DEFINE intervals == {q..(q + n - 1) : q \in 0..Pages, n \in RunLengths}
               singles == {{q} : q \in UsedSpace..Pages}
    <3>5. run \in intervals
      BY <3>4
    <3>6. FrameBlock = singles \cup {b \in intervals : b \subseteq UsedSpace..Pages}
      BY DEF FrameBlock
    <3> HIDE DEF run, intervals, singles
    <3> QED
      BY ONLY <3>3, <3>5, <3>6
  <2>3. run \cap bitfield = {}
        /\ runs' = runs \cup {[start |-> last_run - 1, pages |-> run]} /\ owned' = owned
    BY <2>1
  <2> HIDE DEF run
  <2>4. \A x \in FrameOut : x.units \cap run = {}
    BY <1>0, <2>3, HandedOutLocked DEF Whole
  <2>5. FrameOut' = FrameOut \cup {g}
    <3>1. ASSUME NEW x PROVE HandedOut(owned', runs', x) <=> HandedOut(owned, runs, x) \/ x = g
      <4> DEFINE new == [start |-> last_run - 1, pages |-> run]
      <4>1. new.pages = run
        OBVIOUS
      <4>2. runs' = runs \cup {new}
        BY <2>3
      <4> HIDE DEF new
      <4>3. (\E r \in runs' : x = [holder |-> "run", units |-> r.pages])
            <=> (\E r \in runs : x = [holder |-> "run", units |-> r.pages]) \/ x = g
        BY ONLY <4>1, <4>2
      <4> HIDE DEF g
      <4> QED
        BY ONLY <2>3, <4>3 DEF HandedOut
    <3> QED
      BY ONLY ZenonT(30), <3>1, FrameOutMember, FrameOutNext DEF OutIsHanded
  <2> QED
    BY <2>2, <2>4, <2>5 DEF FrameAllocator!Allot, FrameAllocator!Handed
<1> QED
  BY <1>1, <1>2

\* No other step changes what is handed out.
LEMMA OtherSteps ==
    ASSUME FramesInv, NEW c \in Client, Request(c) \/ Free(c),
           ~Return(c), ~clear_page_bit(c)
    PROVE  FrameOut' = FrameOut
<1>1. owned' = owned
  BY Zenon DEF Request, Free, request_page, SearchTest, SearchWrap, SearchCompare,
     SearchAdvance, CallLock, lock_page, set_page_bit, VerifySet, VerifyReserved,
     free_page, unlock_page, VerifyFreed, shared
<1>2. \E place : At(c, place)
  BY Zenon DEF Request, Free, request_page, SearchTest, SearchWrap, SearchCompare,
     SearchAdvance, CallLock, lock_page, set_page_bit, VerifySet, VerifyReserved,
     free_page, unlock_page, VerifyFreed
<1>3. runs' = runs
  BY Zenon, <1>2, AtTypes DEF FramesInv
<1> QED
  BY <1>1, <1>3, SameOut

LEMMA FrameStepImplements ==
    ASSUME FramesInv, [FramesNext]_frames
    PROVE  [torn' \/ FrameAllocator!ANext]_FrameOut
<1> SUFFICES ASSUME ~torn' PROVE [FrameAllocator!ANext]_FrameOut
  OBVIOUS
<1>1. ASSUME NEW c \in Client, Request(c) \/ Free(c) PROVE [FrameAllocator!ANext]_FrameOut
  BY Zenon, <1>1, ReturnImplements, ClearImplements, OtherSteps DEF FrameAllocator!ANext
<1>2. ASSUME NEW num \in RunLengths, request_contiguous_pages(num)
      PROVE  [FrameAllocator!ANext]_FrameOut
  BY <1>2, RunImplements DEF FrameAllocator!ANext
<1>3. boot \/ UNCHANGED frames => owned' = owned /\ runs' = runs
  BY Zenon DEF boot, frames, shared
<1> QED
  BY <1>1, <1>2, <1>3, SameOut DEF FramesNext

\* request_page, request_contiguous_pages and free_page implement the
\* allocator their callers count on, for every number of tasks and pages, up to
\* the first step another task takes while one is in the Window.
THEOREM FramesAreAllocator == FramesSpec => FramesImplement
<1>1. FramesInit => FrameAllocator!AInit
  <2> SUFFICES ASSUME FramesInit PROVE FrameOut = {}
    BY DEF FrameAllocator!AInit
  <2>1. \A c \in Client : owned[c] = {}
    BY DEF FramesInit
  <2>2. runs = {}
    BY Zenon DEF FramesInit
  <2> QED
    BY <2>1, <2>2, FrameOutMember DEF OutIsHanded, HandedOut
<1>2. FramesInit /\ [][FramesNext]_frames /\ []FramesInv
      => FrameAllocator!AInit /\ [][torn' \/ FrameAllocator!ANext]_FrameOut
  BY <1>1, FrameStepImplements, PTL
<1> QED
  BY <1>2, FramesInvariant, PTL DEF FramesSpec, FramesImplement

\* Without such a step the allocator is the abstract one.
THEOREM UntornIsAllocator == FramesSpec /\ []~torn => FrameAllocator!ASpec
<1>1. ASSUME ~torn', [torn' \/ FrameAllocator!ANext]_FrameOut
      PROVE  [FrameAllocator!ANext]_FrameOut
  BY <1>1
<1> QED
  BY <1>1, FramesAreAllocator, PTL DEF FramesImplement, FrameAllocator!ASpec
-----------------------------------------------------------------------------
(* The search of a task that is not preempted. *)

\* The loop's test is at page k, f is the page where it stops: what it has
\* passed is locked.
Round(k, f) ==
    \/ f < 0
    \/ f >= Pages
    \/ k > f /\ (f + 1)..(k - 1) \subseteq bitfield
    \/ /\ k \in 1..f
       /\ (f + 1)..Pages \subseteq bitfield
       /\ 1..(k - 1) \subseteq bitfield

\* The same when page k has been tried too, and the cursor wrapped after the
\* last page.
Tried(k, f) ==
    /\ k < Pages
    /\ \/ f < 0
       \/ f >= Pages
       \/ k > f /\ (f + 1)..k \subseteq bitfield
       \/ /\ k \in 0..f
          /\ (f + 1)..Pages \subseteq bitfield
          /\ 1..k \subseteq bitfield

Searching(c) ==
    /\ pc[c] \in {"test", "wrap"} => Round(Cursor(c), first[c])
    /\ pc[c] = "wrap" => Cursor(c) \in bitfield
    /\ pc[c] \in {"compare", "advance"} => Tried(Cursor(c), first[c])
    /\ pc[c] = "advance" => Cursor(c) # first[c]
    /\ pc[c] = "found" => Cursor(c) \notin bitfield
    /\ pc[c] = "lock" => page[c] \notin bitfield

PageSearchInv ==
    /\ \A c \in Client : ~disturbed[c] => Searching(c)
    /\ NoFalseExhaustion
    /\ LocksWhatItFound

LEMMA RoundStarts ==
    ASSUME NEW k \in Nat
    PROVE  Round(k, k - 1)
BY PageAssumption DEF Round

LEMMA WrapTries ==
    ASSUME NEW k \in Nat, NEW f \in Int, Round(k, f), k \in bitfield
    PROVE  Tried(IF k >= Pages THEN 0 ELSE k, f)
<1>1. Pages \in Nat \ {0}
  BY PageAssumption
<1>2. CASE f < 0 \/ f >= Pages
  BY <1>1, <1>2 DEF Tried
<1>3. CASE f \in 0..(Pages - 1) /\ k < Pages
  <2>1. CASE k > f /\ (f + 1)..(k - 1) \subseteq bitfield
    <3>1. (f + 1)..k \subseteq bitfield
      BY <2>1
    <3> QED
      BY <1>1, <1>3, <2>1, <3>1 DEF Tried
  <2>2. CASE k \in 1..f /\ (f + 1)..Pages \subseteq bitfield /\ 1..(k - 1) \subseteq bitfield
    <3>1. 1..k \subseteq bitfield
      BY <2>2
    <3> QED
      BY <1>1, <1>3, <2>2, <3>1 DEF Tried
  <2> QED
    BY <1>1, <1>3, <2>1, <2>2 DEF Round
<1>4. CASE f \in 0..(Pages - 1) /\ k >= Pages
  <2>1. (f + 1)..(k - 1) \subseteq bitfield
    BY <1>1, <1>4 DEF Round
  <2>2. (f + 1)..Pages \subseteq bitfield
    BY <1>1, <1>4, <2>1
  <2> QED
    BY <1>1, <1>4, <2>2 DEF Tried
<1> QED
  BY <1>1, <1>2, <1>3, <1>4

LEMMA AdvanceRounds ==
    ASSUME NEW k \in Nat, NEW f \in Int, Tried(k, f), k # f
    PROVE  Round(k + 1, f)
<1>1. Pages \in Nat \ {0}
  BY PageAssumption
<1>2. CASE k > f /\ (f + 1)..k \subseteq bitfield
  BY <1>1, <1>2 DEF Round
<1>3. CASE k \in 0..f /\ (f + 1)..Pages \subseteq bitfield /\ 1..k \subseteq bitfield
  BY <1>1, <1>3 DEF Round
<1> QED
  BY <1>1, <1>2, <1>3 DEF Tried, Round

\* The loop stops where it began only after every page.
LEMMA RoundIsAll ==
    ASSUME NEW k \in Nat, Tried(k, k)
    PROVE  1..Pages \subseteq bitfield
BY PageAssumption DEF Tried

\* A task that is not at its first step in a call is disturbed by a step of
\* another.
LEMMA Disturbs ==
    ASSUME FramesInv, NEW c \in Client, NEW place, At(c, place), Moves(c)
    PROVE  /\ panicked = "none" /\ pc[c] = place
           /\ \A d \in Client \ {c} : ~disturbed'[d] => Searching(d)'
           /\ disturbed'[c] = (pc[c] # "idle" /\ disturbed[c])
<1>1. /\ disturbed' = [d \in Client |-> pc[d] # "idle" /\ (d = c => disturbed[c])]
      /\ panicked = "none" /\ pc[c] = place
  BY Zenon DEF At
<1>2. \A d \in Client : disturbed'[d] = (pc[d] # "idle" /\ (d = c => disturbed[c]))
  BY ONLY Zenon, <1>1
<1>3. disturbed[c] \in BOOLEAN
  BY Zenon DEF FramesInv, FramesTypeOK
<1>4. ASSUME NEW d \in Client \ {c}, ~disturbed'[d] PROVE Searching(d)'
  <2>1. pc'[d] = "idle"
    BY Zenon, <1>2, <1>4, Moved
  <2> QED
    BY <2>1 DEF Searching
<1>5. disturbed'[c] = (pc[c] # "idle" /\ disturbed[c])
  BY Zenon, <1>2, <1>3
<1> QED
  BY Zenon, <1>1, <1>4, <1>5

LEMMA StillUndisturbed ==
    ASSUME FramesInv, NEW c \in Client, NEW place, At(c, place), Moves(c), place # "idle",
           ~disturbed'[c], ~disturbed[c] => Searching(c)
    PROVE  Searching(c) /\ pc[c] = place
<1>1. pc[c] = place /\ disturbed'[c] = (pc[c] # "idle" /\ disturbed[c])
  BY Zenon, Disturbs
<1> QED
  BY Zenon, <1>1

\* A step that reports neither exhaustion nor a locked page, after which the
\* task's search is still sound if it was.
LEMMA SearchKept ==
    ASSUME FramesInv, NEW c \in Client, NEW place, At(c, place), Moves(c),
           panicked' \notin {"No free pages available!", "Page already locked!"},
           ~disturbed'[c] => Searching(c)'
    PROVE  PageSearchInv'
<1>1. \A d \in Client : ~disturbed'[d] => Searching(d)'
  BY Zenon, Disturbs
<1> QED
  BY Zenon, <1>1 DEF PageSearchInv, NoFalseExhaustion, LocksWhatItFound

LEMMA ElsewhereSearch ==
    ASSUME NEW c \in Client,
           pc'[c] \notin {"test", "wrap", "compare", "advance", "found", "lock"}
    PROVE  Searching(c)'
BY DEF Searching

\* Going on reports nothing.
LEMMA GoesOn ==
    ASSUME NEW c \in Client, NEW place, At(c, place), NEW x, Goto(c, x)
    PROVE  panicked' \notin {"No free pages available!", "Page already locked!"}
BY Zenon DEF At, Goto

LEMMA SearchStep ==
    ASSUME FramesInv, PageSearchInv, NEW c \in Client,
           \/ request_page(c) \/ SearchTest(c) \/ SearchWrap(c) \/ SearchAdvance(c)
           \/ CallLock(c)
    PROVE  PageSearchInv'
<1>0. /\ last_requested \in Nat /\ first \in [Client -> Int] /\ page \in [Client -> Nat]
      /\ Cursor(c) \in Nat /\ FramesTypeOK
  BY CursorType DEF FramesInv, FramesTypeOK
<1>00. ~disturbed[c] => Searching(c)
  BY Zenon DEF PageSearchInv
<1> DEFINE k == Cursor(c)
           f == first[c]
<1>1. CASE request_page(c)
  <2>1. /\ At(c, "idle") /\ Goto(c, "test") /\ Moves(c)
        /\ first' = [first EXCEPT ![c] = last_requested - 1]
        /\ page' = (IF cached THEN [page EXCEPT ![c] = last_requested] ELSE page)
        /\ UNCHANGED <<bitfield, last_requested>>
    BY Zenon, <1>1 DEF request_page, Moves, Place, shared
  <2>2. pc'[c] = "test" /\ first'[c] = last_requested - 1
    BY Zenon, <1>0, <2>1, Going
  <2>3. Cursor(c)' = last_requested
    <3>1. cached' = cached
      BY Zenon, <1>0, <2>1, AtTypes
    <3>2. cached => page'[c] = last_requested
      BY Zenon, <1>0, <2>1
    <3> QED
      BY Zenon, <2>1, <3>1, <3>2 DEF Cursor
  <2>4. Round(Cursor(c), first[c])'
    <3>1. Round(last_requested, last_requested - 1)
      BY <1>0, RoundStarts
    <3>2. bitfield' = bitfield
      BY <2>1
    <3> QED
      BY ONLY Zenon, <2>2, <2>3, <3>1, <3>2 DEF Round
  <2>5. Searching(c)'
    BY ONLY <2>2, <2>4 DEF Searching
  <2> QED
    BY Zenon, <2>1, <2>5, GoesOn, SearchKept
<1>2. CASE SearchTest(c)
  <2>1. /\ At(c, "test") /\ Moves(c) /\ UNCHANGED <<bitfield, last_requested, page, first>>
    BY Zenon, <1>2 DEF SearchTest, Moves, Place, shared, locals
  <2>2. Cursor(c)' = k /\ first'[c] = f /\ bitfield' = bitfield
    BY Zenon, <2>1, CursorSame
  <2>3. CASE k \in bitfield
    <3>1. Goto(c, "wrap")
      BY Zenon, <1>2, <2>3 DEF SearchTest
    <3>2. pc'[c] = "wrap"
      BY Zenon, <3>1, Going
    <3>3. ASSUME ~disturbed'[c] PROVE Searching(c)'
      <4>1. Searching(c) /\ pc[c] = "test"
        BY <1>00, <2>1, <3>3, StillUndisturbed
      <4>2. Round(k, f)
        BY ONLY <4>1 DEF Searching
      <4>3. Round(Cursor(c), first[c])'
        BY ONLY Zenon, <2>2, <4>2 DEF Round
      <4> QED
        BY ONLY <2>2, <2>3, <3>2, <4>3 DEF Searching
    <3> QED
      BY Zenon, <2>1, <3>1, <3>3, GoesOn, SearchKept
  <2>4. CASE k \notin bitfield
    <3>1. Goto(c, "found")
      BY Zenon, <1>2, <2>4 DEF SearchTest
    <3>2. pc'[c] = "found"
      BY Zenon, <3>1, Going
    <3>3. Searching(c)'
      BY ONLY <2>2, <2>4, <3>2 DEF Searching
    <3> QED
      BY Zenon, <2>1, <3>1, <3>3, GoesOn, SearchKept
  <2> QED
    BY <2>3, <2>4
<1>3. CASE SearchWrap(c)
  <2> DEFINE p == IF k >= Pages THEN 0 ELSE k
  <2>1. /\ At(c, "wrap") /\ Goto(c, "compare") /\ Moves(c) /\ SetCursor(c, p)
        /\ UNCHANGED <<bitfield, first>>
    BY Zenon, <1>3 DEF SearchWrap, Moves, Place
  <2>2. pc'[c] = "compare"
    BY Zenon, <2>1, Going
  <2>3. p \in Nat
    BY <1>0
  <2>4. Cursor(c)' = p /\ first'[c] = f /\ bitfield' = bitfield
    BY Zenon, <1>0, <2>1, <2>3, AtTypes, CursorMoves
  <2>5. ASSUME ~disturbed'[c] PROVE Searching(c)'
    <3>1. Searching(c) /\ pc[c] = "wrap"
      BY <1>00, <2>1, <2>5, StillUndisturbed
    <3>2. Round(k, f) /\ k \in bitfield
      BY ONLY <3>1 DEF Searching
    <3>3. Tried(p, f)
      BY Zenon, <1>0, <3>2, WrapTries
    <3> HIDE DEF p
    <3>4. Tried(Cursor(c), first[c])'
      BY ONLY Zenon, <2>4, <3>3 DEF Tried
    <3> QED
      BY ONLY <2>2, <3>4 DEF Searching
  <2> QED
    BY Zenon, <2>1, <2>5, GoesOn, SearchKept
<1>4. CASE SearchAdvance(c)
  <2>1. /\ At(c, "advance") /\ Goto(c, "test") /\ Moves(c) /\ SetCursor(c, k + 1)
        /\ UNCHANGED <<bitfield, first>>
    BY Zenon, <1>4 DEF SearchAdvance, Moves, Place
  <2>2. pc'[c] = "test"
    BY Zenon, <2>1, Going
  <2>3. k + 1 \in Nat
    BY <1>0
  <2>4. Cursor(c)' = k + 1 /\ first'[c] = f /\ bitfield' = bitfield
    BY Zenon, <1>0, <2>1, <2>3, AtTypes, CursorMoves
  <2>5. ASSUME ~disturbed'[c] PROVE Searching(c)'
    <3>1. Searching(c) /\ pc[c] = "advance"
      BY <1>00, <2>1, <2>5, StillUndisturbed
    <3>2. Tried(k, f) /\ k # f
      BY ONLY <3>1 DEF Searching
    <3>3. Round(k + 1, f)
      BY Zenon, <1>0, <3>2, AdvanceRounds
    <3>4. Round(Cursor(c), first[c])'
      BY ONLY Zenon, <2>4, <3>3 DEF Round
    <3> QED
      BY ONLY <2>2, <3>4 DEF Searching
  <2> QED
    BY Zenon, <2>1, <2>5, GoesOn, SearchKept
<1>5. CASE CallLock(c)
  <2>1. /\ At(c, "found") /\ Goto(c, "lock") /\ Moves(c)
        /\ page' = [page EXCEPT ![c] = k] /\ bitfield' = bitfield
    BY Zenon, <1>5 DEF CallLock, Moves, Place, Window
  <2>2. pc'[c] = "lock" /\ page'[c] = k /\ bitfield' = bitfield
    BY ZenonT(30), <1>0, <2>1, Going
  <2>3. ASSUME ~disturbed'[c] PROVE Searching(c)'
    <3>1. Searching(c) /\ pc[c] = "found"
      BY ZenonT(30), <1>00, <2>1, <2>3, StillUndisturbed
    <3>2. page'[c] \notin bitfield'
      <4>1. k \notin bitfield
        BY ONLY Zenon, <3>1 DEF Searching
      <4> QED
        BY ONLY Zenon, <2>2, <4>1
    <3> QED
      BY ONLY ZenonT(30), <2>2, <3>2 DEF Searching
  <2> QED
    BY Zenon, <2>1, <2>3, GoesOn, SearchKept
<1> QED
  BY ZenonT(30), <1>1, <1>2, <1>3, <1>4, <1>5

LEMMA CompareStep ==
    ASSUME FramesInv, PageSearchInv, NEW c \in Client, SearchCompare(c)
    PROVE  PageSearchInv'
<1>0. Cursor(c) \in Nat
  BY Zenon, CursorType DEF FramesInv
<1>1. ~disturbed[c] => Searching(c)
  BY Zenon DEF PageSearchInv
<1>2. At(c, "compare") /\ Moves(c) /\ UNCHANGED <<bitfield, last_requested, first, page>>
  BY Zenon DEF SearchCompare, Moves, Place, Message, locals, shared
<1>5. Cursor(c)' = Cursor(c) /\ first'[c] = first[c] /\ bitfield' = bitfield
  BY Zenon, <1>2, CursorSame
<1>3. CASE Cursor(c) # first[c]
  <2>1. Goto(c, "advance")
    BY Zenon, <1>3 DEF SearchCompare
  <2>2. pc'[c] = "advance"
    BY Zenon, <2>1, Going
  <2>3. ASSUME ~disturbed'[c] PROVE Searching(c)'
    <3>1. Searching(c) /\ pc[c] = "compare"
      BY <1>1, <1>2, <2>3, StillUndisturbed
    <3>2. Tried(Cursor(c), first[c])
      BY ONLY <3>1 DEF Searching
    <3>3. Tried(Cursor(c), first[c])'
      BY ONLY Zenon, <1>5, <3>2 DEF Tried
    <3> QED
      BY ONLY <1>3, <1>5, <2>2, <3>3 DEF Searching
  <2> QED
    BY Zenon, <1>2, <2>1, <2>3, GoesOn, SearchKept
<1>4. CASE Cursor(c) = first[c]
  <2>1. panic(c, "No free pages available!")
    BY Zenon, <1>4 DEF SearchCompare
  <2>2. pc'[c] = "panicked" /\ panicked' = "No free pages available!"
    BY Zenon, <2>1, Going DEF panic
  <2>3. \A d \in Client : ~disturbed'[d] => Searching(d)'
    BY Zenon, <1>2, <2>2, Disturbs, ElsewhereSearch
  <2>4. ASSUME ~disturbed'[c] PROVE 1..Pages \subseteq bitfield'
    <3>1. Searching(c) /\ pc[c] = "compare"
      BY <1>1, <1>2, <2>4, StillUndisturbed
    <3>2. Tried(Cursor(c), Cursor(c))
      BY ONLY <1>4, <3>1 DEF Searching
    <3> QED
      BY Zenon, <1>0, <1>5, <3>2, RoundIsAll
  <2>5. NoFalseExhaustion'
    BY Zenon, <2>2, <2>4 DEF NoFalseExhaustion
  <2>6. LocksWhatItFound'
    BY Zenon, <2>2 DEF LocksWhatItFound
  <2> QED
    BY Zenon, <2>3, <2>5, <2>6 DEF PageSearchInv
<1> QED
  BY <1>3, <1>4

LEMMA LockStep ==
    ASSUME FramesInv, PageSearchInv, NEW c \in Client, lock_page(c)
    PROVE  PageSearchInv'
<1>1. ~disturbed[c] => Searching(c)
  BY Zenon DEF PageSearchInv
<1>2. At(c, "lock") /\ Moves(c)
  BY Zenon, LockMessages DEF lock_page, Moves, Place, Window
<1>3. CASE page[c] <= Pages /\ page[c] \notin bitfield
  <2>1. Goto(c, "set")
    BY Zenon, <1>3 DEF lock_page
  <2>2. pc'[c] \notin {"test", "wrap", "compare", "advance", "found", "lock"}
    BY Zenon, <2>1, Going
  <2> QED
    BY Zenon, <1>2, <2>1, <2>2, ElsewhereSearch, GoesOn, SearchKept
<1>4. CASE ~(page[c] <= Pages /\ page[c] \notin bitfield)
  <2>1. panic(c, IF page[c] > Pages THEN "address out of bounds" ELSE "Page already locked!")
    BY Zenon, <1>4 DEF lock_page
  <2>2. pc'[c] = "panicked" /\ panicked' \in {"address out of bounds", "Page already locked!"}
        /\ (panicked' = "Page already locked!" => ~(page[c] > Pages))
    BY Zenon, <2>1, Going DEF panic
  <2>3. \A d \in Client : ~disturbed'[d] => Searching(d)'
    BY <1>2, <2>2, Disturbs, ElsewhereSearch
  <2>4. NoFalseExhaustion'
    BY Zenon, <2>2 DEF NoFalseExhaustion
  <2>5. ASSUME panicked' = "Page already locked!" PROVE disturbed'[c]
    <3>1. page[c] <= Pages
      <4>1. ~(page[c] > Pages)
        BY Zenon, <2>2, <2>5
      <4>2. page[c] \in Nat
        BY DEF FramesInv, FramesTypeOK
      <4> QED
        BY ONLY <4>1, <4>2, PageAssumption
    <3>2. page[c] \in bitfield
      BY Zenon, <1>4, <3>1
    <3>3. ~disturbed'[c] => Searching(c) /\ pc[c] = "lock"
      BY <1>1, <1>2, StillUndisturbed
    <3> QED
      BY Zenon, <3>2, <3>3 DEF Searching
  <2>6. LocksWhatItFound'
    BY Zenon, <2>2, <2>5 DEF LocksWhatItFound
  <2> QED
    BY Zenon, <2>3, <2>4, <2>6 DEF PageSearchInv
<1> QED
  BY <1>3, <1>4

LEMMA AfterSearch ==
    ASSUME FramesInv, NEW c \in Client,
           \/ set_page_bit(c) \/ VerifySet(c) \/ VerifyReserved(c) \/ Return(c) \/ Free(c)
    PROVE  PageSearchInv'
<1>1. /\ \E place : At(c, place)
      /\ Moves(c)
  BY Zenon, LockMessages DEF set_page_bit, VerifySet, VerifyReserved, Return, Free, free_page,
     unlock_page, clear_page_bit, VerifyFreed, Moves, Place, Window, Message
<1>2. \/ \E x \in {"verify", "reserved", "return", "idle", "unlock", "clear", "freed"} : Goto(c, x)
      \/ \E m \in {"bit not set", "Page not reserved!", "Page was not locked!",
                   "address out of bounds", "Page not freed!"} : panic(c, m)
  BY Zenon DEF set_page_bit, VerifySet, VerifyReserved, Return, Free, free_page,
     unlock_page, clear_page_bit, VerifyFreed
<1>3. pc'[c] \notin {"test", "wrap", "compare", "advance", "found", "lock"}
  BY Zenon, <1>2, Going
<1>4. panicked' \notin {"No free pages available!", "Page already locked!"}
  BY Zenon, <1>1, <1>2, GoesOn DEF panic
<1> QED
  BY Zenon, <1>1, <1>3, <1>4, ElsewhereSearch, SearchKept

LEMMA RunSearch ==
    ASSUME FramesInv, PageSearchInv, NEW num \in RunLengths, request_contiguous_pages(num)
    PROVE  PageSearchInv'
<1>1. /\ panicked = "none" /\ \A c \in Client : pc[c] = "idle"
      /\ pc' = pc
  BY Zenon DEF request_contiguous_pages, AllIdle
<1>2. \A c \in Client : Searching(c)'
  BY <1>1 DEF Searching
<1>3. \/ panicked' = panicked
      \/ panicked' \in {"Page already reserved!", "address out of bounds"}
      \/ panicked' = "No free pages available!" /\ Exhausted(last_run) /\ bitfield' = bitfield
  BY ZenonT(30) DEF request_contiguous_pages, StopRun
<1>4. NoFalseExhaustion'
  BY Zenon, <1>1, <1>3 DEF NoFalseExhaustion, Exhausted
<1>5. LocksWhatItFound'
  BY Zenon, <1>1, <1>3 DEF LocksWhatItFound
<1> QED
  BY Zenon, <1>2, <1>4, <1>5 DEF PageSearchInv

LEMMA SearchInvariant == FramesSpec => []PageSearchInv
<1>1. FramesInit => PageSearchInv
  <2> SUFFICES ASSUME FramesInit PROVE PageSearchInv
    OBVIOUS
  <2>1. \A c \in Client : pc[c] = "idle"
    BY DEF FramesInit
  <2>2. \A c \in Client : Searching(c)
    BY <2>1 DEF Searching
  <2>3. panicked = "none"
    BY Zenon DEF FramesInit
  <2> QED
    BY Zenon, <2>2, <2>3 DEF PageSearchInv, NoFalseExhaustion, LocksWhatItFound
<1>2. FramesInv /\ PageSearchInv /\ [FramesNext]_frames => PageSearchInv'
  <2> SUFFICES ASSUME FramesInv, PageSearchInv, [FramesNext]_frames PROVE PageSearchInv'
    OBVIOUS
  <2>1. ASSUME NEW c \in Client, Request(c) \/ Free(c) PROVE PageSearchInv'
    BY Zenon, <2>1, SearchStep, CompareStep, LockStep, AfterSearch DEF Request
  <2>2. CASE boot \/ UNCHANGED frames
    <3>1. UNCHANGED <<shared, pc, locals, cached, panicked, disturbed>>
      BY Zenon, <2>2 DEF boot, frames
    <3> QED
      BY Zenon, <3>1 DEF PageSearchInv, Searching, Cursor, Round, Tried, NoFalseExhaustion, LocksWhatItFound,
         shared, locals
  <2> QED
    BY Zenon, <2>1, <2>2, RunSearch DEF FramesNext
<1> QED
  BY <1>1, <1>2, FramesInvariant, PTL DEF FramesSpec

\* A task that was not preempted in the call reports that memory is exhausted
\* only when every page is in use, wherever its search began.
THEOREM ExhaustionIsReal == FramesSpec => []NoFalseExhaustion
<1>1. PageSearchInv => NoFalseExhaustion
  BY DEF PageSearchInv
<1> QED
  BY <1>1, SearchInvariant, PTL

\* lock_page finds a page locked that request_page found clear only because
\* another task ran in between.
THEOREM UndisturbedLocks == FramesSpec => []LocksWhatItFound
<1>1. PageSearchInv => LocksWhatItFound
  BY DEF PageSearchInv
<1> QED
  BY <1>1, SearchInvariant, PTL
-----------------------------------------------------------------------------
(* The page after the last. *)

\* Its bit stays set, and no task is about to return it.
EndKept ==
    /\ Pages \in bitfield
    /\ \A c \in Client :
          /\ owned[c] \subseteq 0..(Pages - 1)
          /\ pc[c] \in {"verify", "reserved", "return"} => page[c] # Pages

EndInv == torn \/ EndKept

LEMMA EndTogether ==
    ASSUME FramesInv, NEW c \in Client, NEW place, At(c, place), Moves(c), ~torn',
           Pages \in bitfield',
           \A d \in Client : owned'[d] \subseteq 0..(Pages - 1),
           pc'[c] \in {"verify", "reserved", "return"} => page'[c] # Pages
    PROVE  EndKept'
<1>1. \A d \in Client \ {c} : pc'[d] = pc[d] /\ pc[d] \notin Window
  BY Zenon, Moved, Quiet
<1>2. \A d \in Client \ {c} : pc'[d] \notin {"verify", "reserved", "return"}
  BY Zenon, <1>1 DEF Window
<1> QED
  BY Zenon, <1>2 DEF EndKept

LEMMA EndTask ==
    ASSUME FramesInv, EndInv, NEW c \in Client, Request(c) \/ Free(c), ~torn'
    PROVE  EndKept'
<1>1. PICK place : At(c, place)
  BY Zenon DEF Request, Free, request_page, SearchTest, SearchWrap, SearchCompare,
     SearchAdvance, CallLock, lock_page, set_page_bit, VerifySet, VerifyReserved, Return,
     free_page, unlock_page, clear_page_bit, VerifyFreed
<1>2. Moves(c)
  BY Zenon, LockMessages DEF Request, Free, request_page, SearchTest, SearchWrap, SearchCompare,
     SearchAdvance, CallLock, lock_page, set_page_bit, VerifySet, VerifyReserved, Return,
     free_page, unlock_page, clear_page_bit, VerifyFreed, Moves, Place, Window, Message
<1>3. /\ Pages \in bitfield /\ \A d \in Client : owned[d] \subseteq 0..(Pages - 1)
      /\ pc[c] \in {"verify", "reserved", "return"} => page[c] # Pages
  BY Zenon, <1>1, Quiet DEF EndInv, EndKept
<1>4. owned \in [Client -> SUBSET Nat]
  BY DEF FramesInv, FramesTypeOK
<1>5. CASE set_page_bit(c)
  <2>1. bitfield' = bitfield \cup {page[c]} /\ page[c] \notin bitfield
    BY Zenon, <1>5, SetBit
  <2>2. page' = page /\ owned' = owned
    BY Zenon, <1>5 DEF set_page_bit
  <2>3. Pages \in bitfield' /\ page'[c] # Pages
    BY Zenon, <1>3, <2>1, <2>2
  <2> QED
    BY Zenon, <1>1, <1>2, <1>3, <2>2, <2>3, EndTogether
<1>6. CASE VerifySet(c) \/ VerifyReserved(c)
  <2>1. pc[c] \in {"verify", "reserved"}
    BY Zenon, <1>6 DEF VerifySet, VerifyReserved, At
  <2>2. UNCHANGED <<bitfield, owned, page>>
    BY Zenon, <1>6 DEF VerifySet, VerifyReserved, shared, locals
  <2> QED
    BY Zenon, <1>1, <1>2, <1>3, <2>1, <2>2, EndTogether
<1>7. CASE Return(c)
  <2>1. /\ At(c, "return") /\ Goto(c, "idle") /\ bitfield' = bitfield
        /\ owned' = [owned EXCEPT ![c] = @ \cup {Cursor(c)}]
    BY Zenon, <1>7 DEF Return
  <2>2. Here(c) /\ pc[c] = "return"
    BY Zenon, <2>1, Quiet DEF Whole
  <2>3. Cursor(c) \in 0..(Pages - 1)
    <3>1. page[c] = Cursor(c) /\ page[c] \in UsedSpace..Pages
      BY ONLY <2>2 DEF Here, Granted
    <3>2. page[c] # Pages
      BY Zenon, <1>3, <2>2
    <3> QED
      BY ONLY <3>1, <3>2, PageAssumption
  <2>4. \A d \in Client : owned'[d] \subseteq 0..(Pages - 1)
    BY <1>3, <1>4, <2>1, <2>3
  <2>5. pc'[c] = "idle"
    BY Zenon, <2>1, Going
  <2> QED
    BY Zenon, <1>1, <1>2, <1>3, <2>1, <2>4, <2>5, EndTogether
<1>8. CASE clear_page_bit(c)
  <2>1. bitfield' = bitfield \ {page[c]} /\ page[c] \in owned[c]
    BY Zenon, <1>8, ClearBit
  <2>2. Goto(c, "freed") /\ owned' = [owned EXCEPT ![c] = @ \ {page[c]}]
    BY Zenon, <1>8 DEF clear_page_bit
  <2>3. Pages \in bitfield'
    <3>1. page[c] \in 0..(Pages - 1)
      BY Zenon, <1>3, <2>1
    <3>2. page[c] # Pages
      BY ONLY <3>1, PageAssumption
    <3> QED
      BY Zenon, <1>3, <2>1, <3>2
  <2>4. \A d \in Client : owned'[d] \subseteq 0..(Pages - 1)
    BY <1>3, <1>4, <2>2
  <2>5. pc'[c] = "freed"
    BY Zenon, <2>2, Going
  <2> QED
    BY Zenon, <1>1, <1>2, <2>3, <2>4, <2>5, EndTogether
<1>9. CASE ~(set_page_bit(c) \/ VerifySet(c) \/ VerifyReserved(c) \/ Return(c) \/ clear_page_bit(c))
  <2>1. bitfield' = bitfield /\ owned' = owned
    BY Zenon, <1>9 DEF Request, Free, request_page, SearchTest, SearchWrap, SearchCompare,
       SearchAdvance, CallLock, lock_page, free_page, unlock_page, VerifyFreed, shared
  <2>2. \/ \E x \in {"test", "wrap", "compare", "advance", "found", "lock", "set", "unlock",
                     "clear", "idle"} : Goto(c, x)
        \/ \E m : panic(c, m)
    BY Zenon, <1>9 DEF Request, Free, request_page, SearchTest, SearchWrap, SearchCompare,
       SearchAdvance, CallLock, lock_page, free_page, unlock_page, VerifyFreed
  <2>3. pc'[c] \notin {"verify", "reserved", "return"}
    BY Zenon, <2>2, Going
  <2> QED
    BY Zenon, <1>1, <1>2, <1>3, <2>1, <2>3, EndTogether
<1> QED
  BY Zenon, <1>5, <1>6, <1>7, <1>8, <1>9

LEMMA EndRun ==
    ASSUME FramesInv, EndInv, NEW num \in RunLengths, request_contiguous_pages(num)
    PROVE  EndInv'
<1>1. UNCHANGED <<page, pc, owned, torn>>
  BY Zenon DEF request_contiguous_pages, locals
<1>2. bitfield \subseteq bitfield'
  BY ZenonT(30) DEF request_contiguous_pages, StopRun
<1> QED
  BY Zenon, <1>1, <1>2 DEF EndInv, EndKept

\* The page after the last is handed out only because its bit, past those of the
\* chunk, is clear after init_memory: where it happens to be set, every page
\* handed out is one of the chunk, up to the first step another task takes while
\* one is in the Window.
THEOREM SetEndKeepsRange == FramesSpec /\ Pages \in bitfield => []HandedOutInRange
<1>1. FramesInit /\ Pages \in bitfield => EndInv
  BY DEF FramesInit, EndInv, EndKept
<1>2. FramesInv /\ EndInv /\ [FramesNext]_frames => EndInv'
  <2> SUFFICES ASSUME FramesInv, EndInv, [FramesNext]_frames PROVE EndInv'
    OBVIOUS
  <2>1. CASE boot \/ UNCHANGED frames
    <3>1. UNCHANGED <<shared, locals, pc, torn>>
      BY Zenon, <2>1 DEF boot, frames
    <3> QED
      BY Zenon, <3>1 DEF EndInv, EndKept, shared, locals
  <2> QED
    BY Zenon, <2>1, EndTask, EndRun DEF EndInv, FramesNext
<1>3. EndInv => HandedOutInRange
  BY Zenon DEF EndInv, EndKept, HandedOutInRange
<1> QED
  BY <1>1, <1>2, <1>3, FramesInvariant, PTL DEF FramesSpec
=============================================================================
