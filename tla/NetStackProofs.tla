--------------------------- MODULE NetStackProofs ---------------------------
(***************************************************************************)
(* Proofs about the network stack, for any threshold and any size of the   *)
(* card's rings: receiving for any number of tasks, sending for one.       *)
(***************************************************************************)
EXTENDS NetStack, SequenceTheorems, TLAPS

\* A frame being sent is there, only one pass holds the lock, and the frame it
\* has processed is still on the queue.
Orderly ==
    /\ \A t \in Task : pc[t] \in {"tx_n", "tx_n wait", "flush_tx wait"} => p[t] # <<>>
    /\ \A t, u \in Task : pc[t] \in Passing /\ pc[u] \in Passing => t = u
    /\ \A t \in Task : pc[t] \in Passing => rx_queue_lock
    /\ \A t \in Task : pc[t] \in Taken => rx_queue # <<>>

\* A pass has rounds left for every frame on the queue.
Bounded ==
    /\ Len(rx_queue) <= RX_HARD_THRESHOLD + 1
    /\ \A t \in Task : pc[t] = "loop" => rounds[t] + Len(rx_queue) <= RX_HARD_THRESHOLD + 1
    /\ \A t \in Task : pc[t] \in Taken => rounds[t] + Len(rx_queue) <= RX_HARD_THRESHOLD + 2

IInv == TypeOK /\ Orderly /\ RxAccounted /\ Bounded

LEMMA PassingPlaces == Taken \subseteq Passing /\ "loop" \in Passing /\ "loop" \notin Taken
    BY DEF Taken, Passing

LEMMA NextDescInDesc == ASSUME NEW d \in Desc PROVE NextDesc(d) \in Desc
    BY RingAssumption DEF Desc, NextDesc

LEMMA Counts ==
    ASSUME TypeOK
    PROVE  /\ Len(rx_ring) \in Nat /\ Len(rx_queue) \in Nat /\ Len(processed) \in Nat
           /\ arrived \in Nat /\ rx_queue_size \in Nat
           /\ dropped_rx \in Nat /\ dropped_before \in Nat /\ InHand \in Nat
    BY LenProperties DEF TypeOK, InHand

LEMMA InitIInv == Init => IInv
<1> SUFFICES ASSUME Init PROVE IInv
    OBVIOUS
<1>1. TypeOK
  <2>1. 0 \in Desc /\ "idle" \in Places
    BY RingAssumption DEF Desc, Places
  <2>2. \A S : <<>> \in Seq(S)
    OBVIOUS
  <2>3. dropped_rx \in Nat /\ dropped_before \in Nat
    BY GarbageAssumption DEF Init
  <2>4. pc \in [Task -> Places] /\ rounds \in [Task -> Nat] /\ old_cur \in [Task -> Desc]
    BY <2>1 DEF Init
  <2>5. p \in [Task -> Seq(TxFrame)]
    BY <2>2 DEF Init
  <2>6. tx_buf \in [Desc -> TxFrame \cup {Zeroes}] /\ tx_done \in [Desc -> BOOLEAN]
    BY DEF Init
  <2> QED
    BY <2>1, <2>2, <2>3, <2>4, <2>5, <2>6 DEF Init, TypeOK
<1>2. Orderly
    BY DEF Init, Orderly, Passing, Taken
<1>3. RxAccounted
    BY GarbageAssumption DEF Init, RxAccounted, InHand, Taken
<1>4. Bounded
    BY ThresholdAssumption DEF Init, Bounded, Taken
<1> QED
    BY <1>1, <1>2, <1>3, <1>4 DEF IInv

LEMMA CardReceivesIInv == IInv /\ CardReceives => IInv'
<1> SUFFICES ASSUME IInv, CardReceives PROVE IInv'
    OBVIOUS
<1> USE DEF IInv
<1>1. PICK f \in Frame : rx_ring' = Append(rx_ring, [n |-> arrived + 1, f |-> f])
    BY DEF CardReceives
<1>2. [n |-> arrived + 1, f |-> f] \in Arrival
    BY DEF TypeOK, Arrival
<1>3. rx_ring' \in Seq(Arrival) /\ Len(rx_ring') = Len(rx_ring) + 1 /\ Len(rx_ring) \in Nat
    BY <1>1, <1>2, AppendProperties, LenProperties DEF TypeOK
<1>4. TypeOK'
    BY SMTT(30), <1>3 DEF TypeOK, CardReceives, card, local
<1>5. Orderly'
    BY ZenonT(30) DEF Orderly, CardReceives, local
<1>6. RxAccounted'
  <2>1. InHand' = InHand
    BY DEF InHand, CardReceives, local
  <2>3. /\ rx_queue' = rx_queue /\ rx_queue_size' = rx_queue_size /\ arrived' = arrived + 1
        /\ dropped_rx' = dropped_rx /\ dropped_before' = dropped_before /\ processed' = processed
    BY DEF CardReceives
  <2> QED
    <3>1. arrived' + dropped_before' + InHand' = (arrived + dropped_before + InHand) + 1
        BY SMTT(30), <2>1, <2>3, Counts
    <3>2. Len(rx_ring') + Len(rx_queue') + Len(processed') + dropped_rx'
             = (Len(rx_ring) + Len(rx_queue) + Len(processed) + dropped_rx) + 1
        BY SMTT(30), <1>3, <2>3, Counts
    <3> QED
        BY <3>1, <3>2, <2>3 DEF RxAccounted
<1>7. Bounded'
    BY DEF Bounded, CardReceives, local
<1> QED
    BY <1>4, <1>5, <1>6, <1>7

LEMMA InterruptIInv == IInv /\ (Interrupt \/ InterruptReturns) => IInv'
<1> SUFFICES ASSUME IInv, Interrupt \/ InterruptReturns PROVE IInv'
    OBVIOUS
<1>1. UNCHANGED <<rx_ring, rx_queue, rx_queue_size, rx_queue_lock, dropped_rx,
                  arp_cache, ip, tx_queue, card, local, history>> /\ irq' \in BOOLEAN
    BY ZenonT(30) DEF Interrupt, InterruptReturns
<1>2. TypeOK'
    BY <1>1 DEF IInv, TypeOK, card, local, history
<1>3. Orderly' /\ RxAccounted' /\ Bounded'
    BY ZenonT(30), <1>1 DEF IInv, Orderly, RxAccounted, Bounded, InHand, local, history
<1> QED
    BY <1>2, <1>3 DEF IInv

LEMMA ReceivedIInv == IInv /\ e1000_received => IInv'
<1> SUFFICES ASSUME IInv, e1000_received PROVE IInv'
    OBVIOUS
<1> USE DEF IInv
<1> DEFINE f == Head(rx_ring)
<1>1. f \in Arrival /\ rx_ring' \in Seq(Arrival) /\ Len(rx_ring') = Len(rx_ring) - 1
    BY HeadTailProperties DEF e1000_received, TypeOK
<1>3. UNCHANGED <<irq, rx_queue_lock, arp_cache, ip, tx_queue, card, local, history>>
    BY DEF e1000_received
<1>4. CASE Dropped
  <2>1. TypeOK'
    BY <1>1, <1>3, <1>4 DEF TypeOK, Dropped, card, local, history
  <2>2. Orderly' /\ Bounded'
    BY ZenonT(30), <1>3, <1>4 DEF Orderly, Bounded, Dropped, local
  <2>3. RxAccounted'
    <3>1. InHand' = InHand
        BY <1>3 DEF InHand, local
    <3> QED
        BY ONLY SMTT(30), <1>1, <1>3, <1>4, <3>1, Counts, TypeOK, RxAccounted DEF RxAccounted, Dropped, history
  <2> QED
    BY <2>1, <2>2, <2>3
<1>5. CASE ~Dropped
  <2>1. /\ ~rx_queue_lock /\ ~(rx_queue_size > RX_HARD_THRESHOLD)
        /\ rx_queue' = <<f>> \o rx_queue
        /\ rx_queue_size' = rx_queue_size + 1
        /\ dropped_rx' = dropped_rx
    BY <1>5 DEF e1000_received, inject_packet_callback, create_rx_packet
  <2>2. <<f>> \in Seq(Arrival) /\ Len(<<f>>) = 1
    BY <1>1
  <2>3. rx_queue' \in Seq(Arrival) /\ Len(rx_queue') = Len(rx_queue) + 1
    BY <1>1, <2>1, <2>2, ConcatProperties DEF TypeOK
  <2>4. TypeOK'
    BY SMTT(30), <1>1, <1>3, <2>1, <2>3 DEF TypeOK, card, local, history
  <2>5. \A t \in Task : pc'[t] = pc[t] /\ pc[t] \notin Passing /\ pc[t] \notin Taken /\ pc[t] # "loop"
    BY ZenonT(30), <1>3, <2>1, PassingPlaces DEF Orderly, local
  <2>6. Orderly' /\ InHand = 0 /\ InHand' = 0
    BY ZenonT(30), <1>3, <2>5 DEF Orderly, InHand, local
  <2>7. RxAccounted'
    BY <1>1, <1>3, <2>1, <2>3, <2>6, Counts DEF RxAccounted, history
  <2>8. Bounded'
    <3>1. Len(rx_queue') <= RX_HARD_THRESHOLD + 1
        BY <2>1, <2>3, Counts, ThresholdAssumption DEF RxAccounted
    <3> QED
        BY <3>1, <2>5 DEF Bounded
  <2> QED
    BY <2>4, <2>6, <2>7, <2>8
<1> QED
    BY <1>4, <1>5

\* A step that leaves the receive side alone and moves no task into or out of a
\* pass keeps the receive side's invariants.
LEMMA RxSame ==
    ASSUME IInv, pc' \in [Task -> Places],
           rx_ring' = rx_ring, rx_queue' = rx_queue, rx_queue_size' = rx_queue_size,
           rx_queue_lock' = rx_queue_lock, dropped_rx' = dropped_rx, arrived' = arrived,
           processed' = processed, dropped_before' = dropped_before, rounds' = rounds,
           \A u \in Task : /\ pc'[u] \in Passing <=> pc[u] \in Passing
                           /\ pc'[u] \in Taken <=> pc[u] \in Taken
                           /\ pc'[u] = "loop" <=> pc[u] = "loop",
           \A u \in Task : pc'[u] \in {"tx_n", "tx_n wait", "flush_tx wait"} => p'[u] # <<>>
    PROVE  Orderly' /\ RxAccounted' /\ Bounded'
<1>1. InHand' = InHand
    BY ZenonT(30) DEF InHand
<1>2. RxAccounted'
    BY ZenonT(30), <1>1 DEF RxAccounted, IInv
<1>3. Orderly'
    BY ZenonT(30) DEF Orderly, IInv
<1>4. Bounded'
    BY ZenonT(30) DEF Bounded, IInv
<1> QED
    BY ZenonT(30), <1>2, <1>3, <1>4

LEMMA WorkerIInv == ASSUME IInv, NEW t \in Task, network_worker(t) PROVE IInv'
<1> USE DEF IInv
<1>1. pc' \in [Task -> Places] /\ pc'[t] = "loop" /\ \A u \in Task : u # t => pc'[u] = pc[u]
    BY ZenonT(30) DEF network_worker, Goto, TypeOK, Places, Passing
<1>2. rounds' \in [Task -> Nat] /\ rounds'[t] = 0
    BY DEF network_worker, TypeOK
<1>3. \A u \in Task : pc[u] \notin Passing /\ pc[u] \notin Taken
    BY ZenonT(30), PassingPlaces DEF network_worker, Orderly
<1>4. rx_queue_lock' /\ rx_queue' = rx_queue /\ p' = p
    BY DEF network_worker
<1>5. TypeOK'
    BY <1>1, <1>2 DEF TypeOK, network_worker, card, history
<1>6. Orderly'
  <2>1. \A u \in Task : u # t => pc'[u] \notin Passing /\ pc'[u] \notin Taken
    BY <1>1, <1>3
  <2>2. pc'[t] \notin Taken /\ pc'[t] \notin {"tx_n", "tx_n wait", "flush_tx wait"}
    BY <1>1 DEF Taken
  <2> QED
    BY ZenonT(30), <1>1, <1>4, <2>1, <2>2 DEF Orderly
<1>7. InHand = 0 /\ InHand' = 0
    BY ZenonT(30), <1>1, <1>3 DEF InHand, Taken
<1>8. RxAccounted'
    BY <1>7 DEF RxAccounted, network_worker, history
<1>9. Bounded'
  <2>1. \A u \in Task : pc'[u] \notin Taken /\ (pc'[u] = "loop" => u = t)
    BY ZenonT(30), <1>1, <1>3, PassingPlaces DEF Taken
  <2>2. rounds'[t] + Len(rx_queue') <= RX_HARD_THRESHOLD + 1
    BY <1>2, <1>4, Counts, ThresholdAssumption DEF Bounded
  <2> QED
    BY <1>4, <2>1, <2>2 DEF Bounded
<1> QED
    BY <1>5, <1>6, <1>8, <1>9

LEMMA UnlinkIInv == ASSUME IInv, NEW t \in Task, Unlink(t) PROVE IInv'
<1> USE DEF IInv
<1>1. pc' \in [Task -> Places] /\ pc'[t] = "loop" /\ \A u \in Task : u # t => pc'[u] = pc[u]
    BY ZenonT(30) DEF Unlink, Goto, TypeOK, Places, Passing
<1>2. pc[t] = "unlink" /\ pc[t] \in Taken /\ pc[t] \in Passing
    BY DEF Unlink, At, Taken, Passing
<1>3. rx_queue # <<>>
    BY ZenonT(30), <1>2 DEF Orderly
<1>4. rx_queue' \in Seq(Arrival) /\ Len(rx_queue') = Len(rx_queue) - 1 /\ Len(rx_queue) > 0
    BY <1>3, HeadTailProperties, EmptySeq DEF Unlink, TypeOK
<1>5. rx_queue_size' = rx_queue_size - 1 /\ rx_queue_size' \in Nat
    BY <1>4, Counts DEF Unlink, RxAccounted
<1>6. TypeOK'
    BY ZenonT(30), <1>1, <1>4, <1>5 DEF TypeOK, Unlink, card, history
<1>7. \A u \in Task : u # t => pc[u] \notin Passing /\ pc[u] \notin Taken
    BY ZenonT(30), <1>2, PassingPlaces DEF Orderly
<1>8. \A u \in Task : pc'[u] \notin Taken
    BY ZenonT(30), <1>1, <1>7 DEF Taken
<1>9. Orderly'
  <2>1. \A u \in Task : pc'[u] \in Passing => u = t
    BY <1>1, <1>7
  <2>2. rx_queue_lock' = rx_queue_lock /\ rx_queue_lock /\ p' = p
    BY ZenonT(30), <1>2 DEF Orderly, Unlink
  <2>3. pc'[t] \notin {"tx_n", "tx_n wait", "flush_tx wait"}
    BY <1>1
  <2> QED
    BY ZenonT(30), <1>1, <1>8, <2>1, <2>2, <2>3 DEF Orderly
<1>10. InHand = 1 /\ InHand' = 0
    BY <1>2, <1>8 DEF InHand
<1>11. RxAccounted'
  <2>1. /\ rx_ring' = rx_ring /\ processed' = processed /\ arrived' = arrived
        /\ dropped_rx' = dropped_rx /\ dropped_before' = dropped_before
    BY DEF Unlink, history
  <2> QED
    BY SMTT(30), <1>4, <1>5, <1>10, <2>1, Counts DEF RxAccounted
<1>12. Bounded'
  <2>1. rounds' = rounds /\ rounds[t] \in Nat
    BY DEF Unlink, TypeOK
  <2>2. rounds[t] + Len(rx_queue) <= RX_HARD_THRESHOLD + 2 /\ Len(rx_queue) <= RX_HARD_THRESHOLD + 1
    BY <1>2 DEF Bounded
  <2>5. Len(rx_queue) \in Nat /\ RX_HARD_THRESHOLD \in Nat
    BY Counts, ThresholdAssumption
  <2>3. rounds'[t] + Len(rx_queue') <= RX_HARD_THRESHOLD + 1 /\ Len(rx_queue') <= RX_HARD_THRESHOLD + 1
    <3> HIDE DEF IInv
    <3> QED
        BY SMTT(30), <1>4, <2>1, <2>2, <2>5
  <2>4. \A u \in Task : pc'[u] = "loop" => u = t
    BY <1>1, <1>7, PassingPlaces
  <2> QED
    BY <1>8, <2>3, <2>4 DEF Bounded
<1> QED
    BY <1>6, <1>9, <1>11, <1>12

LEMMA ReleaseIInv == ASSUME IInv, NEW t \in Task, Release(t) PROVE IInv'
<1> USE DEF IInv
<1>1. pc' \in [Task -> Places] /\ pc'[t] = "flush_tx" /\ \A u \in Task : u # t => pc'[u] = pc[u]
    BY ZenonT(30) DEF Release, Goto, TypeOK, Places
<1>2. p' \in [Task -> Seq(TxFrame)] /\ \A u \in Task : u # t => p'[u] = p[u]
    BY ZenonT(30) DEF Release, TypeOK
<1>3. pc[t] = "loop" /\ pc[t] \in Passing /\ pc[t] \notin Taken
    BY PassingPlaces DEF Release, At
<1>4. TypeOK'
    BY ZenonT(30), <1>1, <1>2 DEF TypeOK, Release, card, history
<1>5. \A u \in Task : pc'[u] \notin Passing /\ pc[u] \notin Taken /\ pc'[u] \notin Taken /\ pc'[u] # "loop"
  <2>1. pc'[t] \notin Passing
    BY <1>1 DEF Passing
  <2>2. \A u \in Task : u # t => pc[u] \notin Passing
    BY ZenonT(30), <1>3 DEF Orderly
  <2> QED
    BY <1>1, <1>3, <2>1, <2>2, PassingPlaces
<1>6. Orderly'
  <2>1. pc'[t] \notin {"tx_n", "tx_n wait", "flush_tx wait"}
    BY <1>1
  <2> QED
    BY ZenonT(30), <1>1, <1>2, <1>5, <2>1 DEF Orderly
<1>7. InHand = 0 /\ InHand' = 0
    BY <1>5 DEF InHand
<1>8. RxAccounted'
    BY <1>7 DEF RxAccounted, Release, history
<1>9. Bounded'
    BY ZenonT(30), <1>5 DEF Bounded, Release
<1> QED
    BY <1>4, <1>6, <1>8, <1>9

LEMMA TxPacket ==
    ASSUME TypeOK, NEW to \in Mac, create_tx_packet(to)
    PROVE  /\ tx_queue' \in Seq(TxFrame) /\ tx_queue' # <<>> /\ made' \in Nat
           /\ Len(tx_queue') = Len(tx_queue) + 1
           /\ tx_queue'[1] = [n |-> made + 1, to |-> to]
           /\ \A i \in 1..Len(tx_queue) : tx_queue'[i + 1] = tx_queue[i]
<1> DEFINE f == [n |-> made + 1, to |-> to]
<1>1. f \in TxFrame /\ made + 1 \in Nat
    BY DEF TypeOK, TxFrame
<1>2. <<f>> \in Seq(TxFrame) /\ Len(<<f>>) = 1 /\ <<f>>[1] = f
    BY <1>1
<1>3. tx_queue \in Seq(TxFrame) /\ Len(tx_queue) \in Nat
    BY LenProperties DEF TypeOK
<1> HIDE DEF f
<1>4. /\ <<f>> \o tx_queue \in Seq(TxFrame)
      /\ Len(<<f>> \o tx_queue) = 1 + Len(tx_queue)
      /\ \A i \in 1..1 + Len(tx_queue) :
            (<<f>> \o tx_queue)[i] = IF i <= 1 THEN <<f>>[1] ELSE tx_queue[i - 1]
    BY <1>2, <1>3, ConcatProperties
<1>5. tx_queue' = <<f>> \o tx_queue /\ made' = made + 1
    BY DEF create_tx_packet, f
<1>6. tx_queue' # <<>>
    BY <1>3, <1>4, <1>5, EmptySeq
<1>7. \A i \in 1..Len(tx_queue) : i + 1 \in 1..1 + Len(tx_queue) /\ ~(i + 1 <= 1) /\ (i + 1) - 1 = i
    BY <1>3
<1>8. tx_queue'[1] = f
    BY <1>2, <1>3, <1>4, <1>5
<1>9. \A i \in 1..Len(tx_queue) : tx_queue'[i + 1] = tx_queue[i]
    BY <1>4, <1>5, <1>7
<1> QED
    BY <1>1, <1>3, <1>4, <1>5, <1>6, <1>8, <1>9 DEF f

LEMMA CacheType ==
    ASSUME TypeOK, NEW spa \in Ip, NEW sha \in Mac, add_arp_cache_entry(spa, sha)
    PROVE  arp_cache' \in Seq([ip : Ip, mac : Mac])
<1> DEFINE S == [ip : Ip, mac : Mac]
<1> DEFINE e == [ip |-> spa, mac |-> sha]
<1>1. e \in S /\ arp_cache \in Seq(S)
    BY DEF TypeOK
<1>2. DOMAIN arp_cache = 1..Len(arp_cache) /\ Len(arp_cache) \in Nat
      /\ \A i \in 1..Len(arp_cache) : arp_cache[i] \in S
    BY ZenonT(30), <1>1, LenProperties, ElementOfSeq
<1> HIDE DEF S, e
<1>3. CASE \E i \in DOMAIN arp_cache : arp_cache[i].ip = spa
  <2>1. arp_cache' = [i \in 1..Len(arp_cache) |-> IF arp_cache[i].ip = spa THEN e ELSE arp_cache[i]]
    BY ZenonT(30), <1>2, <1>3 DEF add_arp_cache_entry, e
  <2>2. arp_cache' \in [1..Len(arp_cache) -> S]
    BY <1>1, <1>2, <2>1
  <2>3. arp_cache' \in Seq(S)
    <3> DEFINE n == Len(arp_cache)
    <3>1. n \in Nat /\ arp_cache' \in [1..n -> S]
        BY <1>2, <2>2
    <3> HIDE DEF n
    <3>2. [1..n -> S] \in {[1..m -> S] : m \in Nat}
        BY <3>1
    <3> QED
        BY <3>1, <3>2, SeqDef
  <2> QED
    BY <2>3 DEF S
<1>4. CASE ~\E i \in DOMAIN arp_cache : arp_cache[i].ip = spa
  <2>1. arp_cache' = <<e>> \o arp_cache
    BY <1>4 DEF add_arp_cache_entry, e
  <2>2. <<e>> \in Seq(S)
    BY <1>1
  <2>3. arp_cache' \in Seq(S)
    BY <1>1, <2>1, <2>2, ConcatProperties
  <2> QED
    BY <2>3 DEF S
<1> QED
    BY <1>3, <1>4

\* Two facts of the sequences library in the form the queues use them.
LEMMA AppendFacts ==
    ASSUME NEW S, NEW s \in Seq(S), NEW e \in S, NEW r, r = Append(s, e)
    PROVE  /\ Len(s) \in Nat /\ DOMAIN s = 1..Len(s)
           /\ r \in Seq(S) /\ Len(r) = Len(s) + 1 /\ DOMAIN r = 1..Len(s) + 1
           /\ \A k \in 1..Len(s) : r[k] = s[k]
           /\ r[Len(s) + 1] = e
    OBVIOUS

LEMMA PrependFacts ==
    ASSUME NEW S, NEW s \in Seq(S), NEW e \in S, NEW r, r = <<e>> \o s
    PROVE  /\ Len(s) \in Nat /\ DOMAIN s = 1..Len(s)
           /\ r \in Seq(S) /\ DOMAIN r = 1..Len(s) + 1
           /\ r[1] = e
           /\ \A k \in 1..Len(s) : r[k + 1] = s[k]
    OBVIOUS

\* What the k-th frame said, for the frames processed before a step of Process
\* and for the one it processes.
LEMMA ProcessedGrows ==
    ASSUME TypeOK, NEW t \in Task, Process(t)
    PROVE  /\ processed' \in Seq([n : Nat, f : Frame, ip : Ip \cup {NoIp}])
           /\ Len(processed') = Len(processed) + 1
           /\ Len(processed) \in Nat
           /\ DOMAIN processed = 1..Len(processed)
           /\ DOMAIN processed' = 1..Len(processed) + 1
           /\ \A k \in 1..Len(processed) : processed'[k] = processed[k]
           /\ processed'[Len(processed) + 1] =
                 [n |-> Head(rx_queue).n, f |-> Head(rx_queue).f, ip |-> ip]
<1> DEFINE e == [n |-> Head(rx_queue).n, f |-> Head(rx_queue).f, ip |-> ip]
<1> DEFINE S == [n : Nat, f : Frame, ip : Ip \cup {NoIp}]
<1>1. e \in S
  <2>1. Head(rx_queue) \in Arrival
    BY HeadTailProperties DEF TypeOK, Process
  <2> QED
    BY ZenonT(30), <2>1 DEF TypeOK, Arrival
<1>2. processed \in Seq(S) /\ processed' = Append(processed, e)
    BY DEF TypeOK, Process
<1> HIDE DEF e, S
<1>3. /\ processed' \in Seq(S) /\ Len(processed') = Len(processed) + 1
      /\ Len(processed) \in Nat
      /\ DOMAIN processed = 1..Len(processed)
      /\ DOMAIN processed' = 1..Len(processed) + 1
      /\ \A k \in 1..Len(processed) : processed'[k] = processed[k]
      /\ processed'[Len(processed) + 1] = e
    BY SMTT(30), <1>1, <1>2, AppendFacts
<1> QED
    BY ZenonT(30), <1>3 DEF e, S

LEMMA ProcessIInv == ASSUME IInv, NEW t \in Task, Process(t) PROVE IInv'
<1> USE DEF IInv
<1> DEFINE f == Head(rx_queue).f
<1>1. pc[t] = "loop" /\ rx_queue # <<>> /\ rounds[t] <= RX_HARD_THRESHOLD /\ process_packet(t, f)
    BY DEF Process, At
<1>2. Head(rx_queue) \in Arrival /\ f \in Frame /\ Head(rx_queue).n \in Nat
  <2>1. Head(rx_queue) \in Arrival
    BY ZenonT(30), <1>1, HeadTailProperties DEF TypeOK
  <2> QED
    BY <2>1 DEF Arrival
<1>3. pc' \in [Task -> Places] /\ pc'[t] \in {"tx_n", "unlink"} /\ \A u \in Task : u # t => pc'[u] = pc[u]
    BY ZenonT(30), <1>1 DEF process_packet, Goto, TypeOK, Places, Passing
<1>4. pc'[t] \in Taken /\ pc'[t] \in Passing /\ pc'[t] # "loop" /\ pc[t] \in Passing /\ pc[t] \notin Taken
    BY ZenonT(30), <1>1, <1>3, PassingPlaces DEF Taken
<1>5. rounds' \in [Task -> Nat] /\ rounds'[t] = rounds[t] + 1 /\ rounds[t] \in Nat
  <2>1. rounds \in [Task -> Nat] /\ rounds' = [rounds EXCEPT ![t] = @ + 1]
    BY Zenon DEF Process, TypeOK
  <2> QED
    BY ONLY <2>1, t \in Task
<1>6. processed' \in Seq([n : Nat, f : Frame, ip : Ip \cup {NoIp}]) /\ Len(processed') = Len(processed) + 1
    BY ZenonT(30), ProcessedGrows
<1>7. /\ tx_queue' \in Seq(TxFrame) /\ made' \in Nat /\ p' \in [Task -> Seq(TxFrame)]
      /\ arp_cache' \in Seq([ip : Ip, mac : Mac])
      /\ pc'[t] = "tx_n" => p'[t] # <<>>
      /\ \A u \in Task : u # t => p'[u] = p[u]
  <2>1. CASE IsRequest(f)
    <3>1. f.sha \in Mac
        BY ZenonT(30), <1>2, <2>1, FrameAssumption DEF IsRequest
    <3>2. create_tx_packet(f.sha) /\ p' = [p EXCEPT ![t] = tx_queue'] /\ arp_cache' = arp_cache
        BY ZenonT(30), <1>1, <2>1 DEF process_packet, IsRequest, IsReply
    <3> QED
        BY ZenonT(30), <3>1, <3>2, TxPacket DEF TypeOK
  <2>2. CASE ~IsRequest(f)
    <3>1. UNCHANGED <<tx_queue, made, p>> /\ pc'[t] = "unlink"
        BY <1>1, <2>2 DEF process_packet, Goto, TypeOK
    <3>2. arp_cache' \in Seq([ip : Ip, mac : Mac])
      <4>1. CASE IsReply(f)
        <5>1. f.sha \in Mac /\ f.spa \in Ip
            BY ZenonT(30), <1>2, <4>1, FrameAssumption DEF IsReply
        <5>2. add_arp_cache_entry(f.spa, f.sha)
            BY ZenonT(30), <1>1, <2>2, <4>1 DEF process_packet
        <5> QED
            BY ZenonT(30), <5>1, <5>2, CacheType
      <4>2. CASE ~IsReply(f)
        <5>1. arp_cache' = arp_cache
            BY <1>1, <2>2, <4>2 DEF process_packet
        <5> QED
            BY ZenonT(30), <5>1 DEF TypeOK
      <4> QED
        BY <4>1, <4>2
    <3> QED
        BY ZenonT(30), <3>1, <3>2 DEF TypeOK
  <2> QED
    BY <2>1, <2>2
<1>8. TypeOK'
    BY ZenonT(30), <1>3, <1>5, <1>6, <1>7 DEF TypeOK, Process, rx, card
<1>9. \A u \in Task : u # t => pc[u] \notin Passing /\ pc[u] \notin Taken /\ pc[u] # "loop"
    BY ZenonT(30), <1>4, PassingPlaces DEF Orderly
<1>10. rx_queue' = rx_queue /\ rx_queue_lock' = rx_queue_lock /\ rx_queue_size' = rx_queue_size
       /\ rx_ring' = rx_ring /\ dropped_rx' = dropped_rx /\ arrived' = arrived
       /\ dropped_before' = dropped_before
    BY DEF Process, rx
<1>11. Orderly'
  <2>1. \A u \in Task : pc'[u] \in Passing => u = t
    BY <1>3, <1>9
  <2>2. \A u \in Task : pc'[u] \in Taken => u = t
    BY <1>3, <1>9
  <2>3. rx_queue_lock' /\ rx_queue' # <<>>
    BY ZenonT(30), <1>1, <1>4, <1>10 DEF Orderly
  <2>4. pc'[t] \in {"tx_n", "tx_n wait", "flush_tx wait"} => p'[t] # <<>>
    BY ZenonT(30), <1>3, <1>7
  <2> QED
    BY ZenonT(30), <1>3, <1>7, <2>1, <2>2, <2>3, <2>4 DEF Orderly
<1>12. InHand = 0 /\ InHand' = 1
    BY <1>4, <1>9 DEF InHand
<1>13. RxAccounted'
    BY SMTT(30), <1>6, <1>10, <1>12, Counts DEF RxAccounted
<1>14. Bounded'
  <2>1. \A u \in Task : pc'[u] # "loop" /\ (pc'[u] \in Taken => u = t)
    BY <1>3, <1>4, <1>9
  <2>2. rounds[t] + Len(rx_queue) <= RX_HARD_THRESHOLD + 1
    BY <1>1 DEF Bounded
  <2>3. rounds'[t] + Len(rx_queue') <= RX_HARD_THRESHOLD + 2
    <3>1. Len(rx_queue') = Len(rx_queue)
        BY <1>10
    <3>2. Len(rx_queue) \in Nat /\ RX_HARD_THRESHOLD \in Nat
        BY Counts, ThresholdAssumption
    <3> HIDE DEF IInv
    <3> QED
        BY <1>5, <2>2, <3>1, <3>2
  <2> QED
    BY <1>10, <2>1, <2>3 DEF Bounded
<1> QED
    BY <1>8, <1>11, <1>13, <1>14

LEMMA SendIInv == ASSUME IInv, NEW t \in Task, Send(t) PROVE IInv'
<1> USE DEF IInv
<1> DEFINE f == Head(p[t])
<1>1. /\ pc' \in [Task -> Places] /\ \A u \in Task : u # t => pc'[u] = pc[u]
      /\ \/ pc[t] = "tx_n" /\ pc'[t] = "tx_n wait"
         \/ pc[t] = "flush_tx" /\ pc'[t] = "flush_tx wait" /\ p[t] # <<>>
    BY ZenonT(30) DEF Send, At, Goto, TypeOK, Places, Passing
<1>2. p[t] # <<>> /\ p[t] \in Seq(TxFrame) /\ p' = p
    BY ZenonT(30), <1>1 DEF Orderly, TypeOK, Send
<1>3. f \in TxFrame
    BY <1>2, HeadTailProperties
<1>4. e1000_send(t, f)
    BY ZenonT(30) DEF Send
<1> HIDE DEF f
<1>5. /\ tx_buf' \in [Desc -> TxFrame \cup {Zeroes}] /\ old_cur' \in [Task -> Desc]
      /\ tx_done' = tx_done /\ tx_head' = tx_head
    BY ZenonT(30), <1>3, <1>4 DEF e1000_send, TypeOK
<1>6. handed' \in Seq(TxFrame)
    BY <1>3, <1>4, AppendProperties DEF e1000_send, TypeOK
<1>7. tx_cur' \in Desc
    BY <1>4, NextDescInDesc DEF e1000_send, TypeOK
<1>8. TypeOK'
    BY ZenonT(30), <1>1, <1>2, <1>5, <1>6, <1>7 DEF TypeOK, Send, rx
<1>9. \A u \in Task : /\ pc'[u] \in Passing <=> pc[u] \in Passing
                      /\ pc'[u] \in Taken <=> pc[u] \in Taken
                      /\ pc'[u] = "loop" <=> pc[u] = "loop"
    BY ZenonT(30), <1>1 DEF Passing, Taken
<1>10. \A u \in Task : pc'[u] \in {"tx_n", "tx_n wait", "flush_tx wait"} => p'[u] # <<>>
    BY ZenonT(30), <1>1, <1>2 DEF Orderly
<1>11. Orderly' /\ RxAccounted' /\ Bounded'
    BY ZenonT(30), <1>1, <1>9, <1>10, RxSame DEF Send, rx
<1> QED
    BY <1>8, <1>11

LEMMA SentIInv == ASSUME IInv, NEW t \in Task, Sent(t) PROVE IInv'
<1> USE DEF IInv
<1>1. /\ pc' \in [Task -> Places] /\ \A u \in Task : u # t => pc'[u] = pc[u]
      /\ \/ pc[t] = "tx_n wait" /\ pc'[t] = "unlink" /\ tx_queue' = Tail(p[t])
         \/ pc[t] = "flush_tx wait" /\ pc'[t] = "flush_tx" /\ tx_queue' = tx_queue
    BY ZenonT(30) DEF Sent, At, Goto, TypeOK, Places, Passing
<1>2. p[t] # <<>> /\ p[t] \in Seq(TxFrame)
    BY ZenonT(30), <1>1 DEF Orderly, TypeOK
<1>3. Tail(p[t]) \in Seq(TxFrame)
    BY <1>2, HeadTailProperties
<1>4. tx_queue' \in Seq(TxFrame)
    BY ZenonT(30), <1>1, <1>3 DEF TypeOK
<1>5. p' \in [Task -> Seq(TxFrame)] /\ \A u \in Task : u # t => p'[u] = p[u]
    BY ZenonT(30), <1>3 DEF Sent, TypeOK
<1>6. tx_buf' \in [Desc -> TxFrame \cup {Zeroes}]
    BY ZenonT(30) DEF Sent, TypeOK
<1>7. TypeOK'
    BY ZenonT(30), <1>1, <1>4, <1>5, <1>6 DEF TypeOK, Sent, rx, history
<1>8. \A u \in Task : /\ pc'[u] \in Passing <=> pc[u] \in Passing
                      /\ pc'[u] \in Taken <=> pc[u] \in Taken
                      /\ pc'[u] = "loop" <=> pc[u] = "loop"
    BY ZenonT(30), <1>1 DEF Passing, Taken
<1>9. \A u \in Task : pc'[u] \in {"tx_n", "tx_n wait", "flush_tx wait"} => p'[u] # <<>>
    BY ZenonT(30), <1>1, <1>5 DEF Orderly
<1>10. Orderly' /\ RxAccounted' /\ Bounded'
    BY ZenonT(30), <1>1, <1>8, <1>9, RxSame DEF Sent, rx, history
<1> QED
    BY <1>7, <1>10

LEMMA FlushedIInv == ASSUME IInv, NEW t \in Task, Flushed(t) PROVE IInv'
<1> USE DEF IInv
<1>1. /\ pc' \in [Task -> Places] /\ \A u \in Task : u # t => pc'[u] = pc[u]
      /\ pc[t] = "flush_tx" /\ pc'[t] = "idle" /\ p' = p
    BY ZenonT(30) DEF Flushed, At, Goto, TypeOK, Places
<1>2. tx_queue' \in Seq(TxFrame)
    BY DEF Flushed
<1>3. TypeOK'
    BY <1>1, <1>2 DEF TypeOK, Flushed, rx, card, history
<1>4. \A u \in Task : /\ pc'[u] \in Passing <=> pc[u] \in Passing
                      /\ pc'[u] \in Taken <=> pc[u] \in Taken
                      /\ pc'[u] = "loop" <=> pc[u] = "loop"
    BY ZenonT(30), <1>1 DEF Passing, Taken
<1>5. \A u \in Task : pc'[u] \in {"tx_n", "tx_n wait", "flush_tx wait"} => p'[u] # <<>>
    BY ZenonT(30), <1>1 DEF Orderly
<1>6. Orderly' /\ RxAccounted' /\ Bounded'
    BY ZenonT(30), <1>1, <1>4, <1>5, RxSame DEF Flushed, rx, history
<1> QED
    BY <1>3, <1>6

LEMMA CardSendsIInv == IInv /\ CardSends => IInv'
<1> SUFFICES ASSUME IInv, CardSends PROVE IInv'
    OBVIOUS
<1> USE DEF IInv
<1>1. pc' = pc /\ p' = p /\ rounds' = rounds
    BY DEF CardSends, local
<1>2. tx_buf[tx_head] \in TxFrame \cup {Zeroes} /\ tx_head' \in Desc
    BY ZenonT(30), NextDescInDesc DEF CardSends, TypeOK
<1>3. wire' \in Seq(TxFrame \cup {Zeroes})
    BY <1>2, AppendProperties DEF CardSends, TypeOK
<1>4. tx_done' \in [Desc -> BOOLEAN]
    BY ZenonT(30) DEF CardSends, TypeOK
<1>5. TypeOK'
    BY <1>2, <1>3, <1>4 DEF TypeOK, CardSends, rx, local
<1>6. \A u \in Task : pc'[u] \in {"tx_n", "tx_n wait", "flush_tx wait"} => p'[u] # <<>>
    BY ZenonT(30), <1>1 DEF Orderly
<1>7. pc' \in [Task -> Places]
    BY <1>1 DEF TypeOK
<1>8. Orderly' /\ RxAccounted' /\ Bounded'
    BY ZenonT(30), <1>1, <1>6, <1>7, RxSame DEF CardSends, rx
<1> QED
    BY <1>5, <1>8

LEMMA ShellIInv ==
    ASSUME IInv, NEW t \in Task, nicadd(t) \/ arp_request(t) \/ nicflush(t) \/ nic_configure(t)
    PROVE  IInv'
<1> USE DEF IInv
<1>1. /\ pc' \in [Task -> Places] /\ \A u \in Task : u # t => pc'[u] = pc[u]
      /\ pc[t] = "idle" /\ pc'[t] \in {"idle", "flush_tx"}
    BY ZenonT(30) DEF nicadd, arp_request, nicflush, nic_configure, At, Goto, TypeOK, Places, local
<1>2. /\ tx_queue' \in Seq(TxFrame) /\ made' \in Nat /\ p' \in [Task -> Seq(TxFrame)]
      /\ \A u \in Task : u # t => p'[u] = p[u]
  <2>1. CASE nicadd(t) \/ arp_request(t)
    <3>1. create_tx_packet(Broadcast)
        BY <2>1 DEF nicadd, arp_request
    <3>2. tx_queue' \in Seq(TxFrame) /\ made' \in Nat
        BY ZenonT(30), <3>1, TxPacket, BroadcastAssumption
    <3>3. p' = p \/ p' = [p EXCEPT ![t] = tx_queue']
        BY <2>1 DEF nicadd, arp_request, local
    <3> QED
        BY ZenonT(30), <3>2, <3>3 DEF TypeOK
  <2>2. CASE nicflush(t) \/ nic_configure(t)
    BY ZenonT(30), <2>2 DEF nicflush, nic_configure, local, history, TypeOK
  <2> QED
    BY <2>1, <2>2
<1>3. ip' \in Ip \cup {NoIp}
    BY DEF nicadd, arp_request, nicflush, nic_configure, TypeOK
<1>4. UNCHANGED <<rx, card, rounds, old_cur, arrived, processed, handed, wire, dropped_before, arp_cache>>
    BY ZenonT(30) DEF nicadd, arp_request, nicflush, nic_configure, local, history
<1>5. TypeOK'
    BY ZenonT(30), <1>1, <1>2, <1>3, <1>4 DEF TypeOK, rx, card
<1>6. \A u \in Task : /\ pc'[u] \in Passing <=> pc[u] \in Passing
                      /\ pc'[u] \in Taken <=> pc[u] \in Taken
                      /\ pc'[u] = "loop" <=> pc[u] = "loop"
    BY ZenonT(30), <1>1 DEF Passing, Taken
<1>7. \A u \in Task : pc'[u] \in {"tx_n", "tx_n wait", "flush_tx wait"} => p'[u] # <<>>
    BY ZenonT(30), <1>1, <1>2 DEF Orderly
<1>8. Orderly' /\ RxAccounted' /\ Bounded'
    BY ZenonT(30), <1>1, <1>4, <1>6, <1>7, RxSame DEF rx
<1> QED
    BY <1>5, <1>8

LEMMA StutterIInv == IInv /\ UNCHANGED vars => IInv'
<1> SUFFICES ASSUME IInv, UNCHANGED vars PROVE IInv'
    OBVIOUS
<1>1. UNCHANGED <<rx, arp_cache, ip, tx_queue, card, local, history>>
    BY ZenonT(30) DEF vars
<1>2. TypeOK'
    BY ZenonT(30), <1>1 DEF IInv, TypeOK, rx, card, local, history
<1>3. Orderly' /\ RxAccounted' /\ Bounded'
    BY ZenonT(30), <1>1 DEF IInv, Orderly, RxAccounted, Bounded, InHand, rx, local, history
<1> QED
    BY <1>2, <1>3 DEF IInv

LEMMA NextIInv == IInv /\ [Next]_vars => IInv'
    BY CardReceivesIInv, InterruptIInv, ReceivedIInv, CardSendsIInv, WorkerIInv, UnlinkIInv,
       ReleaseIInv, ProcessIInv, SendIInv, SentIInv, FlushedIInv, ShellIInv, StutterIInv
       DEF Next, WorkerStep

\* IInv is an invariant of the network stack.
THEOREM Invariance == Spec => []IInv
    BY InitIInv, NextIInv, PTL DEF Spec

\* The variables keep their types, for any tasks, threshold and ring sizes.
THEOREM TypeCorrect == Spec => []TypeOK
<1>1. IInv => TypeOK
    BY DEF IInv
<1> QED
    BY <1>1, Invariance, PTL

\* Every frame taken from the card is on the queue, processed or counted as
\* dropped, and the size counter is the queue's length.
THEOREM RxConservation == Spec => []RxAccounted
<1>1. IInv => RxAccounted
    BY DEF IInv
<1> QED
    BY <1>1, Invariance, PTL

\* A pass of network_worker whose rounds are used up has emptied the queue.
THEOREM PassesDrain == Spec => []PassDrainsQueue
<1>1. ASSUME IInv, NEW t \in Task, pc[t] = "loop", rounds[t] > RX_HARD_THRESHOLD
      PROVE  rx_queue = <<>>
  <2>1. rounds[t] + Len(rx_queue) <= RX_HARD_THRESHOLD + 1
    BY <1>1 DEF IInv, Bounded
  <2>2. rounds[t] \in Nat /\ rx_queue \in Seq(Arrival) /\ Len(rx_queue) \in Nat
    BY ZenonT(30), <1>1, Counts DEF IInv, TypeOK
  <2>3. RX_HARD_THRESHOLD \in Nat /\ rounds[t] > RX_HARD_THRESHOLD
    BY <1>1, ThresholdAssumption
  <2>4. Len(rx_queue) = 0
    BY <2>1, <2>2, <2>3
  <2> QED
    BY <2>2, <2>4, EmptySeq
<1>2. IInv => PassDrainsQueue
    BY ZenonT(30), <1>1 DEF PassDrainsQueue
<1> QED
    BY <1>2, Invariance, PTL
-----------------------------------------------------------------------------
(* The ARP cache. *)

LEMMA CacheSame ==
    ASSUME CacheLatest, arp_cache' = arp_cache, processed' = processed
    PROVE  CacheLatest'
    BY DEF CacheLatest, ReplyForMe

\* What add_arp_cache_entry does to a cache with one entry per address.
OneEntryEach(cache) == \A i, j \in DOMAIN cache : cache[i].ip = cache[j].ip => i = j
Replaced(spa, new) ==
    /\ OneEntryEach(arp_cache')
    /\ \E i \in DOMAIN arp_cache' : arp_cache'[i] = new
    /\ \A i \in DOMAIN arp_cache :
          arp_cache[i].ip # spa => \E j \in DOMAIN arp_cache' : arp_cache'[j] = arp_cache[i]
    /\ \A j \in DOMAIN arp_cache' :
          arp_cache'[j] = new \/ \E i \in DOMAIN arp_cache : arp_cache'[j] = arp_cache[i]

LEMMA AddedEntry ==
    ASSUME TypeOK, NEW spa \in Ip, NEW sha \in Mac, add_arp_cache_entry(spa, sha),
           OneEntryEach(arp_cache)
    PROVE  Replaced(spa, [ip |-> spa, mac |-> sha])
<1>a. PICK new : new = [ip |-> spa, mac |-> sha]
    BY ZenonT(30)
<1> DEFINE S == [ip : Ip, mac : Mac]
<1>0. arp_cache \in Seq(S) /\ new \in S /\ new.ip = spa
    BY ZenonT(30), <1>a DEF TypeOK
<1>1. CASE \E i \in DOMAIN arp_cache : arp_cache[i].ip = spa
  <2>1. arp_cache' = [i \in DOMAIN arp_cache |-> IF arp_cache[i].ip = spa THEN new ELSE arp_cache[i]]
    BY <1>1, <1>a DEF add_arp_cache_entry
  <2>2. PICK old \in DOMAIN arp_cache : arp_cache[old].ip = spa
    BY <1>1
  <2>3. DOMAIN arp_cache' = DOMAIN arp_cache
    BY <2>1
  <2>4. \A i \in DOMAIN arp_cache : arp_cache'[i] = IF arp_cache[i].ip = spa THEN new ELSE arp_cache[i]
    BY <2>1
  <2>5. \A i \in DOMAIN arp_cache : arp_cache'[i].ip = arp_cache[i].ip
    BY <1>0, <2>4
  <2>6. OneEntryEach(arp_cache')
    BY <2>3, <2>5 DEF OneEntryEach
  <2>7. \E i \in DOMAIN arp_cache' : arp_cache'[i] = new
    BY <2>2, <2>3, <2>4
  <2>8. \A i \in DOMAIN arp_cache :
           arp_cache[i].ip # spa => \E j \in DOMAIN arp_cache' : arp_cache'[j] = arp_cache[i]
    BY <2>3, <2>4
  <2>9. \A j \in DOMAIN arp_cache' :
           arp_cache'[j] = new \/ \E i \in DOMAIN arp_cache : arp_cache'[j] = arp_cache[i]
    BY ZenonT(30), <2>3, <2>4
  <2> QED
    BY ZenonT(30), <1>a, <2>6, <2>7, <2>8, <2>9 DEF Replaced
<1>2. CASE ~\E i \in DOMAIN arp_cache : arp_cache[i].ip = spa
  <2>1. arp_cache' = <<new>> \o arp_cache
    BY <1>2, <1>a DEF add_arp_cache_entry
  <2> HIDE DEF S
  <2>3. /\ Len(arp_cache) \in Nat
        /\ DOMAIN arp_cache = 1..Len(arp_cache) /\ DOMAIN arp_cache' = 1..Len(arp_cache) + 1
        /\ arp_cache'[1] = new
        /\ \A k \in 1..Len(arp_cache) : arp_cache'[k + 1] = arp_cache[k]
    BY SMTT(30), <1>0, <2>1, PrependFacts
  <2>5. PICK m \in Nat : m = Len(arp_cache)
    BY ZenonT(30), <2>3
  <2>4. /\ DOMAIN arp_cache = 1..m /\ DOMAIN arp_cache' = 1..m + 1
        /\ arp_cache'[1] = new
        /\ \A k \in 1..m : arp_cache'[k + 1] = arp_cache[k]
    BY <2>3, <2>5
  <2>7. arp_cache'[1] = new /\ 1 \in DOMAIN arp_cache'
    BY <2>4
  <2>8. \A i \in DOMAIN arp_cache : i + 1 \in DOMAIN arp_cache' /\ arp_cache'[i + 1] = arp_cache[i]
    BY <2>4
  <2>9. \A j \in DOMAIN arp_cache' :
            j # 1 => j - 1 \in DOMAIN arp_cache /\ arp_cache'[j] = arp_cache[j - 1]
    <3> SUFFICES ASSUME NEW j \in 1..m + 1, j # 1
                 PROVE  j - 1 \in 1..m /\ arp_cache'[j] = arp_cache[j - 1]
        BY <2>4
    <3>1. PICK k \in 1..m : j = k + 1
        OBVIOUS
    <3>2. k = j - 1
        BY <3>1
    <3> QED
        BY <2>4, <3>1, <3>2
  <2>10. OneEntryEach(arp_cache')
    <3> SUFFICES ASSUME NEW i \in DOMAIN arp_cache', NEW j \in DOMAIN arp_cache',
                        arp_cache'[i].ip = arp_cache'[j].ip
                 PROVE  i = j
        BY DEF OneEntryEach
    <3>1. CASE i = 1 \/ j = 1
        BY <1>0, <1>2, <2>7, <2>9, <3>1
    <3>2. CASE i # 1 /\ j # 1
      <4>1. i - 1 = j - 1
        BY <2>9, <3>2 DEF OneEntryEach
      <4> QED
        BY <4>1, <2>4
    <3> QED
        BY <3>1, <3>2
  <2>11. \A j \in DOMAIN arp_cache' :
            arp_cache'[j] = new \/ \E i \in DOMAIN arp_cache : arp_cache'[j] = arp_cache[i]
    BY <2>7, <2>9
  <2> QED
    BY <1>a, <2>7, <2>8, <2>10, <2>11 DEF Replaced
<1> QED
    BY <1>1, <1>2

LEMMA ProcessCache ==
    ASSUME TypeOK, CacheLatest, NEW t \in Task, Process(t)
    PROVE  CacheLatest'
<1>9. Len(processed) \in Nat
    BY ProcessedGrows
<1>0. PICK n \in Nat : n = Len(processed) + 1 /\ n \in 1..n /\ Len(processed) = n - 1
    BY SMTT(30), <1>9
<1> DEFINE f == Head(rx_queue).f
<1>1. /\ n \in Nat /\ DOMAIN processed = 1..n - 1 /\ DOMAIN processed' = 1..n
      /\ \A k \in 1..n - 1 : processed'[k] = processed[k]
      /\ processed'[n].f = f /\ processed'[n].ip = ip
  <2>1. /\ Len(processed) \in Nat
        /\ DOMAIN processed = 1..Len(processed) /\ DOMAIN processed' = 1..Len(processed) + 1
        /\ \A k \in 1..Len(processed) : processed'[k] = processed[k]
        /\ processed'[Len(processed) + 1] = [n |-> Head(rx_queue).n, f |-> Head(rx_queue).f, ip |-> ip]
    BY ZenonT(30), ProcessedGrows
  <2>3. processed'[n] = [n |-> Head(rx_queue).n, f |-> f, ip |-> ip]
    BY ZenonT(30), <1>0, <2>1
  <2> QED
    BY SMTT(30), <1>0, <2>1, <2>3
<1>2. \/ IsReply(f) /\ add_arp_cache_entry(f.spa, f.sha)
      \/ ~IsReply(f) /\ arp_cache' = arp_cache
    BY DEF Process, process_packet, IsRequest, IsReply
<1>3. f \in Frame
  <2>1. Head(rx_queue) \in Arrival
    BY HeadTailProperties DEF TypeOK, Process
  <2> QED
    BY <2>1 DEF Arrival
<1> HIDE DEF f
<1>4. /\ \A k \in 1..n - 1 : ReplyForMe(k)' <=> ReplyForMe(k)
      /\ ReplyForMe(n)' <=> IsReply(f)
    BY <1>1 DEF ReplyForMe, IsReply
<1>5. \A k \in 1..n : k \in 1..n - 1 \/ k = n
    BY <1>1
<1>6. \A k \in 1..n - 1 : k \in 1..n /\ n \in 1..n /\ n > k
    BY SMTT(30), <1>1
<1>7. CASE ~IsReply(f) /\ arp_cache' = arp_cache
  <2>1. \A i, j \in DOMAIN arp_cache' : arp_cache'[i].ip = arp_cache'[j].ip => i = j
    BY <1>7 DEF CacheLatest
  <2>2. ASSUME NEW j \in DOMAIN arp_cache'
        PROVE  \E k \in 1..n : ReplyForMe(k)' /\ processed'[k].f.spa = arp_cache'[j].ip
    <3>1. PICK k \in 1..n - 1 : ReplyForMe(k) /\ processed[k].f.spa = arp_cache[j].ip
        BY ZenonT(30), <1>1, <1>7 DEF CacheLatest
    <3> QED
        BY ZenonT(30), <1>1, <1>4, <1>6, <1>7, <3>1
  <2>3. ASSUME NEW k \in 1..n, ReplyForMe(k)'
        PROVE  \/ \E i \in DOMAIN arp_cache' :
                     arp_cache'[i] = [ip |-> processed'[k].f.spa, mac |-> processed'[k].f.sha]
               \/ \E l \in 1..n :
                     l > k /\ ReplyForMe(l)' /\ processed'[l].f.spa = processed'[k].f.spa
    <3>1. k \in 1..n - 1 /\ ReplyForMe(k) /\ processed'[k] = processed[k]
        BY <1>1, <1>4, <1>5, <1>7, <2>3
    <3>2. CASE \E i \in DOMAIN arp_cache :
                  arp_cache[i] = [ip |-> processed[k].f.spa, mac |-> processed[k].f.sha]
        BY ZenonT(30), <1>7, <3>1, <3>2
    <3>3. CASE \E l \in 1..n - 1 :
                  l > k /\ ReplyForMe(l) /\ processed[l].f.spa = processed[k].f.spa
        BY ZenonT(30), <1>1, <1>4, <1>6, <3>1, <3>3
    <3> QED
        BY ZenonT(30), <1>1, <3>1, <3>2, <3>3 DEF CacheLatest
  <2> QED
    BY ZenonT(30), <1>1, <2>1, <2>2, <2>3 DEF CacheLatest
<1>8. CASE IsReply(f) /\ add_arp_cache_entry(f.spa, f.sha)
  <2>6. PICK new : new = [ip |-> f.spa, mac |-> f.sha]
    BY ZenonT(30)
  <2>1. /\ f.spa \in Ip /\ f.sha \in Mac
    BY <1>3, <1>8, FrameAssumption DEF IsReply
  <2>2. Replaced(f.spa, new)
    <3>1. OneEntryEach(arp_cache) /\ add_arp_cache_entry(f.spa, f.sha)
        BY ZenonT(30), <1>8 DEF CacheLatest, OneEntryEach
    <3> QED
        BY ZenonT(30), <2>1, <2>6, <3>1, AddedEntry
  <2>3. \A j \in DOMAIN arp_cache' :
            \E k \in 1..n : ReplyForMe(k)' /\ processed'[k].f.spa = arp_cache'[j].ip
    <3> SUFFICES ASSUME NEW j \in DOMAIN arp_cache'
                 PROVE  \E k \in 1..n : ReplyForMe(k)' /\ processed'[k].f.spa = arp_cache'[j].ip
        OBVIOUS
    <3>1. CASE arp_cache'[j] = new
      <4>1. n \in 1..n /\ ReplyForMe(n)'
        BY <1>0, <1>4, <1>8
      <4>2. processed'[n].f.spa = arp_cache'[j].ip
        BY <1>1, <2>6, <3>1
      <4> QED
        BY <4>1, <4>2
    <3>2. CASE \E i \in DOMAIN arp_cache : arp_cache'[j] = arp_cache[i]
      <4>1. PICK i \in DOMAIN arp_cache : arp_cache'[j] = arp_cache[i]
        BY ZenonT(30), <3>2
      <4>2. PICK k \in 1..n - 1 : ReplyForMe(k) /\ processed[k].f.spa = arp_cache[i].ip
        BY ZenonT(30), <1>1, <4>1 DEF CacheLatest
      <4>3. k \in 1..n /\ ReplyForMe(k)' /\ processed'[k] = processed[k]
        BY ZenonT(30), <1>1, <1>4, <1>6, <4>2
      <4> QED
        BY <4>1, <4>2, <4>3
    <3> QED
        BY <2>2, <3>1, <3>2 DEF Replaced
  <2>4. ASSUME NEW k \in 1..n, ReplyForMe(k)'
        PROVE  \/ \E i \in DOMAIN arp_cache' :
                     arp_cache'[i] = [ip |-> processed'[k].f.spa, mac |-> processed'[k].f.sha]
               \/ \E l \in 1..n :
                     l > k /\ ReplyForMe(l)' /\ processed'[l].f.spa = processed'[k].f.spa
    <3>1. CASE k = n
        BY ZenonT(30), <1>1, <2>2, <2>6, <3>1 DEF Replaced
    <3>2. CASE k \in 1..n - 1 /\ processed[k].f.spa = f.spa
      <4>1. n \in 1..n /\ n > k /\ ReplyForMe(n)'
        BY ONLY <1>4, <1>6, <1>8, <3>2
      <4>2. processed'[n].f.spa = processed'[k].f.spa
        BY <1>1, <3>2
      <4> QED
        BY ONLY ZenonT(30), <4>1, <4>2
    <3>3. CASE k \in 1..n - 1 /\ processed[k].f.spa # f.spa
      <4>1. ReplyForMe(k) /\ processed'[k] = processed[k]
        BY ZenonT(30), <1>1, <1>4, <2>4, <3>3
      <4>2. CASE \E i \in DOMAIN arp_cache :
                    arp_cache[i] = [ip |-> processed[k].f.spa, mac |-> processed[k].f.sha]
        <5>1. PICK i \in DOMAIN arp_cache :
                     arp_cache[i] = [ip |-> processed[k].f.spa, mac |-> processed[k].f.sha]
            BY ZenonT(30), <4>2
        <5>4. arp_cache[i].ip = processed[k].f.spa
            BY ONLY SMTT(30), <5>1
        <5>2. arp_cache[i].ip # f.spa
            BY ONLY <3>3, <5>4
        <5>3. PICK j \in DOMAIN arp_cache' : arp_cache'[j] = arp_cache[i]
            BY <2>2, <5>2 DEF Replaced
        <5> QED
            BY ZenonT(30), <4>1, <5>1, <5>3
      <4>3. CASE \E l \in 1..n - 1 :
                    l > k /\ ReplyForMe(l) /\ processed[l].f.spa = processed[k].f.spa
        <5>1. PICK l \in 1..n - 1 :
                     l > k /\ ReplyForMe(l) /\ processed[l].f.spa = processed[k].f.spa
            BY <4>3
        <5>2. l \in 1..n /\ ReplyForMe(l)' /\ processed'[l] = processed[l]
            BY <1>1, <1>4, <1>6, <5>1
        <5> QED
            BY <4>1, <5>1, <5>2
      <4> QED
        BY ZenonT(30), <1>1, <3>3, <4>1, <4>2, <4>3 DEF CacheLatest
    <3> QED
        BY ZenonT(30), <1>5, <3>1, <3>2, <3>3
  <2> QED
    BY ZenonT(30), <1>1, <2>2, <2>3, <2>4 DEF CacheLatest, Replaced, OneEntryEach
<1> QED
    BY <1>2, <1>7, <1>8

\* The ARP cache holds one entry per sender, that of its last reply.
THEOREM CacheCorrect == Spec => []CacheLatest
<1>1. Init => CacheLatest
  <2> SUFFICES ASSUME Init PROVE CacheLatest
    OBVIOUS
  <2>1. DOMAIN arp_cache = {} /\ DOMAIN processed = {}
    BY DEF Init
  <2> QED
    BY <2>1 DEF CacheLatest
<1>2. TypeOK /\ CacheLatest /\ [Next]_vars => CacheLatest'
  <2> SUFFICES ASSUME TypeOK, CacheLatest, [Next]_vars PROVE CacheLatest'
    OBVIOUS
  <2>1. CASE \E t \in Task : Process(t)
    BY <2>1, ProcessCache
  <2>2. CASE ~\E t \in Task : Process(t)
    <3>1. arp_cache' = arp_cache /\ processed' = processed
      <4>1. CASE UNCHANGED vars
        BY ZenonT(30), <4>1 DEF vars, history
      <4>2. CASE CardReceives \/ Interrupt \/ e1000_received \/ InterruptReturns \/ CardSends
        BY ZenonT(30), <4>2 DEF CardReceives, Interrupt, e1000_received, InterruptReturns, CardSends, history
      <4>3. ASSUME NEW t \in Task,
                   network_worker(t) \/ Unlink(t) \/ Release(t) \/ Send(t) \/ Sent(t) \/ Flushed(t)
            PROVE  arp_cache' = arp_cache /\ processed' = processed
        BY ZenonT(30), <4>3 DEF network_worker, Unlink, Release, Send, Sent, Flushed, history
      <4>4. ASSUME NEW t \in Task, nicadd(t) \/ arp_request(t) \/ nicflush(t) \/ nic_configure(t)
            PROVE  arp_cache' = arp_cache /\ processed' = processed
        BY ZenonT(30), <4>4 DEF nicadd, arp_request, nicflush, nic_configure, history
      <4> QED
        BY <2>2, <4>1, <4>2, <4>3, <4>4 DEF Next, WorkerStep
    <3> QED
        BY <3>1, CacheSame
  <2> QED
    BY <2>1, <2>2
<1> QED
    BY <1>1, <1>2, TypeCorrect, PTL DEF Spec
-----------------------------------------------------------------------------
(* The order of processing. *)

InHandNow == \E t \in Task : pc[t] \in Taken

\* Frames further from the card have smaller numbers: those processed, those on
\* the queue, those in the card's ring.  The frame in hand is on the queue and
\* already processed.
OrderInv ==
    /\ \A i, j \in DOMAIN rx_ring : i < j => rx_ring[i].n < rx_ring[j].n
    /\ \A i \in DOMAIN rx_ring :
          /\ rx_ring[i].n <= arrived
          /\ \A k \in DOMAIN processed : processed[k].n < rx_ring[i].n
          /\ \A q \in DOMAIN rx_queue : rx_queue[q].n < rx_ring[i].n
    /\ \A k \in DOMAIN processed : processed[k].n <= arrived
    /\ \A q \in DOMAIN rx_queue : rx_queue[q].n <= arrived
    /\ ~InHandNow => \A k \in DOMAIN processed, q \in DOMAIN rx_queue :
                        processed[k].n < rx_queue[q].n
    /\ ProcessedInOrder

\* The sequences of frames are sequences of numbered frames.
LEMMA FrameSeqs ==
    ASSUME TypeOK
    PROVE  /\ rx_ring \in Seq(Arrival) /\ rx_queue \in Seq(Arrival) /\ arrived \in Nat
           /\ Len(rx_ring) \in Nat /\ DOMAIN rx_ring = 1..Len(rx_ring)
           /\ Len(rx_queue) \in Nat /\ DOMAIN rx_queue = 1..Len(rx_queue)
           /\ DOMAIN processed = 1..Len(processed) /\ Len(processed) \in Nat
           /\ \A i \in DOMAIN rx_ring : rx_ring[i] \in Arrival /\ rx_ring[i].n \in Nat
           /\ \A q \in DOMAIN rx_queue : rx_queue[q] \in Arrival /\ rx_queue[q].n \in Nat
           /\ \A k \in DOMAIN processed : processed[k].n \in Nat
<1>1. rx_ring \in Seq(Arrival) /\ rx_queue \in Seq(Arrival) /\ arrived \in Nat
      /\ processed \in Seq([n : Nat, f : Frame, ip : Ip \cup {NoIp}])
    BY DEF TypeOK
<1>2. \A a \in Arrival : a.n \in Nat
    BY DEF Arrival
<1>3. \A k \in DOMAIN processed : processed[k].n \in Nat
  <2> DEFINE S == [n : Nat, f : Frame, ip : Ip \cup {NoIp}]
  <2>1. processed \in Seq(S) /\ \A e \in S : e.n \in Nat
    BY <1>1
  <2> HIDE DEF S
  <2> QED
    BY ONLY <2>1
<1>4. \A s \in Seq(Arrival) : Len(s) \in Nat /\ DOMAIN s = 1..Len(s)
                              /\ \A i \in DOMAIN s : s[i] \in Arrival
    BY ONLY TRUE
<1>5. DOMAIN processed = 1..Len(processed) /\ Len(processed) \in Nat
    BY ONLY SMTT(30), <1>1
<1> QED
    BY ONLY <1>1, <1>2, <1>3, <1>4, <1>5

LEMMA OrderCardReceives ==
    ASSUME TypeOK, OrderInv, CardReceives
    PROVE  OrderInv'
<1>1. PICK f \in Frame : rx_ring' = Append(rx_ring, [n |-> arrived + 1, f |-> f])
    BY ZenonT(30) DEF CardReceives
<1> DEFINE new == [n |-> arrived + 1, f |-> f]
<1>2. new \in Arrival /\ new.n = arrived + 1 /\ arrived' = arrived + 1
    BY FrameSeqs DEF Arrival, CardReceives
<1>3. /\ rx_ring' = Append(rx_ring, new)
      /\ rx_queue' = rx_queue /\ processed' = processed /\ pc' = pc
    BY <1>1 DEF CardReceives, local
<1> HIDE DEF new
<1>4. /\ DOMAIN rx_ring' = 1..Len(rx_ring) + 1
      /\ \A i \in 1..Len(rx_ring) : rx_ring'[i] = rx_ring[i]
      /\ rx_ring'[Len(rx_ring) + 1] = new
    BY SMTT(30), <1>2, <1>3, FrameSeqs, AppendFacts
<1>5. \A i, j \in DOMAIN rx_ring' : i < j => rx_ring'[i].n < rx_ring'[j].n
    BY SMTT(30), <1>2, <1>4, FrameSeqs DEF OrderInv
<1>6. \A i \in DOMAIN rx_ring' :
          /\ rx_ring'[i].n <= arrived'
          /\ \A k \in DOMAIN processed : processed[k].n < rx_ring'[i].n
          /\ \A q \in DOMAIN rx_queue : rx_queue[q].n < rx_ring'[i].n
    BY SMTT(30), <1>2, <1>4, FrameSeqs DEF OrderInv
<1>7. /\ \A k \in DOMAIN processed : processed[k].n <= arrived'
      /\ \A q \in DOMAIN rx_queue : rx_queue[q].n <= arrived'
    BY SMTT(30), <1>2, FrameSeqs DEF OrderInv
<1>8. InHandNow' = InHandNow /\ ProcessedInOrder'
    BY <1>3 DEF InHandNow, OrderInv, ProcessedInOrder
<1> QED
    BY <1>3, <1>5, <1>6, <1>7, <1>8 DEF OrderInv

LEMMA OrderReceived ==
    ASSUME IInv, OrderInv, e1000_received, OneWaiting'
    PROVE  OrderInv'
<1>0. TypeOK
    BY DEF IInv
<1>1. /\ rx_ring # <<>> /\ rx_ring' = Tail(rx_ring)
      /\ processed' = processed /\ pc' = pc /\ arrived' = arrived
    BY DEF e1000_received, local, history
<1> DEFINE h == Head(rx_ring)
<1>2. /\ h = rx_ring[1] /\ h \in Arrival /\ 1 \in DOMAIN rx_ring
      /\ DOMAIN rx_ring' = 1..Len(rx_ring) - 1
      /\ \A i \in 1..Len(rx_ring) - 1 : i + 1 \in DOMAIN rx_ring /\ rx_ring'[i] = rx_ring[i + 1]
  <2>1. rx_ring \in Seq(Arrival) /\ rx_ring # <<>>
    BY ZenonT(30), <1>0, <1>1, FrameSeqs
  <2> QED
    BY ONLY SMTT(30), <1>1, <2>1 DEF h
<1> HIDE DEF h
<1>3. \A i, j \in DOMAIN rx_ring' : i < j => rx_ring'[i].n < rx_ring'[j].n
  <2>1. \A i, j \in DOMAIN rx_ring : i < j => rx_ring[i].n < rx_ring[j].n
    BY Zenon DEF OrderInv
  <2>2. Len(rx_ring) \in Nat
    BY ZenonT(30), <1>0, FrameSeqs
  <2> SUFFICES ASSUME NEW i \in DOMAIN rx_ring', NEW j \in DOMAIN rx_ring', i < j
               PROVE  rx_ring'[i].n < rx_ring'[j].n
    OBVIOUS
  <2>3. i + 1 \in DOMAIN rx_ring /\ j + 1 \in DOMAIN rx_ring /\ i + 1 < j + 1
    BY ONLY <1>2, <2>2, i \in DOMAIN rx_ring', j \in DOMAIN rx_ring', i < j
  <2>4. rx_ring'[i] = rx_ring[i + 1] /\ rx_ring'[j] = rx_ring[j + 1]
    BY ONLY ZenonT(30), <1>2, i \in DOMAIN rx_ring', j \in DOMAIN rx_ring'
  <2> QED
    BY ONLY ZenonT(30), <2>1, <2>3, <2>4
<1>4. \A i \in DOMAIN rx_ring' :
          /\ rx_ring'[i].n <= arrived
          /\ h.n < rx_ring'[i].n
          /\ \A k \in DOMAIN processed : processed[k].n < rx_ring'[i].n
          /\ \A q \in DOMAIN rx_queue : rx_queue[q].n < rx_ring'[i].n
  <2> SUFFICES ASSUME NEW i \in DOMAIN rx_ring'
               PROVE  /\ rx_ring'[i].n <= arrived
                      /\ h.n < rx_ring'[i].n
                      /\ \A k \in DOMAIN processed : processed[k].n < rx_ring'[i].n
                      /\ \A q \in DOMAIN rx_queue : rx_queue[q].n < rx_ring'[i].n
    BY Zenon
  <2>1. i + 1 \in DOMAIN rx_ring /\ rx_ring'[i] = rx_ring[i + 1] /\ 1 < i + 1
    <3>1. Len(rx_ring) \in Nat
        BY Zenon, <1>0, FrameSeqs
    <3> QED
        BY ONLY SMTT(30), <1>2, <3>1, i \in DOMAIN rx_ring'
  <2> QED
    BY Zenon, <1>2, <2>1 DEF OrderInv
<1>5. InHandNow' = InHandNow /\ ProcessedInOrder'
    BY <1>1 DEF InHandNow, OrderInv, ProcessedInOrder
<1>6. CASE rx_queue' = rx_queue
    BY ZenonT(30), <1>1, <1>3, <1>4, <1>5, <1>6 DEF OrderInv
<1>7. CASE rx_queue' # rx_queue
  <2>1. ~rx_queue_lock /\ rx_queue' = <<h>> \o rx_queue
    BY <1>7 DEF e1000_received, inject_packet_callback, create_rx_packet, Dropped, h
  <2>2. ~InHandNow
    BY Zenon, <2>1, PassingPlaces DEF InHandNow, IInv, Orderly
  <2>3. DOMAIN rx_queue' = 1..Len(rx_queue) + 1 /\ rx_queue'[1] = h
        /\ Len(rx_queue') = Len(rx_queue) + 1
    BY <1>0, <1>2, <2>1, FrameSeqs, PrependFacts
  <2>4. DOMAIN rx_queue' = {1}
    BY <1>0, <2>3, FrameSeqs DEF OneWaiting
  <2>5. h.n <= arrived /\ \A k \in DOMAIN processed : processed[k].n < h.n
    BY ZenonT(30), <1>2 DEF OrderInv
  <2>6. \A k \in DOMAIN processed : processed[k].n <= arrived
    BY ZenonT(30) DEF OrderInv
  <2> QED
    BY ZenonT(30), <1>1, <1>3, <1>4, <1>5, <2>3, <2>4, <2>5, <2>6 DEF OrderInv
<1> QED
    BY <1>6, <1>7

LEMMA OrderProcess ==
    ASSUME IInv, OrderInv, NEW t \in Task, Process(t)
    PROVE  OrderInv'
<1>0. TypeOK
    BY ZenonT(30) DEF IInv
<1>1. /\ rx_ring' = rx_ring /\ rx_queue' = rx_queue /\ arrived' = arrived
      /\ rx_queue # <<>> /\ pc[t] = "loop"
    BY ZenonT(30) DEF Process, rx, At
<1>2. ~InHandNow
  <2>1. \A u \in Task : pc[u] \in Taken => u = t
    BY Zenon, <1>1, PassingPlaces DEF IInv, Orderly
  <2> QED
    BY Zenon, <1>1, <2>1, PassingPlaces DEF InHandNow
<1>3. InHandNow'
  <2>1. Goto(t, "tx_n") \/ Goto(t, "unlink")
    BY Zenon DEF Process, process_packet
  <2>2. pc \in [Task -> Places]
    BY Zenon, <1>0 DEF TypeOK
  <2>3. pc'[t] \in {"tx_n", "unlink"}
    BY <2>1, <2>2 DEF Goto
  <2>4. pc'[t] \in Taken
    BY Zenon, <2>3 DEF Taken
  <2> QED
    BY <2>4 DEF InHandNow
<1>4. 1 \in DOMAIN rx_queue /\ Head(rx_queue) = rx_queue[1]
    BY SMTT(30), <1>0, <1>1, FrameSeqs
<1> DEFINE e == [n |-> Head(rx_queue).n, f |-> Head(rx_queue).f, ip |-> ip]
<1>5. e.n = rx_queue[1].n
    BY ZenonT(30), <1>4
<1>6. /\ DOMAIN processed' = 1..Len(processed) + 1
      /\ \A k \in 1..Len(processed) : processed'[k] = processed[k]
      /\ processed'[Len(processed) + 1] = e
    BY <1>0, ProcessedGrows
<1> HIDE DEF e
<1>7. ProcessedInOrder'
  <2> SUFFICES ASSUME NEW i \in DOMAIN processed', NEW j \in DOMAIN processed', i < j
               PROVE  processed'[i].n < processed'[j].n
    BY ZenonT(30) DEF ProcessedInOrder
  <2>1. i \in DOMAIN processed /\ processed'[i] = processed[i]
    BY SMTT(30), <1>0, <1>6, FrameSeqs
  <2>2. CASE j \in DOMAIN processed
    BY ZenonT(30), <1>0, <1>6, <2>1, <2>2, FrameSeqs DEF OrderInv, ProcessedInOrder
  <2>3. CASE j \notin DOMAIN processed
    <3>1. processed'[j] = e
      BY SMTT(30), <1>0, <1>6, <2>3, FrameSeqs
    <3> QED
      BY ZenonT(30), <1>2, <1>4, <1>5, <2>1, <3>1 DEF OrderInv
  <2> QED
    BY <2>2, <2>3
<1>8. \A k \in DOMAIN processed' :
         processed'[k].n <= arrived /\ \A i \in DOMAIN rx_ring : processed'[k].n < rx_ring[i].n
    BY SMTT(30), <1>0, <1>4, <1>5, <1>6, FrameSeqs DEF OrderInv
<1> QED
    BY <1>1, <1>3, <1>7, <1>8 DEF OrderInv

LEMMA OrderUnlink ==
    ASSUME IInv, OrderInv, NEW t \in Task, Unlink(t), OneWaiting
    PROVE  OrderInv'
<1>1. /\ rx_ring' = rx_ring /\ rx_queue' = Tail(rx_queue) /\ arrived' = arrived
      /\ processed' = processed /\ pc[t] = "unlink"
    BY DEF Unlink, At, history
<1>2. rx_queue # <<>>
    BY Zenon, <1>1 DEF IInv, Orderly, Taken
<1>3. DOMAIN rx_queue' = {}
    BY SMTT(30), <1>1, <1>2, FrameSeqs DEF IInv, OneWaiting
<1>4. ProcessedInOrder'
    BY ZenonT(30), <1>1 DEF OrderInv, ProcessedInOrder
<1> QED
    BY <1>1, <1>3, <1>4 DEF OrderInv

\* Every other step leaves the frames alone, and a frame in hand in hand.
LEMMA OrderSame ==
    ASSUME OrderInv, UNCHANGED <<rx_ring, rx_queue, processed, arrived>>,
           InHandNow => InHandNow'
    PROVE  OrderInv'
<1>1. ProcessedInOrder'
    BY DEF OrderInv, ProcessedInOrder
<1> QED
    BY ZenonT(30), <1>1 DEF OrderInv

LEMMA OrderStep ==
    ASSUME IInv, OrderInv, OneWaiting, OneWaiting', [Next]_vars
    PROVE  OrderInv'
<1>1. pc \in [Task -> Places] /\ TypeOK
    BY ZenonT(30) DEF IInv, TypeOK
<1>2. ASSUME pc' = pc, UNCHANGED <<rx_ring, rx_queue, processed, arrived>> PROVE OrderInv'
  <2>1. InHandNow => InHandNow'
    BY Zenon, <1>2 DEF InHandNow
  <2> QED
    BY <1>2, <2>1, OrderSame
<1>3. ASSUME NEW t \in Task, NEW place, Goto(t, place), pc[t] \in Taken => place \in Taken,
             UNCHANGED <<rx_ring, rx_queue, processed, arrived>>
      PROVE  OrderInv'
  <2>1. \A u \in Task : pc[u] \in Taken => pc'[u] \in Taken
    BY <1>1, <1>3 DEF Goto
  <2>2. InHandNow => InHandNow'
    BY Zenon, <2>1 DEF InHandNow
  <2> QED
    BY <1>3, <2>2, OrderSame
<1>4. CASE UNCHANGED vars \/ Interrupt \/ InterruptReturns \/ CardSends
    BY ZenonT(30), <1>2, <1>4 DEF vars, rx, local, history, Interrupt, InterruptReturns, CardSends
<1>5. ASSUME NEW t \in Task, nicadd(t) \/ nic_configure(t) PROVE OrderInv'
    BY ZenonT(30), <1>2, <1>5 DEF nicadd, nic_configure, rx, local, history
<1>6. ASSUME NEW t \in Task,
             network_worker(t) \/ Release(t) \/ Flushed(t) \/ arp_request(t) \/ nicflush(t)
      PROVE  OrderInv'
  <2>1. pc[t] \in {"idle", "loop", "flush_tx"} /\ \E place : Goto(t, place)
    BY ZenonT(30), <1>6 DEF network_worker, Release, Flushed, arp_request, nicflush, At
  <2>2. pc[t] \notin Taken
    BY Zenon, <2>1 DEF Taken
  <2>3. UNCHANGED <<rx_ring, rx_queue, processed, arrived>>
    BY ZenonT(30), <1>6 DEF network_worker, Release, Flushed, arp_request, nicflush, rx, history
  <2> QED
    BY Zenon, <1>3, <2>1, <2>2, <2>3
<1>7. ASSUME NEW t \in Task, Send(t) \/ Sent(t) PROVE OrderInv'
  <2>1. UNCHANGED <<rx_ring, rx_queue, processed, arrived>>
    BY ZenonT(30), <1>7 DEF Send, Sent, rx, history
  <2>2. PICK place : Goto(t, place) /\ (pc[t] \in Taken => place \in Taken)
    BY ZenonT(30), <1>7 DEF Send, Sent, At, Taken
  <2> QED
    BY Zenon, <1>3, <2>1, <2>2
<1> QED
    BY ZenonT(30), <1>1, <1>4, <1>5, <1>6, <1>7, OrderCardReceives, OrderReceived, OrderProcess,
       OrderUnlink DEF Next, WorkerStep

\* Frames are processed in the order of arrival as long as no two of them wait
\* at a time: that create_rx_packet links a frame in front of the queue shows
\* only when the worker falls behind.
THEOREM OrderWhenKeepingUp == Spec /\ []OneWaiting => []ProcessedInOrder
<1>1. Init => OrderInv
  <2> SUFFICES ASSUME Init PROVE OrderInv
    OBVIOUS
  <2>1. DOMAIN rx_ring = {} /\ DOMAIN rx_queue = {} /\ DOMAIN processed = {}
    BY DEF Init
  <2> QED
    BY <2>1 DEF OrderInv, ProcessedInOrder
<1>2. OrderInv => ProcessedInOrder
    BY DEF OrderInv
<1> QED
    BY <1>1, <1>2, OrderStep, Invariance, PTL DEF Spec
-----------------------------------------------------------------------------
(* Sending, with a single task, as kernel_boot.c starts the system: the     *)
(* debug shell.                                                            *)

\* The frames that task t has made and not yet handed to the card.
Pending(t) ==
    IF pc[t] \in {"tx_n", "flush_tx"} THEN p[t]
    ELSE IF pc[t] \in {"tx_n wait", "flush_tx wait"} THEN Tail(p[t])
    ELSE tx_queue

\* Sequences of numbered frames, each number at most once.
Numbers(s) == {s[i].n : i \in DOMAIN s}
NoTwice(s) == \A i, j \in DOMAIN s : s[i].n = s[j].n => i = j

Parted(h, q, m) ==
    /\ NoTwice(h) /\ NoTwice(q)
    /\ Numbers(h) \cap Numbers(q) = {} /\ Numbers(h) \cup Numbers(q) = 1..m

\* Each frame made is pending or has been handed over, not both, and none twice.
TxInv(t) ==
    Pending(t) \in Seq(TxFrame) /\ Parted(handed, Pending(t), made)

\* The places at which a task waits for a done bit.
Waiting == {"tx_n wait", "flush_tx wait"}

\* The first round of the descriptors: the task waits for the card after each
\* frame, because no done bit is set yet.
CardInv(t) ==
    /\ \A i \in DOMAIN wire : i <= NUM_TX_DESC => i <= Len(handed) /\ wire[i] = handed[i]
    /\ Len(wire) < NUM_TX_DESC =>
          /\ tx_head = Len(wire)
          /\ tx_cur = IF Len(handed) = NUM_TX_DESC THEN 0 ELSE Len(handed)
          /\ \A d \in Desc : tx_done[d] => d < Len(wire)
          /\ \/ Len(handed) = Len(wire)
             \/ /\ Len(handed) = Len(wire) + 1
                /\ pc[t] \in Waiting
                /\ old_cur[t] = Len(wire)
                /\ tx_buf[Len(wire)] = handed[Len(handed)]

\* What a step does to the frames: nothing, it makes one, or it hands the first
\* pending one to the card.
Nothing(t) == Pending(t)' = Pending(t) /\ handed' = handed /\ made' = made
Makes(t) ==
    /\ \E f \in TxFrame : f.n = made + 1 /\ Pending(t)' = <<f>> \o Pending(t)
    /\ handed' = handed /\ made' = made + 1
Hands(t) ==
    /\ Pending(t) # <<>> /\ Pending(t)' = Tail(Pending(t))
    /\ handed' = Append(handed, Head(Pending(t))) /\ made' = made

LEMMA PendingType == ASSUME IInv, NEW t \in Task PROVE Pending(t) \in Seq(TxFrame)
<1>1. p[t] \in Seq(TxFrame) /\ tx_queue \in Seq(TxFrame)
    BY DEF IInv, TypeOK
<1>2. pc[t] \in {"tx_n wait", "flush_tx wait"} => Tail(p[t]) \in Seq(TxFrame)
    BY ZenonT(30), <1>1, HeadTailProperties DEF IInv, Orderly
<1> QED
    BY ZenonT(30), <1>1, <1>2 DEF Pending

LEMMA Effects ==
    ASSUME NEW t, Task = {t}, IInv, [Next]_vars
    PROVE  Nothing(t) \/ Makes(t) \/ Hands(t)
<1>0. t \in Task /\ \A u \in Task : u = t
    OBVIOUS
<1>1. pc \in [Task -> Places] /\ p \in [Task -> Seq(TxFrame)]
    BY ZenonT(30) DEF IInv, TypeOK
<1>2. CASE UNCHANGED vars
  <2>1. pc' = pc /\ p' = p /\ tx_queue' = tx_queue /\ handed' = handed /\ made' = made
    BY ONLY <1>2 DEF vars, local, history
  <2> QED
    BY ONLY ZenonT(30), <2>1 DEF Nothing, Pending
<1>3. CASE CardReceives \/ Interrupt \/ e1000_received \/ InterruptReturns \/ CardSends
    BY ZenonT(30), <1>3 DEF CardReceives, Interrupt, e1000_received, InterruptReturns, CardSends, local, history,
                Nothing, Pending
<1>4. CASE network_worker(t) \/ Unlink(t) \/ nic_configure(t)
  <2>1. pc[t] \in {"idle", "loop", "unlink"} /\ pc'[t] \in {"idle", "loop", "unlink"}
    BY ZenonT(30), <1>0, <1>1, <1>4 DEF network_worker, Unlink, nic_configure, At, Goto, local
  <2>2. tx_queue' = tx_queue /\ handed' = handed /\ made' = made
    BY <1>4 DEF network_worker, Unlink, nic_configure, history
  <2> QED
    BY ZenonT(30), <2>1, <2>2 DEF Nothing, Pending
<1>5. CASE Release(t) \/ nicflush(t)
  <2>1. pc[t] \in {"idle", "loop", "unlink"} /\ pc'[t] = "flush_tx" /\ p'[t] = tx_queue
    BY ZenonT(30), <1>0, <1>1, <1>5 DEF Release, nicflush, At, Goto
  <2>2. handed' = handed /\ made' = made
    BY <1>5 DEF Release, nicflush, history
  <2> QED
    BY ZenonT(30), <2>1, <2>2 DEF Nothing, Pending
<1>6. CASE Process(t)
  <2> DEFINE f == Head(rx_queue).f
  <2>0. pc[t] = "loop" /\ handed' = handed /\ process_packet(t, f) /\ f \in Frame
    <3>1. Head(rx_queue) \in Arrival
        BY ZenonT(30), <1>6, HeadTailProperties DEF IInv, TypeOK, Process
    <3> QED
        BY ZenonT(30), <1>6, <3>1 DEF Process, At, Arrival
  <2> HIDE DEF f
  <2>1. CASE IsRequest(f)
    <3>1. f.sha \in Mac
        BY <2>0, <2>1, FrameAssumption DEF IsRequest
    <3>2. CASE create_tx_packet(f.sha) /\ p' = [p EXCEPT ![t] = tx_queue'] /\ Goto(t, "tx_n")
      <4>1. pc'[t] = "tx_n" /\ p'[t] = tx_queue'
        BY ZenonT(30), <1>0, <1>1, <3>2 DEF Goto
      <4>2. Pending(t) = tx_queue /\ Pending(t)' = tx_queue'
        BY ZenonT(30), <2>0, <4>1 DEF Pending
      <4>3. [n |-> made + 1, to |-> f.sha] \in TxFrame
        BY <3>1 DEF TxFrame, IInv, TypeOK
      <4> QED
        BY ZenonT(30), <2>0, <3>2, <4>2, <4>3 DEF Makes, create_tx_packet
    <3>3. ~IsReply(f)
        BY <2>1 DEF IsRequest, IsReply
    <3> QED
        BY ZenonT(30), <2>0, <2>1, <3>2, <3>3 DEF process_packet
  <2>2. CASE ~IsRequest(f)
    <3>1. Goto(t, "unlink") /\ tx_queue' = tx_queue /\ made' = made
        BY ZenonT(30), <2>0, <2>2 DEF process_packet
    <3>2. pc'[t] = "unlink"
        BY ZenonT(30), <1>0, <1>1, <3>1 DEF Goto
    <3> QED
        BY ZenonT(30), <2>0, <3>1, <3>2 DEF Nothing, Pending
  <2> QED
    BY ZenonT(30), <2>1, <2>2
<1>7. CASE Send(t)
  <2>1. /\ \/ pc[t] = "tx_n" /\ pc'[t] = "tx_n wait"
           \/ pc[t] = "flush_tx" /\ pc'[t] = "flush_tx wait" /\ p[t] # <<>>
        /\ p' = p /\ handed' = Append(handed, Head(p[t])) /\ made' = made
    BY ZenonT(30), <1>0, <1>1, <1>7 DEF Send, At, Goto, e1000_send
  <2>2. p[t] # <<>>
    BY ZenonT(30), <1>0, <2>1 DEF IInv, Orderly
  <2> QED
    BY ZenonT(30), <2>1, <2>2 DEF Hands, Pending
<1>8. CASE Sent(t)
  <2>1. \/ pc[t] = "tx_n wait" /\ pc'[t] = "unlink" /\ tx_queue' = Tail(p[t])
        \/ pc[t] = "flush_tx wait" /\ pc'[t] = "flush_tx"
    BY ZenonT(30), <1>0, <1>1, <1>8 DEF Sent, At, Goto
  <2>2. p'[t] = Tail(p[t]) /\ handed' = handed /\ made' = made
    BY ZenonT(30), <1>0, <1>1, <1>8 DEF Sent, history
  <2> QED
    BY ZenonT(30), <2>1, <2>2 DEF Nothing, Pending
<1>9. CASE Flushed(t)
  <2>1. pc[t] = "flush_tx" /\ pc'[t] = "idle" /\ p[t] = <<>> /\ tx_queue' = <<>>
    BY ZenonT(30), <1>0, <1>1, <1>9 DEF Flushed, At, Goto
  <2>2. handed' = handed /\ made' = made
    BY <1>9 DEF Flushed, history
  <2> QED
    BY ZenonT(30), <2>1, <2>2 DEF Nothing, Pending
<1>10. CASE nicadd(t) \/ arp_request(t)
  <2>1. pc[t] = "idle" /\ create_tx_packet(Broadcast) /\ handed' = handed
    BY <1>10 DEF nicadd, arp_request, At
  <2>2. (pc'[t] = "flush_tx" /\ p'[t] = tx_queue') \/ pc'[t] = "idle"
    BY ZenonT(30), <1>0, <1>1, <1>10 DEF nicadd, arp_request, At, Goto, local
  <2>3. Pending(t) = tx_queue /\ Pending(t)' = tx_queue'
    BY ZenonT(30), <2>1, <2>2 DEF Pending
  <2>4. [n |-> made + 1, to |-> Broadcast] \in TxFrame
    BY BroadcastAssumption DEF TxFrame, IInv, TypeOK
  <2> QED
    BY ZenonT(30), <2>1, <2>3, <2>4 DEF Makes, create_tx_packet
<1> QED
    BY ZenonT(30), <1>0, <1>2, <1>3, <1>4, <1>5, <1>6, <1>7, <1>8, <1>9, <1>10 DEF Next, WorkerStep

\* The numbers of a sequence with one frame more in front, at the end, or less.
LEMMA NumbersOf ==
    ASSUME NEW s \in Seq(TxFrame), NEW e \in TxFrame, NoTwice(s), e.n \notin Numbers(s)
    PROVE  /\ NoTwice(<<e>> \o s) /\ Numbers(<<e>> \o s) = Numbers(s) \cup {e.n}
           /\ NoTwice(Append(s, e)) /\ Numbers(Append(s, e)) = Numbers(s) \cup {e.n}
<1>1. PICK m \in Nat : m = Len(s) /\ DOMAIN s = 1..m
    BY LenProperties
<1>2. ASSUME NEW r, DOMAIN r = 1..m + 1, r[1] = e, \A k \in 1..m : r[k + 1] = s[k]
      PROVE  NoTwice(r) /\ Numbers(r) = Numbers(s) \cup {e.n}
  <2>1. \A j \in 1..m + 1 : j # 1 => j - 1 \in 1..m /\ r[j] = s[j - 1]
    <3> SUFFICES ASSUME NEW j \in 1..m + 1, j # 1 PROVE j - 1 \in 1..m /\ r[j] = s[j - 1]
        OBVIOUS
    <3>1. PICK k \in 1..m : j = k + 1 /\ j - 1 = k
        OBVIOUS
    <3> QED
        BY <1>2, <3>1
  <2>2. \A k \in 1..m : k + 1 \in 1..m + 1
    OBVIOUS
  <2>3. \A j \in 1..m + 1 : r[j].n = e.n \/ r[j].n \in Numbers(s)
    BY ZenonT(30), <1>1, <1>2, <2>1 DEF Numbers
  <2>4. 1 \in 1..m + 1
    OBVIOUS
  <2>5. Numbers(r) = Numbers(s) \cup {e.n}
    <3>1. e.n \in Numbers(r) /\ \A k \in 1..m : s[k].n \in Numbers(r)
        BY ZenonT(30), <1>2, <2>2, <2>4 DEF Numbers
    <3>2. Numbers(s) \subseteq Numbers(r)
        BY ONLY <1>1, <3>1 DEF Numbers
    <3>3. Numbers(r) \subseteq Numbers(s) \cup {e.n}
        BY <1>2, <2>3 DEF Numbers
    <3> QED
        BY <3>1, <3>2, <3>3
  <2>6. ASSUME NEW i \in 1..m + 1, NEW j \in 1..m + 1, r[i].n = r[j].n PROVE i = j
    <3>1. CASE i = 1 \/ j = 1
      <4>1. \A k \in 1..m : s[k].n # e.n
        BY <1>1 DEF Numbers
      <4> QED
        BY ZenonT(30), <1>2, <2>1, <2>6, <3>1, <4>1
    <3>2. CASE i # 1 /\ j # 1
      <4>1. i - 1 = j - 1
        BY <1>1, <2>1, <2>6, <3>2 DEF NoTwice
      <4> QED
        BY <4>1
    <3> QED
        BY <3>1, <3>2
  <2> QED
    BY ZenonT(30), <1>2, <2>5, <2>6 DEF NoTwice
<1>3. PICK r : r = <<e>> \o s
    BY ZenonT(30)
<1>4. DOMAIN r = 1..m + 1 /\ r[1] = e /\ \A k \in 1..m : r[k + 1] = s[k]
    BY <1>1, <1>3, PrependFacts
<1>5. PICK a : a = Append(s, e)
    BY ZenonT(30)
<1>6. DOMAIN a = 1..m + 1 /\ a[m + 1] = e /\ \A k \in 1..m : a[k] = s[k]
    BY <1>1, <1>5, AppendFacts
<1>7. \A j \in 1..m + 1 : j = m + 1 \/ j \in 1..m
    OBVIOUS
<1>8. m + 1 \in 1..m + 1 /\ \A k \in 1..m : k \in 1..m + 1
    OBVIOUS
<1>9. Numbers(a) = Numbers(s) \cup {e.n}
    BY <1>1, <1>6, <1>7, <1>8 DEF Numbers
<1>10. NoTwice(a)
  <2>1. \A k \in 1..m : s[k].n # e.n
    BY <1>1 DEF Numbers
  <2> QED
    BY <1>1, <1>6, <1>7, <2>1 DEF NoTwice
<1> QED
    BY ZenonT(30), <1>2, <1>3, <1>4, <1>5, <1>9, <1>10

LEMMA NumbersOfTail ==
    ASSUME NEW s \in Seq(TxFrame), s # <<>>, NoTwice(s)
    PROVE  /\ NoTwice(Tail(s)) /\ Head(s).n \in Numbers(s)
           /\ Numbers(Tail(s)) = Numbers(s) \ {Head(s).n}
<1>1. PICK m \in Nat : m + 1 = Len(s)
    BY EmptySeq, LenProperties
<1>2. PICK r : r = Tail(s)
    BY ZenonT(30)
<1>3. /\ DOMAIN s = 1..m + 1 /\ DOMAIN r = 1..m /\ Head(s) = s[1]
      /\ \A k \in 1..m : r[k] = s[k + 1]
    BY <1>1, <1>2
<1>4. \A k \in 1..m : k + 1 \in 1..m + 1 /\ k + 1 # 1
    OBVIOUS
<1>5. 1 \in 1..m + 1 /\ \A j \in 1..m + 1 : j = 1 \/ \E k \in 1..m : j = k + 1
  <2> SUFFICES ASSUME NEW j \in 1..m + 1, j # 1 PROVE \E k \in 1..m : j = k + 1
    OBVIOUS
  <2>1. j - 1 \in 1..m /\ j = (j - 1) + 1
    OBVIOUS
  <2> QED
    BY <2>1
<1>6. NoTwice(r)
  <2> SUFFICES ASSUME NEW i \in 1..m, NEW j \in 1..m, r[i].n = r[j].n PROVE i = j
    BY <1>3 DEF NoTwice
  <2>1. i + 1 \in DOMAIN s /\ j + 1 \in DOMAIN s /\ s[i + 1].n = s[j + 1].n
    BY <1>3, <1>4
  <2>2. i + 1 = j + 1
    BY <2>1 DEF NoTwice
  <2> QED
    BY <2>2
<1>7. \A k \in 1..m : s[k + 1].n # s[1].n
    BY ZenonT(30), <1>3, <1>4, <1>5 DEF NoTwice
<1>8. Numbers(r) = Numbers(s) \ {s[1].n}
  <2>1. \A k \in 1..m : r[k].n \in Numbers(s) \ {s[1].n}
    BY ZenonT(30), <1>3, <1>4, <1>7 DEF Numbers
  <2>2. Numbers(r) \subseteq Numbers(s) \ {s[1].n}
    BY <1>3, <2>1 DEF Numbers
  <2>3. \A j \in 1..m + 1 : s[j].n # s[1].n => s[j].n \in Numbers(r)
    BY ZenonT(30), <1>3, <1>5 DEF Numbers
  <2>4. Numbers(s) \ {s[1].n} \subseteq Numbers(r)
    BY ONLY ZenonT(30), <1>3, <2>3 DEF Numbers
  <2> QED
    BY <2>2, <2>4
<1>9. s[1].n \in Numbers(s)
    BY <1>3, <1>5 DEF Numbers
<1> QED
    BY <1>2, <1>3, <1>6, <1>8, <1>9

LEMMA TxStep ==
    ASSUME NEW t, Task = {t}, IInv, [Next]_vars, TxInv(t)
    PROVE  TxInv(t)'
<1>1. PICK q \in Seq(TxFrame) : q = Pending(t) /\ Parted(handed, q, made)
    BY ZenonT(30) DEF TxInv
<1>2. handed \in Seq(TxFrame) /\ made \in Nat
    BY DEF IInv, TypeOK
<1>3. SUFFICES Pending(t)' \in Seq(TxFrame) /\ Parted(handed', Pending(t)', made')
    BY DEF TxInv
<1>4. CASE Nothing(t)
    BY <1>1, <1>4 DEF Nothing
<1>5. CASE Makes(t)
  <2>1. PICK f \in TxFrame : f.n = made + 1 /\ Pending(t)' = <<f>> \o q
    BY ZenonT(30), <1>1, <1>5 DEF Makes
  <2>2. f.n \notin 1..made /\ 1..made + 1 = 1..made \cup {f.n}
    BY <1>2, <2>1
  <2>3. NoTwice(<<f>> \o q) /\ Numbers(<<f>> \o q) = Numbers(q) \cup {f.n}
    BY <1>1, <2>2, NumbersOf DEF Parted
  <2>4. Parted(handed, <<f>> \o q, made + 1)
    BY <1>1, <2>2, <2>3 DEF Parted
  <2>5. <<f>> \o q \in Seq(TxFrame)
    OBVIOUS
  <2> QED
    BY ZenonT(30), <1>5, <2>1, <2>4, <2>5 DEF Makes
<1>6. CASE Hands(t)
  <2> DEFINE e == Head(q)
  <2>1. q # <<>> /\ Pending(t)' = Tail(q) /\ handed' = Append(handed, e) /\ made' = made
    BY <1>1, <1>6 DEF Hands
  <2>2. e \in TxFrame
    BY <2>1, HeadTailProperties
  <2>3. NoTwice(Tail(q)) /\ e.n \in Numbers(q) /\ Numbers(Tail(q)) = Numbers(q) \ {e.n}
    BY <1>1, <2>1, NumbersOfTail DEF Parted
  <2> HIDE DEF e
  <2>4. NoTwice(Append(handed, e)) /\ Numbers(Append(handed, e)) = Numbers(handed) \cup {e.n}
    BY ZenonT(30), <1>1, <1>2, <2>2, <2>3, NumbersOf DEF Parted
  <2>5. Parted(Append(handed, e), Tail(q), made)
    BY <1>1, <2>3, <2>4 DEF Parted
  <2>6. Tail(q) \in Seq(TxFrame)
    BY <2>1, HeadTailProperties
  <2> QED
    BY ZenonT(30), <2>1, <2>5, <2>6
<1> QED
    BY <1>4, <1>5, <1>6, Effects

\* With the debug shell the only task, every frame made is handed to the card
\* once or still queued.
THEOREM SentOnce == ASSUME NEW CONSTANT shell, Task = {shell} PROVE Spec => []TxOnce
<1>1. Init => TxInv(shell)
  <2> SUFFICES ASSUME Init PROVE TxInv(shell)
    OBVIOUS
  <2>1. pc[shell] = "idle" /\ handed = <<>> /\ tx_queue = <<>> /\ made = 0
    BY DEF Init
  <2>2. Pending(shell) = <<>>
    BY <2>1 DEF Pending
  <2>3. Numbers(<<>>) = {} /\ NoTwice(<<>>) /\ <<>> \in Seq(TxFrame) /\ 1..0 = {}
    BY DEF Numbers, NoTwice
  <2> QED
    BY <2>1, <2>2, <2>3 DEF TxInv, Parted
<1>2. IInv /\ [Next]_vars /\ TxInv(shell) => TxInv(shell)'
    BY TxStep
<1>3. TxInv(shell) => TxOnce
  <2> SUFFICES ASSUME TxInv(shell) PROVE TxOnce
    OBVIOUS
  <2>1. \A i, j \in DOMAIN handed : handed[i].n = handed[j].n => i = j
    BY ZenonT(30) DEF TxInv, Parted, NoTwice
  <2>2. ASSUME pc[shell] \in {"idle", "loop", "unlink"}, NEW n \in 1..made
        PROVE  (\E i \in DOMAIN handed : handed[i].n = n)
                  # (\E i \in DOMAIN tx_queue : tx_queue[i].n = n)
    <3>1. Pending(shell) = tx_queue
        BY ZenonT(30), <2>2 DEF Pending
    <3>2. (n \in Numbers(handed)) # (n \in Numbers(tx_queue))
        BY <2>2, <3>1 DEF TxInv, Parted
    <3>3. n \in Numbers(handed) <=> \E i \in DOMAIN handed : handed[i].n = n
        BY DEF Numbers
    <3>4. n \in Numbers(tx_queue) <=> \E i \in DOMAIN tx_queue : tx_queue[i].n = n
        BY DEF Numbers
    <3> QED
        BY ONLY <3>2, <3>3, <3>4
  <2> QED
    BY <2>1, <2>2 DEF TxOnce
<1> QED
    BY <1>1, <1>2, <1>3, Invariance, PTL DEF Spec

LEMMA CardStep ==
    ASSUME NEW t, Task = {t}, IInv, [Next]_vars, CardInv(t)
    PROVE  CardInv(t)'
<1>0. t \in Task /\ \A u \in Task : u = t
    OBVIOUS
<1> DEFINE N == NUM_TX_DESC
<1>1. /\ handed \in Seq(TxFrame) /\ wire \in Seq(TxFrame \cup {Zeroes}) /\ N \in Nat \ {0}
      /\ Len(handed) \in Nat /\ Len(wire) \in Nat /\ DOMAIN wire = 1..Len(wire)
      /\ tx_cur \in Desc /\ tx_head \in Desc /\ Desc = 0..N - 1
      /\ tx_buf \in [Desc -> TxFrame \cup {Zeroes}] /\ tx_done \in [Desc -> BOOLEAN]
      /\ pc \in [Task -> Places] /\ old_cur \in [Task -> Desc]
    BY ZenonT(30), RingAssumption, LenProperties DEF IInv, TypeOK, Desc
<1>w. PICK w \in Nat, h \in Nat : w = Len(wire) /\ h = Len(handed)
    BY ZenonT(30), <1>1
<1>r. \A i \in 1..w : i <= N => i <= h /\ wire[i] = handed[i]
    BY ZenonT(30), <1>1, <1>w DEF CardInv
<1>f. w < N => /\ tx_head = w /\ tx_cur = IF h = N THEN 0 ELSE h
               /\ \A d \in Desc : tx_done[d] => d < w
               /\ \/ h = w
                  \/ /\ h = w + 1 /\ pc[t] \in Waiting
                     /\ old_cur[t] = w /\ tx_buf[w] = handed[h]
    BY ZenonT(30), <1>w DEF CardInv
<1>2. CASE UNCHANGED <<card, wire, handed, old_cur>>
           /\ (pc[t] \in Waiting => pc'[t] = pc[t])
    BY <1>2 DEF CardInv, card, Desc
<1>3. CASE CardSends
  <2>1. /\ tx_head # tx_cur /\ wire' = Append(wire, tx_buf[tx_head])
        /\ tx_done' = [tx_done EXCEPT ![tx_head] = TRUE] /\ tx_head' = NextDesc(tx_head)
        /\ UNCHANGED <<tx_buf, tx_cur, handed, old_cur, pc>>
    BY <1>3 DEF CardSends, local
  <2>2. PICK e \in TxFrame \cup {Zeroes} : e = tx_buf[tx_head]
    BY <1>1
  <2>3. /\ Len(wire') = w + 1 /\ DOMAIN wire' = 1..w + 1
        /\ wire'[w + 1] = e /\ \A k \in 1..w : wire'[k] = wire[k]
    BY SMTT(30), <1>1, <1>w, <2>1, <2>2, AppendFacts
  <2>4. CASE w < N
    <3>1. /\ h = w + 1 /\ pc[t] \in Waiting
          /\ tx_head = w /\ e = handed[w + 1]
      <4>1. tx_head = w /\ h # w
        BY SMTT(30), <1>1, <1>f, <2>1, <2>4
      <4> QED
        BY ONLY ZenonT(30), <1>f, <2>2, <2>4, <4>1
    <3>2. \A i \in DOMAIN wire' : i <= N => i <= Len(handed') /\ wire'[i] = handed'[i]
      <4> SUFFICES ASSUME NEW i \in 1..w + 1, i <= N PROVE i <= h /\ wire'[i] = handed[i]
        BY ZenonT(30), <1>w, <2>1, <2>3
      <4>1. CASE i = w + 1
        BY <2>3, <3>1, <4>1
      <4>2. CASE i \in 1..w
        BY ZenonT(30), <1>r, <2>3, <4>2
      <4> QED
        BY SMTT(30), <4>1, <4>2
    <3>3. ASSUME Len(wire') < N
          PROVE  /\ tx_head' = Len(wire') /\ Len(handed') = Len(wire')
                 /\ tx_cur' = IF Len(handed') = N THEN 0 ELSE Len(handed')
                 /\ \A d \in Desc : tx_done'[d] => d < Len(wire')
      <4>0. w + 1 < N /\ N \in Nat
        BY ZenonT(30), <1>1, <2>3, <3>3
      <4>1. tx_head' = w + 1
        BY ONLY <4>0, <2>1, <3>1, w \in Nat DEF NextDesc
      <4>2. \A d \in Desc : tx_done'[d] => d < w + 1
        <5> SUFFICES ASSUME NEW d \in Desc, tx_done'[d] PROVE d < w + 1
            OBVIOUS
        <5>1. d = w \/ tx_done[d]
            BY <1>1, <2>1, <3>1
        <5>2. d \in Nat
            BY <1>1
        <5> QED
            BY ONLY <1>f, <2>4, <5>1, <5>2, d \in Desc, w \in Nat
      <4>3. tx_cur = IF h = N THEN 0 ELSE h
        BY ZenonT(30), <1>f, <2>4
      <4> QED
        BY ZenonT(30), <1>w, <2>1, <2>3, <3>1, <4>1, <4>2, <4>3
    <3> QED
        BY <3>2, <3>3 DEF CardInv, Desc
  <2>5. CASE ~(w < N)
    <3>1. ~(Len(wire') < N)
        BY SMTT(30), <1>1, <2>3, <2>5
    <3>2. \A i \in DOMAIN wire' : i <= N => i <= Len(handed') /\ wire'[i] = handed'[i]
      <4> SUFFICES ASSUME NEW i \in 1..w + 1, i <= N PROVE i <= h /\ wire'[i] = handed[i]
        BY <1>w, <2>1, <2>3
      <4>1. i \in 1..w
        BY <1>1, <2>5
      <4> QED
        BY ZenonT(30), <1>r, <2>3, <4>1
    <3> QED
        BY ZenonT(30), <3>1, <3>2 DEF CardInv
  <2> QED
    BY <2>4, <2>5
<1>4. CASE Send(t)
  <2>1. /\ pc[t] \in {"tx_n", "flush_tx"} /\ pc'[t] \in Waiting
        /\ pc[t] = "flush_tx" => p[t] # <<>>
        /\ e1000_send(t, Head(p[t])) /\ wire' = wire
    BY ZenonT(30), <1>0, <1>1, <1>4 DEF Send, At, Goto, Waiting
  <2>2. p[t] \in Seq(TxFrame) /\ p[t] # <<>>
    BY ZenonT(30), <1>0, <2>1 DEF IInv, TypeOK, Orderly
  <2>3. PICK e \in TxFrame : e = Head(p[t])
    BY ZenonT(30), <2>2, HeadTailProperties
  <2>4. /\ tx_buf' = [tx_buf EXCEPT ![tx_cur] = e] /\ old_cur' = [old_cur EXCEPT ![t] = tx_cur]
        /\ tx_cur' = NextDesc(tx_cur) /\ handed' = Append(handed, e)
        /\ tx_done' = tx_done /\ tx_head' = tx_head
    BY ZenonT(30), <2>1, <2>3 DEF e1000_send
  <2>5. /\ Len(handed') = Len(handed) + 1 /\ handed'[Len(handed) + 1] = e
        /\ \A k \in 1..Len(handed) : handed'[k] = handed[k]
    <3>1. handed \in Seq(TxFrame) /\ e \in TxFrame /\ handed' = Append(handed, e)
        BY ONLY <1>1, <2>3, <2>4
    <3> QED
        BY ONLY <3>1, AppendFacts
  <2>6. \A i \in DOMAIN wire' : i <= N => i <= Len(handed') /\ wire'[i] = handed'[i]
    <3> SUFFICES ASSUME NEW i \in 1..w, i <= N PROVE i <= h + 1 /\ wire[i] = handed'[i]
        BY ZenonT(30), <1>1, <1>w, <2>1, <2>5
    <3>1. i <= h /\ wire[i] = handed[i]
        BY <1>r
    <3>2. i \in 1..h /\ i <= h + 1
        BY SMTT(30), <3>1
    <3> QED
        BY ZenonT(30), <1>w, <2>5, <3>1, <3>2
  <2>7. CASE Len(wire) < N
    <3>1. /\ Len(handed) = Len(wire) /\ tx_head = Len(wire) /\ tx_cur = Len(wire)
          /\ \A d \in Desc : tx_done[d] => d < Len(wire)
      <4>1. ~(pc[t] \in Waiting)
        BY ZenonT(30), <2>1 DEF Waiting
      <4>2. Len(handed) = Len(wire)
        BY ZenonT(30), <2>7, <4>1 DEF CardInv
      <4> QED
        BY <1>1, <2>7, <4>2 DEF CardInv
    <3>2. tx_cur' = IF Len(handed') = N THEN 0 ELSE Len(handed')
        BY SMTT(30), <1>1, <2>4, <2>5, <2>7, <3>1 DEF NextDesc
    <3>3. old_cur'[t] = Len(wire') /\ tx_buf'[Len(wire')] = handed'[Len(handed')]
        BY ZenonT(30), <1>0, <1>1, <2>1, <2>4, <2>5, <2>7, <3>1
    <3> QED
        BY ZenonT(30), <2>1, <2>4, <2>5, <2>6, <3>1, <3>2, <3>3 DEF CardInv, Desc
  <2>8. CASE ~(Len(wire) < N)
    BY ZenonT(30), <2>1, <2>6, <2>8 DEF CardInv
  <2> QED
    BY <2>7, <2>8
<1>5. CASE Sent(t)
  <2>1. /\ tx_done[old_cur[t]] /\ UNCHANGED <<tx_done, tx_cur, tx_head, old_cur, wire, handed>>
    BY ZenonT(30), <1>5 DEF Sent, history
  <2>2. \A i \in DOMAIN wire' : i <= N => i <= Len(handed') /\ wire'[i] = handed'[i]
    BY <2>1 DEF CardInv
  <2>3. Len(wire) < N => Len(handed) = Len(wire)
    <3>1. old_cur[t] \in Desc
        BY ZenonT(30), <1>0, <1>1
    <3>2. w < N => ~(old_cur[t] = w)
        BY <1>f, <2>1, <3>1
    <3> QED
        BY <1>f, <1>w, <3>2
  <2> QED
    BY ZenonT(30), <2>1, <2>2, <2>3 DEF CardInv, Desc
<1>6. CASE UNCHANGED vars \/ CardReceives \/ Interrupt \/ e1000_received \/ InterruptReturns
  <2>1. UNCHANGED <<card, wire, handed, old_cur, pc>>
    BY <1>6 DEF vars, CardReceives, Interrupt, e1000_received, InterruptReturns, card, local, history
  <2> QED
    BY ZenonT(30), <1>2, <2>1
<1>7. CASE network_worker(t) \/ Process(t) \/ Unlink(t) \/ Release(t) \/ Flushed(t)
           \/ nicadd(t) \/ arp_request(t) \/ nicflush(t) \/ nic_configure(t)
  <2>1. pc[t] \in {"idle", "loop", "unlink", "flush_tx"}
    BY ZenonT(30), <1>7 DEF network_worker, Process, Unlink, Release, Flushed, nicadd, arp_request,
                            nicflush, nic_configure, At
  <2>2. UNCHANGED <<card, wire, handed, old_cur>>
    BY ZenonT(30), <1>7 DEF network_worker, Process, Unlink, Release, Flushed, nicadd, arp_request,
                nicflush, nic_configure, card, local, history
  <2> QED
    BY ZenonT(30), <1>2, <2>1, <2>2 DEF Waiting
<1> QED
    BY ZenonT(30), <1>0, <1>3, <1>4, <1>5, <1>6, <1>7 DEF Next, WorkerStep

\* With the debug shell the only task, the card sends the first NUM_TX_DESC
\* frames in the order they were handed over, and unchanged.
THEOREM FirstRoundIntact ==
    ASSUME NEW CONSTANT shell, Task = {shell} PROVE Spec => []FirstFramesIntact
<1>1. Init => CardInv(shell)
  <2> SUFFICES ASSUME Init PROVE CardInv(shell)
    OBVIOUS
  <2>1. Len(wire) = 0 /\ Len(handed) = 0 /\ DOMAIN wire = {} /\ tx_head = 0 /\ tx_cur = 0
    BY DEF Init
  <2>2. \A d \in Desc : ~tx_done[d]
    BY DEF Init
  <2> QED
    BY <2>1, <2>2 DEF CardInv
<1>2. IInv /\ [Next]_vars /\ CardInv(shell) => CardInv(shell)'
    BY CardStep
<1>3. CardInv(shell) => FirstFramesIntact
    BY DEF CardInv, FirstFramesIntact
<1> QED
    BY <1>1, <1>2, <1>3, Invariance, PTL DEF Spec
=============================================================================
