------------------------------ MODULE NetStack ------------------------------
(***************************************************************************)
(* The network stack of devices/net/netstack.c on one interface, with the  *)
(* part of drivers/net/e1000/e1000c.c that hands frames in and out.  The   *)
(* network interrupt puts the frames that arrived on rx_queue; a pass of   *)
(* network_worker, in a task, takes them off, answers ARP requests and     *)
(* remembers ARP replies; tasks queue frames and flush_tx hands them to    *)
(* the card.  rx_queue_lock is only ever tried: the interrupt drops the    *)
(* frame when the worker holds it.  tx_queue has no lock.                  *)
(*                                                                         *)
(* The interrupt runs with interrupts off, so no step of a task comes      *)
(* between two of its own; the card works all the time.                    *)
(***************************************************************************)
EXTENDS Integers, Sequences

CONSTANTS
    Task,           \* tasks that run network_worker or the shell's commands
    Frame,          \* contents of the frames that arrive
    Ip,             \* IP addresses
    Mac,            \* hardware addresses
    Broadcast,      \* the hardware address of all
    NoIp,           \* 0.0.0.0
    Zeroes,         \* a transmit buffer after memset
    Garbage,        \* what kmalloc may leave in the counter dropped_rx
    RX_HARD_THRESHOLD,
    NUM_RX_DESC,
    NUM_TX_DESC,
    MaxArrivals,    \* bound: frames that arrive
    MaxMade         \* bound: frames queued by the shell's commands

ASSUME ThresholdAssumption == RX_HARD_THRESHOLD \in Nat
ASSUME GarbageAssumption == Garbage \subseteq Nat
ASSUME RingAssumption == NUM_RX_DESC \in Nat \ {0} /\ NUM_TX_DESC \in Nat \ {0}
\* What the stack looks at in a frame: its kind ("large" stands for a length
\* above 1500, "other" for what process_packet ignores), and of an ARP packet
\* the target address, the sender's address and the sender's MAC.
ASSUME FrameAssumption ==
    \A f \in Frame :
        /\ f.kind \in {"request", "reply", "other", "large"}
        /\ f.kind \in {"request", "reply"} => f.spa \in Ip /\ f.sha \in Mac
ASSUME BroadcastAssumption == Broadcast \in Mac

VARIABLES
    rx_ring,        \* frames in receive descriptors whose done bit is set
    irq,            \* the network interrupt is being handled
    rx_queue, rx_queue_size, rx_queue_lock, dropped_rx,
    arp_cache,      \* entries [ip, mac], newest first
    ip,             \* nic->ip
    tx_queue,       \* frames to send, [n, to], newest first
    tx_buf, tx_done, tx_cur, tx_head,   \* the transmit descriptors
    pc, rounds, p, old_cur,             \* of each task: place and locals
    arrived, processed, made, handed, wire,  \* history
    dropped_before  \* history: dropped_rx is not initialised by create_nic

rx == <<rx_ring, irq, rx_queue, rx_queue_size, rx_queue_lock, dropped_rx>>
card == <<tx_buf, tx_done, tx_cur, tx_head>>
local == <<pc, rounds, p, old_cur>>
history == <<arrived, processed, made, handed, wire, dropped_before>>
vars == <<rx, arp_cache, ip, tx_queue, card, local, history>>

Desc == 0..NUM_TX_DESC - 1
NextDesc(d) == IF d = NUM_TX_DESC - 1 THEN 0 ELSE d + 1

Arrival == [n : Nat, f : Frame]
TxFrame == [n : Nat, to : Mac]

\* Places in a pass of network_worker that holds rx_queue_lock, and those of
\* them between process_packet and the removal of the frame.
Passing == {"loop", "tx_n", "tx_n wait", "unlink"}
Taken == {"tx_n", "tx_n wait", "unlink"}
Places == Passing \cup {"idle", "flush_tx", "flush_tx wait"}

TypeOK ==
    /\ rx_ring \in Seq(Arrival) /\ irq \in BOOLEAN
    /\ rx_queue \in Seq(Arrival) /\ rx_queue_size \in Nat /\ rx_queue_lock \in BOOLEAN
    /\ dropped_rx \in Nat /\ dropped_before \in Nat
    /\ arp_cache \in Seq([ip : Ip, mac : Mac]) /\ ip \in Ip \cup {NoIp}
    /\ tx_queue \in Seq(TxFrame)
    /\ tx_buf \in [Desc -> TxFrame \cup {Zeroes}] /\ tx_done \in [Desc -> BOOLEAN]
    /\ tx_cur \in Desc /\ tx_head \in Desc
    /\ pc \in [Task -> Places] /\ rounds \in [Task -> Nat]
    /\ p \in [Task -> Seq(TxFrame)] /\ old_cur \in [Task -> Desc]
    /\ arrived \in Nat /\ made \in Nat
    /\ processed \in Seq([n : Nat, f : Frame, ip : Ip \cup {NoIp}])
    /\ handed \in Seq(TxFrame) /\ wire \in Seq(TxFrame \cup {Zeroes})

Init ==
    /\ rx_ring = <<>> /\ irq = FALSE
    /\ rx_queue = <<>> /\ rx_queue_size = 0 /\ rx_queue_lock = FALSE
    /\ dropped_rx \in Garbage /\ dropped_before = dropped_rx
    /\ arp_cache = <<>> /\ ip = NoIp /\ tx_queue = <<>>
    /\ tx_buf = [d \in Desc |-> Zeroes] /\ tx_done = [d \in Desc |-> FALSE]
    /\ tx_cur = 0 /\ tx_head = 0
    /\ pc = [t \in Task |-> "idle"] /\ rounds = [t \in Task |-> 0]
    /\ p = [t \in Task |-> <<>>] /\ old_cur = [t \in Task |-> 0]
    /\ arrived = 0 /\ processed = <<>> /\ made = 0 /\ handed = <<>> /\ wire = <<>>
-----------------------------------------------------------------------------
(* Receiving, in the network interrupt. *)

\* The card stores a frame in the next receive descriptor; frames are numbered
\* as they arrive.
CardReceives ==
    /\ arrived < MaxArrivals /\ Len(rx_ring) < NUM_RX_DESC
    /\ \E f \in Frame : rx_ring' = Append(rx_ring, [n |-> arrived + 1, f |-> f])
    /\ arrived' = arrived + 1
    /\ UNCHANGED <<irq, rx_queue, rx_queue_size, rx_queue_lock, dropped_rx, arp_cache,
                   ip, tx_queue, card, local, processed, made, handed, wire, dropped_before>>

\* handle_nic_int is entered.
Interrupt ==
    /\ ~irq /\ rx_ring # <<>>
    /\ irq' = TRUE
    /\ UNCHANGED <<rx_ring, rx_queue, rx_queue_size, rx_queue_lock, dropped_rx,
                   arp_cache, ip, tx_queue, card, local, history>>

Dropped ==
    /\ dropped_rx' = dropped_rx + 1
    /\ UNCHANGED <<rx_queue, rx_queue_size>>

\* With the queue locked it returns no value: the caller then gives up, or copies
\* the bytes of the frame to memory outside the queue.
create_rx_packet(f) ==
    IF rx_queue_lock
    THEN Dropped
    ELSE /\ rx_queue' = <<f>> \o rx_queue
         /\ rx_queue_size' = rx_queue_size + 1
         /\ UNCHANGED dropped_rx


\* Fault: the queue takes one frame more than a pass of the worker.
inject_packet_callback_late(f) ==
    IF rx_queue_size > RX_HARD_THRESHOLD + 1 \/ f.f.kind = "large"
    THEN Dropped
    ELSE create_rx_packet(f)

inject_packet_callback(f) ==
    IF rx_queue_size > RX_HARD_THRESHOLD \/ f.f.kind = "large"
    THEN Dropped
    ELSE create_rx_packet(f)

\* One round of the loop of e1000_received.
e1000_received ==
    /\ irq /\ rx_ring # <<>>
    /\ inject_packet_callback(Head(rx_ring))
    /\ rx_ring' = Tail(rx_ring)
    /\ UNCHANGED <<irq, rx_queue_lock, arp_cache, ip, tx_queue, card, local, history>>

\* No descriptor is done: the interrupt returns.
InterruptReturns ==
    /\ irq /\ rx_ring = <<>>
    /\ irq' = FALSE
    /\ UNCHANGED <<rx_ring, rx_queue, rx_queue_size, rx_queue_lock, dropped_rx,
                   arp_cache, ip, tx_queue, card, local, history>>
-----------------------------------------------------------------------------
(* The worker's pass over the interface, in a task. *)

At(t, place) == ~irq /\ pc[t] = place
Goto(t, place) == pc' = [pc EXCEPT ![t] = place]

\* Starts when try_acquire_lock succeeds; otherwise the pass is over.
network_worker(t) ==
    /\ At(t, "idle") /\ ~rx_queue_lock
    /\ rx_queue_lock' = TRUE
    /\ rounds' = [rounds EXCEPT ![t] = 0]
    /\ Goto(t, "loop")
    /\ UNCHANGED <<rx_ring, irq, rx_queue, rx_queue_size, dropped_rx, arp_cache, ip,
                   tx_queue, card, p, old_cur, history>>


\* Fault: the cache is not searched first.
add_arp_cache_entry_always(spa, sha) ==
    arp_cache' = <<[ip |-> spa, mac |-> sha]>> \o arp_cache

add_arp_cache_entry(spa, sha) ==
    arp_cache' =
        IF \E i \in DOMAIN arp_cache : arp_cache[i].ip = spa
        THEN [i \in DOMAIN arp_cache |->
                 IF arp_cache[i].ip = spa THEN [ip |-> spa, mac |-> sha] ELSE arp_cache[i]]
        ELSE <<[ip |-> spa, mac |-> sha]>> \o arp_cache

\* Queues a frame for the hardware address to.
create_tx_packet(to) ==
    /\ tx_queue' = <<[n |-> made + 1, to |-> to]>> \o tx_queue
    /\ made' = made + 1

IsRequest(f) == f.kind = "request" /\ f.tpa = ip
IsReply(f) == f.kind = "reply" /\ f.tpa = ip

\* process_packet on the first frame of the queue; a request for this address
\* is answered at once, by create_tx_packet and tx_n(c, 1).
process_packet(t, f) ==
    \/ /\ IsRequest(f)
       /\ create_tx_packet(f.sha)
       /\ p' = [p EXCEPT ![t] = tx_queue']
       /\ Goto(t, "tx_n")
       /\ UNCHANGED arp_cache
    \/ /\ IsReply(f)
       /\ add_arp_cache_entry(f.spa, f.sha)
       /\ Goto(t, "unlink")
       /\ UNCHANGED <<tx_queue, made, p>>
    \/ /\ ~IsRequest(f) /\ ~IsReply(f)
       /\ Goto(t, "unlink")
       /\ UNCHANGED <<arp_cache, tx_queue, made, p>>

Process(t) ==
    /\ At(t, "loop") /\ rx_queue # <<>> /\ rounds[t] <= RX_HARD_THRESHOLD
    /\ rounds' = [rounds EXCEPT ![t] = @ + 1]
    /\ process_packet(t, Head(rx_queue).f)
    /\ processed' = Append(processed, [n |-> Head(rx_queue).n, f |-> Head(rx_queue).f, ip |-> ip])
    /\ UNCHANGED <<rx, ip, card, old_cur, arrived, handed, wire, dropped_before>>

\* Fault: the size counter is not counted down.
Unlink_uncounted(t) ==
    /\ At(t, "unlink")
    /\ rx_queue' = Tail(rx_queue)
    /\ Goto(t, "loop")
    /\ UNCHANGED <<rx_ring, irq, rx_queue_size, rx_queue_lock, dropped_rx, arp_cache, ip,
                   tx_queue, card, rounds, p, old_cur, history>>

\* The frame is freed and taken off the queue.
Unlink(t) ==
    /\ At(t, "unlink")
    /\ rx_queue' = Tail(rx_queue)
    /\ rx_queue_size' = rx_queue_size - 1
    /\ Goto(t, "loop")
    /\ UNCHANGED <<rx_ring, irq, rx_queue_lock, dropped_rx, arp_cache, ip, tx_queue, card,
                   rounds, p, old_cur, history>>

\* Fault: the break of the "loop detected" branch skips release_lock.
Release_locked(t) ==
    /\ At(t, "loop") /\ (rx_queue = <<>> \/ rounds[t] > RX_HARD_THRESHOLD)
    /\ rx_queue_lock' = (rounds[t] > RX_HARD_THRESHOLD)
    /\ p' = [p EXCEPT ![t] = tx_queue]
    /\ Goto(t, "flush_tx")
    /\ UNCHANGED <<rx_ring, irq, rx_queue, rx_queue_size, dropped_rx, arp_cache, ip,
                   tx_queue, card, rounds, old_cur, history>>

\* The loop ends; the lock is released and flush_tx called.
Release(t) ==
    /\ At(t, "loop") /\ (rx_queue = <<>> \/ rounds[t] > RX_HARD_THRESHOLD)
    /\ rx_queue_lock' = FALSE
    /\ p' = [p EXCEPT ![t] = tx_queue]
    /\ Goto(t, "flush_tx")
    /\ UNCHANGED <<rx_ring, irq, rx_queue, rx_queue_size, dropped_rx, arp_cache, ip,
                   tx_queue, card, rounds, old_cur, history>>
-----------------------------------------------------------------------------
(* Sending. *)

\* e1000_send copies the frame, moves the tail and waits for the done bit.
e1000_send(t, f) ==
    /\ tx_buf' = [tx_buf EXCEPT ![tx_cur] = f]
    /\ old_cur' = [old_cur EXCEPT ![t] = tx_cur]
    /\ tx_cur' = NextDesc(tx_cur)
    /\ handed' = Append(handed, f)
    /\ UNCHANGED <<tx_done, tx_head>>

\* tx_n and the loop of flush_tx: device_write of the first frame of p.
Send(t) ==
    /\ \/ At(t, "tx_n") /\ Goto(t, "tx_n wait")
       \/ At(t, "flush_tx") /\ p[t] # <<>> /\ Goto(t, "flush_tx wait")
    /\ e1000_send(t, Head(p[t]))
    /\ UNCHANGED <<rx, arp_cache, ip, tx_queue, rounds, p, arrived, processed, made,
                   wire, dropped_before>>

\* Fault: tx_n leaves the frame it has sent on tx_queue.
Sent_kept(t) ==
    /\ tx_done[old_cur[t]]
    /\ \/ At(t, "tx_n wait") /\ Goto(t, "unlink")
       \/ At(t, "flush_tx wait") /\ Goto(t, "flush_tx")
    /\ p' = [p EXCEPT ![t] = Tail(@)]
    /\ tx_buf' = [tx_buf EXCEPT ![old_cur[t]] = Zeroes]
    /\ UNCHANGED <<rx, arp_cache, ip, tx_queue, tx_done, tx_cur, tx_head, rounds, old_cur,
                   history>>

\* Fault: the buffer is cleared without waiting for the done bit.
Sent_unwaited(t) ==
    /\ \/ At(t, "tx_n wait") /\ Goto(t, "unlink") /\ tx_queue' = Tail(p[t])
       \/ At(t, "flush_tx wait") /\ Goto(t, "flush_tx") /\ UNCHANGED tx_queue
    /\ p' = [p EXCEPT ![t] = Tail(@)]
    /\ tx_buf' = [tx_buf EXCEPT ![old_cur[t]] = Zeroes]
    /\ UNCHANGED <<rx, arp_cache, ip, tx_done, tx_cur, tx_head, rounds, old_cur, history>>

\* The done bit is set: the buffer is cleared, the frame freed.  It is the only
\* one of tx_n, which leaves the rest of p queued.
Sent(t) ==
    /\ tx_done[old_cur[t]]
    /\ \/ At(t, "tx_n wait") /\ Goto(t, "unlink") /\ tx_queue' = Tail(p[t])
       \/ At(t, "flush_tx wait") /\ Goto(t, "flush_tx") /\ UNCHANGED tx_queue
    /\ p' = [p EXCEPT ![t] = Tail(@)]
    /\ tx_buf' = [tx_buf EXCEPT ![old_cur[t]] = Zeroes]
    /\ UNCHANGED <<rx, arp_cache, ip, tx_done, tx_cur, tx_head, rounds, old_cur, history>>

\* flush_tx has sent everything it found.
Flushed(t) ==
    /\ At(t, "flush_tx") /\ p[t] = <<>>
    /\ tx_queue' = <<>>
    /\ Goto(t, "idle")
    /\ UNCHANGED <<rx, arp_cache, ip, card, rounds, p, old_cur, history>>

\* The card sends the buffer at its head and sets the done bit, which the
\* driver never clears.
CardSends ==
    /\ tx_head # tx_cur
    /\ wire' = Append(wire, tx_buf[tx_head])
    /\ tx_done' = [tx_done EXCEPT ![tx_head] = TRUE]
    /\ tx_head' = NextDesc(tx_head)
    /\ UNCHANGED <<rx, arp_cache, ip, tx_queue, tx_buf, tx_cur, local, arrived,
                   processed, made, handed, dropped_before>>
-----------------------------------------------------------------------------
(* The shell's commands. *)

\* nicadd queues a frame.
nicadd(t) ==
    /\ At(t, "idle") /\ made < MaxMade
    /\ create_tx_packet(Broadcast)
    /\ UNCHANGED <<rx, arp_cache, ip, card, local, arrived, processed, handed, wire,
                   dropped_before>>

\* arpr queues a request and flushes.
arp_request(t) ==
    /\ At(t, "idle") /\ made < MaxMade
    /\ create_tx_packet(Broadcast)
    /\ p' = [p EXCEPT ![t] = tx_queue']
    /\ Goto(t, "flush_tx")
    /\ UNCHANGED <<rx, arp_cache, ip, card, rounds, old_cur, arrived, processed, handed,
                   wire, dropped_before>>

nicflush(t) ==
    /\ At(t, "idle")
    /\ p' = [p EXCEPT ![t] = tx_queue]
    /\ Goto(t, "flush_tx")
    /\ UNCHANGED <<rx, arp_cache, ip, tx_queue, card, rounds, old_cur, history>>

nic_configure(t) ==
    /\ At(t, "idle")
    /\ ip' \in Ip
    /\ UNCHANGED <<rx, arp_cache, tx_queue, card, local, history>>
-----------------------------------------------------------------------------
WorkerStep(t) ==
    \/ Process(t) \/ Unlink(t) \/ Release(t) \/ Send(t) \/ Sent(t) \/ Flushed(t)

Next ==
    \/ CardReceives \/ Interrupt \/ e1000_received \/ InterruptReturns \/ CardSends
    \/ \E t \in Task :
          \/ network_worker(t) \/ WorkerStep(t)
          \/ nicadd(t) \/ arp_request(t) \/ nicflush(t) \/ nic_configure(t)

Spec == Init /\ [][Next]_vars

\* A task in the middle of a pass gets the CPU again, an interrupt returns once
\* the ring is empty, and the card sends what it is given.
FairSpec ==
    /\ Spec
    /\ WF_vars(e1000_received) /\ WF_vars(InterruptReturns) /\ WF_vars(CardSends)
    /\ \A t \in Task : SF_vars(WorkerStep(t))
-----------------------------------------------------------------------------
\* How many frames of the queue have been processed and not yet removed.
InHand == IF \E t \in Task : pc[t] \in Taken THEN 1 ELSE 0

\* Every frame taken from the card has been processed, waits on the queue or was
\* counted as dropped, none twice; the size counter is the queue's length.
RxAccounted ==
    /\ rx_queue_size = Len(rx_queue)
    /\ arrived + dropped_before + InHand =
          Len(rx_ring) + Len(rx_queue) + Len(processed) + dropped_rx

\* The "loop detected" break of network_worker is never taken with frames left:
\* the most the interrupt lets the queue hold is the most a pass takes off, so
\* the pass leaves it empty.
PassDrainsQueue ==
    \A t \in Task : pc[t] = "loop" /\ rounds[t] > RX_HARD_THRESHOLD => rx_queue = <<>>

\* The frame processed k-th was an ARP reply for the address held then.
ReplyForMe(k) == processed[k].f.kind = "reply" /\ processed[k].f.tpa = processed[k].ip

\* The ARP cache is what the replies for this interface say, the one processed
\* last winning: one entry per sender, with the MAC of its last reply.
CacheLatest ==
    /\ \A i, j \in DOMAIN arp_cache : arp_cache[i].ip = arp_cache[j].ip => i = j
    /\ \A i \in DOMAIN arp_cache : \E k \in DOMAIN processed : ReplyForMe(k) /\ processed[k].f.spa = arp_cache[i].ip
    /\ \A k \in DOMAIN processed :
          ReplyForMe(k) =>
              \/ \E i \in DOMAIN arp_cache :
                    arp_cache[i] = [ip |-> processed[k].f.spa, mac |-> processed[k].f.sha]
              \/ \E l \in DOMAIN processed :
                    l > k /\ ReplyForMe(l) /\ processed[l].f.spa = processed[k].f.spa

\* Every frame made is handed to the card once, or still queued when no task
\* is sending.
TxOnce ==
    /\ \A i, j \in DOMAIN handed : handed[i].n = handed[j].n => i = j
    /\ (\A t \in Task : pc[t] \in {"idle", "loop", "unlink"}) =>
          \A n \in 1..made :
              (\E i \in DOMAIN handed : handed[i].n = n)
                  # (\E i \in DOMAIN tx_queue : tx_queue[i].n = n)

\* The card sends the frames it is handed, in that order and unchanged, in the
\* first round of its descriptors.
FirstFramesIntact ==
    \A i \in DOMAIN wire : i <= NUM_TX_DESC => wire[i] = handed[i]

\* Every frame the card sends is one it was handed.
FramesIntact == \A i \in DOMAIN wire : i <= Len(handed) /\ wire[i] = handed[i]

\* Frames are processed in the order of arrival: create_rx_packet claims to
\* "Insert packet at the end of the queue".
ProcessedInOrder ==
    \A i, j \in DOMAIN processed : i < j => processed[i].n < processed[j].n

\* The worker keeps up with the card: never two frames wait on the queue.
OneWaiting == Len(rx_queue) <= 1

\* A pass that has taken the lock gives it back, although every frame that
\* arrives meanwhile interrupts it.
LockReleased == rx_queue_lock ~> ~rx_queue_lock
=============================================================================
