------------------------------ MODULE SpinLock ------------------------------
(***************************************************************************)
(* The spinlocks of sched/concurrency.c as the kernel nests them, on one   *)
(* CPU whose timer interrupt preempts tasks and itself takes locks:        *)
(* _tsleep and _kwakeup of sched/sline.c hold sleep_lock and, through      *)
(* smalloc and sfree, the lock of the sleep heap; kmalloc holds the lock   *)
(* of its heap; wakeup_handler runs in the timer interrupt.  What they do  *)
(* while they hold the locks is in the modules Scheduler and Heap: here an *)
(* operation is its path, the locks it takes one inside the other.         *)
(*                                                                         *)
(* Each step is one access to a lock word or one change of the interrupt   *)
(* flag, so that the timer may strike between any two of them.             *)
(***************************************************************************)
EXTENDS Naturals, Sequences

CONSTANTS
    Task,        \* the tasks
    PIT,         \* the timer interrupt handler
    None,        \* no holder
    Lock,        \* the spinlocks
    TaskPaths,   \* paths of the operations tasks call
    WakeupPaths, \* paths of wakeup_handler
    KsleepPaths  \* the locks _ksleep takes: a set of at most one path

Actor == Task \cup {PIT}
Paths == TaskPaths \cup WakeupPaths \cup KsleepPaths

ASSUME ActorAssumption == PIT \notin Task /\ None \notin Task \cup {PIT}
ASSUME PathAssumption ==
    \A p \in Paths : /\ p \in Seq(Lock) /\ Len(p) > 0
                     /\ \A i, j \in 1..Len(p) : p[i] = p[j] => i = j

VARIABLES
    mut,      \* the lock words: who has set them, None if clear
    flags,    \* lock->flags & 0x200
    IntFlag,  \* the interrupt flag of the CPU
    running,  \* the task on the CPU, or interrupted by the timer
    inPit,    \* the timer interrupt is being handled
    pc,       \* where each actor is
    path,     \* the locks of its operation
    depth,    \* which of them it is taking or releasing
    word,     \* a lock_t: the task that has set it, None if clear
    ksleep    \* tasks inside _ksleep

locks == <<mut, flags>>
vars == <<locks, IntFlag, running, inPit, pc, path, depth, word, ksleep>>

Places == {"idle", "lock", "tas", "flags", "cli", "clear", "sti"}

TypeOK ==
    /\ mut \in [Lock -> Actor \cup {None}]
    /\ flags \in [Lock -> BOOLEAN]
    /\ IntFlag \in BOOLEAN
    /\ running \in Task
    /\ inPit \in BOOLEAN
    /\ pc \in [Actor -> Places]
    /\ path \in [Actor -> Paths \cup {<<>>}]
    /\ depth \in [Actor -> Nat]
    /\ \A a \in Actor : pc[a] \notin {"idle", "lock"} => depth[a] \in 1..Len(path[a])
    /\ word \in Task \cup {None}
    /\ ksleep \subseteq Task

Init ==
    /\ mut = [l \in Lock |-> None]
    /\ flags = [l \in Lock |-> FALSE]
    /\ IntFlag = TRUE
    /\ running \in Task
    /\ inPit = FALSE
    /\ pc = [a \in Actor |-> "idle"]
    /\ path = [a \in Actor |-> <<>>]
    /\ depth = [a \in Actor |-> 0]
    /\ word = None
    /\ ksleep = {}
-----------------------------------------------------------------------------
\* Actor a, whose instructions the CPU executes, is at place p.
At(a, p) ==
    /\ a = IF inPit THEN PIT ELSE running
    /\ pc[a] = p

Goto(a, p, d) ==
    /\ pc' = [pc EXCEPT ![a] = p]
    /\ depth' = [depth EXCEPT ![a] = d]

Current(a) == path[a][depth[a]]

Start(a, p) ==
    /\ path' = [path EXCEPT ![a] = p]
    /\ Goto(a, "tas", 1)

\* A task calls an operation that takes spinlocks.
Call(t) ==
    /\ At(t, "idle")
    /\ \E p \in TaskPaths : Start(t, p)
    /\ UNCHANGED <<locks, IntFlag, running, inPit, word, ksleep>>

\* Fault: the word is written without being tested.
TestAndSet_set(a) ==
    /\ At(a, "tas")
    /\ mut' = [mut EXCEPT ![Current(a)] = a]
    /\ Goto(a, "flags", depth[a])
    /\ UNCHANGED <<flags, IntFlag, running, inPit, path, word, ksleep>>

\* acquire_spinlock: the test-and-set that ends the loop.
TestAndSet(a) ==
    /\ At(a, "tas")
    /\ mut[Current(a)] = None
    /\ mut' = [mut EXCEPT ![Current(a)] = a]
    /\ Goto(a, "flags", depth[a])
    /\ UNCHANGED <<flags, IntFlag, running, inPit, path, word, ksleep>>

\* Fault: the flags are read after cli.
SaveFlags_masked(a) ==
    /\ At(a, "flags")
    /\ flags' = [flags EXCEPT ![Current(a)] = FALSE]
    /\ Goto(a, "cli", depth[a])
    /\ UNCHANGED <<mut, IntFlag, running, inPit, path, word, ksleep>>

\* acquire_spinlock: lock->flags = getRflags().
SaveFlags(a) ==
    /\ At(a, "flags")
    /\ flags' = [flags EXCEPT ![Current(a)] = IntFlag]
    /\ Goto(a, "cli", depth[a])
    /\ UNCHANGED <<mut, IntFlag, running, inPit, path, word, ksleep>>

\* Fault: interrupts stay on.
Cli_skipped(a) ==
    /\ At(a, "cli")
    /\ IF depth[a] < Len(path[a]) THEN Goto(a, "tas", depth[a] + 1)
                                   ELSE Goto(a, "clear", depth[a])
    /\ UNCHANGED <<locks, IntFlag, running, inPit, path, word, ksleep>>

\* acquire_spinlock: cli; the next lock of the path, or the work that ends
\* with the release of the last one.
Cli(a) ==
    /\ At(a, "cli")
    /\ IntFlag' = FALSE
    /\ IF depth[a] < Len(path[a]) THEN Goto(a, "tas", depth[a] + 1)
                                   ELSE Goto(a, "clear", depth[a])
    /\ UNCHANGED <<locks, running, inPit, path, word, ksleep>>

\* Fault: a return from inside the outermost lock forgets the inner one.
Clear_outermost(a) ==
    /\ At(a, "clear")
    /\ ~(a \in ksleep /\ depth[a] = 1)
    /\ mut' = IF depth[a] = 1 THEN [mut EXCEPT ![Current(a)] = None] ELSE mut
    /\ Goto(a, "sti", depth[a])
    /\ UNCHANGED <<flags, IntFlag, running, inPit, path, word, ksleep>>

\* release_spinlock clears the word ...
Clear(a) ==
    /\ At(a, "clear")
    /\ ~(a \in ksleep /\ depth[a] = 1)
    /\ mut' = [mut EXCEPT ![Current(a)] = None]
    /\ Goto(a, "sti", depth[a])
    /\ UNCHANGED <<flags, IntFlag, running, inPit, path, word, ksleep>>

Returned(a) ==
    IF depth[a] > 1 THEN Goto(a, "clear", depth[a] - 1) ELSE Goto(a, "idle", 0)

\* ... and switches interrupts on if they were on.
Sti(a) ==
    /\ At(a, "sti")
    /\ IntFlag' = (IntFlag \/ flags[Current(a)])
    /\ Returned(a)
    /\ UNCHANGED <<locks, running, inPit, path, word, ksleep>>
-----------------------------------------------------------------------------
\* The timer interrupt: this tick's wakeup_handler, if it is due.
Tick ==
    /\ IntFlag /\ ~inPit
    /\ inPit' = TRUE
    /\ IntFlag' = FALSE
    /\ \/ \E p \in WakeupPaths : Start(PIT, p)
       \/ UNCHANGED <<pc, path, depth>>
    /\ UNCHANGED <<locks, running, word, ksleep>>

\* Its end: it returns to the interrupted task or, after a preemption, to
\* another one, each interrupted with interrupts on.
Iret ==
    /\ inPit /\ pc[PIT] = "idle"
    /\ inPit' = FALSE
    /\ IntFlag' = TRUE
    /\ running' \in Task
    /\ UNCHANGED <<locks, pc, path, depth, word, ksleep>>
-----------------------------------------------------------------------------
\* acquire_lock is called.
acquire_lock(t) ==
    /\ At(t, "idle") /\ word # t /\ KsleepPaths # {}
    /\ Goto(t, "lock", 0)
    /\ UNCHANGED <<locks, IntFlag, running, inPit, path, word, ksleep>>

\* Its loop: the word is set, or KSLEEP is called.
AcquireLoop(t) ==
    /\ At(t, "lock")
    /\ \/ /\ word = None
          /\ word' = t
          /\ Goto(t, "idle", 0)
          /\ UNCHANGED <<path, ksleep>>
       \/ /\ word # None
          /\ \E p \in KsleepPaths : Start(t, p)
          /\ ksleep' = ksleep \cup {t}
          /\ UNCHANGED word
    /\ UNCHANGED <<locks, IntFlag, running, inPit>>

\* The last call of _ksleep is acquire_spinlock(&sleep_lock).
KsleepEnd(t) ==
    /\ At(t, "clear")
    /\ t \in ksleep /\ depth[t] = 1
    /\ Goto(t, "tas", 1)
    /\ UNCHANGED <<locks, IntFlag, running, inPit, path, word, ksleep>>

\* release_lock: the word is cleared and KWAKEUP called.  The address it is
\* given is that of its own parameter, so it wakes nobody.
release_lock(t) ==
    /\ At(t, "idle") /\ word = t
    /\ word' = None
    /\ \E p \in KsleepPaths : Start(t, p)
    /\ UNCHANGED <<locks, IntFlag, running, inPit, ksleep>>

TaskStep(t) ==
    \/ acquire_lock(t) \/ AcquireLoop(t) \/ KsleepEnd(t) \/ release_lock(t)

Step(a) ==
    \/ TestAndSet(a) \/ SaveFlags(a) \/ Cli(a) \/ Clear(a) \/ Sti(a)

Next ==
    \/ \E t \in Task : Call(t) \/ TaskStep(t)
    \/ \E a \in Actor : Step(a)
    \/ Tick \/ Iret

Spec == Init /\ [][Next]_vars
\* The CPU executes whatever it is at; a timer interrupt that is masked stays
\* pending and is taken once interrupts are on, and preemption gives every task
\* the CPU again and again, each time for many instructions.  Who holds a
\* lock_t releases it.
FairSpec ==
    /\ Spec
    /\ SF_vars(Tick)
    /\ \A a \in Actor : SF_vars(Step(a))
    /\ \A t \in Task : /\ SF_vars(Iret /\ running' = t)
                       /\ SF_vars(AcquireLoop(t) \/ KsleepEnd(t) \/ release_lock(t))
-----------------------------------------------------------------------------
\* Actor a is between setting lock l and clearing it.
Inside(a, l) ==
    /\ pc[a] \notin {"idle", "lock"}
    /\ \E i \in 1..depth[a] :
          /\ path[a][i] = l
          /\ i < depth[a] \/ pc[a] \in {"flags", "cli", "clear"}

\* Between acquire_spinlock and release_spinlock of a lock nobody else is.
MutualExclusion ==
    \A a, b \in Actor : a # b => \A l \in Lock : ~(Inside(a, l) /\ Inside(b, l))

\* After acquire_spinlock has returned, and until the release of the outermost
\* lock, the actor keeps the CPU with interrupts off, also while it takes and
\* releases an inner lock.
CriticalMasked ==
    \A a \in Actor :
        pc[a] \in {"clear", "sti"} \/ depth[a] > 1 =>
            ~IntFlag /\ a = IF inPit THEN PIT ELSE running

\* release_spinlock leaves the interrupt flag as acquire_spinlock found it: on
\* in a task that holds no lock, off in the interrupt handler.
InterruptsBack ==
    /\ ~inPit /\ pc[running] \in {"idle", "lock"} => IntFlag
    /\ inPit => ~IntFlag

\* How sched/sline.c nests its locks: a lock that is taken inside another one,
\* such as that of the sleep heap in smalloc and sfree, is taken by every
\* operation inside that same outermost lock, and by none as its outermost.
InnerUnderOuter ==
    \A p, q \in Paths : \A i \in 2..Len(p), j \in 1..Len(q) :
        p[i] = q[j] => j > 1 /\ q[1] = p[1]

\* An inner lock is never waited for: whoever gets to its acquire_spinlock, with
\* interrupts off by then, finds the word clear.  A spin there would never end.
InnerLockFree ==
    \A a \in Actor : pc[a] = "tas" /\ depth[a] > 1 => mut[Current(a)] = None

\* A lock that is taken is released, although its holder may be preempted
\* between setting the word and cli and others spin meanwhile.
LocksReleased == \A l \in Lock : mut[l] # None ~> mut[l] = None

\* wakeup_handler, once started, gets to remove "all elements which have
\* expired" and the interrupt ends.
WakeupFinishes == inPit ~> ~inPit

\* acquire_lock loops "until we acquire the lock".
AcquireLockReturns == \A t \in Task : pc[t] = "lock" ~> word = t
=============================================================================
