----------------------------- MODULE PageFrames -----------------------------
(***************************************************************************)
(* The page frame allocator of memory/memory.c: one bit per page of the    *)
(* biggest available chunk and a rotating cursor per request function.     *)
(* request_page and free_page take no lock, and tasks call them with       *)
(* interrupts enabled: a step is one access to the bitmap or to the static *)
(* cursor, and once the scheduler has started another task may run between *)
(* any two of them.  The bits of a byte are read and stored together.  The *)
(* statistics that nothing reads (free_memory, locked_memory,              *)
(* reserved_memory) are left out.                                          *)
(* The names of this module and of Heap differ, so that one module can     *)
(* extend both allocators.                                                 *)
(***************************************************************************)
EXTENDS Integers, FiniteSets

CONSTANTS
    Client,     \* the tasks that ask for pages
    Pages,      \* memory->total_available_pages
    UsedSpace,  \* pages init_memory reserves for its own structures
    RunLengths, \* arguments of request_contiguous_pages
    MaxRuns     \* bound: runs outstanding at a time

ASSUME PageAssumption == /\ Pages \in Nat \ {0}
                         /\ UsedSpace \in 1..Pages
                         /\ RunLengths \subseteq Nat \ {0}
                         /\ IsFiniteSet(Client)

VARIABLES
    bitfield,        \* the pages whose bit is set
    last_requested,  \* the static cursor of request_page
    last_run,        \* the static cursor of request_contiguous_pages
    pc,              \* where each task is in request_page or free_page
    first,           \* local: the page before the cursor when the search began
    page,            \* local: the cursor's copy in a register, if the build keeps
                     \* one, and the page lock_page or unlock_page is called for
    byte,            \* local: the set bits of the byte that was read for it
    owned,           \* pages request_page returned and free_page has not freed
    runs,            \* what request_contiguous_pages returned
    booting,         \* the scheduler has not started
    cached,          \* the build keeps the cursor in a register for a whole call
    panicked,        \* the message of the panic that stopped the kernel
    disturbed,       \* history: another task ran since this one's call began
    torn             \* history: another task ran while one was in the Window

locals == <<first, page, byte>>
shared == <<bitfield, last_requested, owned>>
frames == <<shared, last_run, pc, locals, runs, booting, cached, panicked, disturbed, torn>>

\* The places of request_page from :127 on, and of free_page, where what was read
\* of the bitmap or the cursor is about to be relied on.
Window == {"lock", "set", "verify", "reserved", "return", "unlock", "clear"}
Place == {"idle", "test", "wrap", "compare", "advance", "found", "freed", "panicked"}
         \cup Window

Message == {"none", "No free pages available!", "Page already locked!",
            "Page already reserved!", "address out of bounds", "bit not set",
            "Page not reserved!", "Page below active range!", "Page was not locked!",
            "Page not freed!"}

FramesTypeOK ==
    /\ bitfield \subseteq Nat
    /\ last_requested \in Nat
    /\ last_run \in 0..(Pages + 1)
    /\ pc \in [Client -> Place]
    /\ first \in [Client -> Int]
    /\ page \in [Client -> Nat]
    /\ byte \in [Client -> SUBSET Nat]
    /\ owned \in [Client -> SUBSET Nat]
    /\ \A r \in runs : r.start \in Int /\ r.pages \subseteq 0..Pages
    /\ booting \in BOOLEAN
    /\ cached \in BOOLEAN
    /\ panicked \in Message
    /\ disturbed \in [Client -> BOOLEAN]
    /\ torn \in BOOLEAN

Byte(p) == 8 * (p \div 8) .. 8 * (p \div 8) + 7

\* memset clears the bytes of the bitfield; the bits past the last page belong to
\* it only if the number of pages does not fill its last byte.  As many of them
\* are read as there are tasks to push the cursor past the end.
FramesInit ==
    /\ \E stray \in SUBSET (Pages..(Pages + 1 + Cardinality(Client)) \ Byte(Pages - 1)) :
          bitfield = 0..(UsedSpace - 1) \cup stray
    /\ last_requested = 0
    /\ last_run = 0
    /\ pc = [c \in Client |-> "idle"]
    /\ first = [c \in Client |-> 0]
    /\ page = [c \in Client |-> 0]
    /\ byte = [c \in Client |-> {}]
    /\ owned = [c \in Client |-> {}]
    /\ runs = {}
    /\ booting = TRUE
    /\ cached \in BOOLEAN
    /\ panicked = "none"
    /\ disturbed = [c \in Client |-> FALSE]
    /\ torn = FALSE
-----------------------------------------------------------------------------
AllIdle == \A c \in Client : pc[c] = "idle"

\* The end of boot: go() starts the scheduler.  Until then one flow of control,
\* here one task at a time, makes the calls.
boot ==
    /\ panicked = "none" /\ booting /\ AllIdle
    /\ booting' = FALSE
    /\ UNCHANGED <<shared, last_run, pc, locals, runs, cached, panicked, disturbed, torn>>

\* Task c goes on from here, while the others stay where they are.
At(c, place) ==
    /\ panicked = "none"
    /\ pc[c] = place
    /\ booting => \A d \in Client \ {c} : pc[d] = "idle"
    /\ disturbed' = [d \in Client |-> pc[d] # "idle" /\ (d = c => disturbed[c])]
    /\ torn' = (torn \/ \E d \in Client \ {c} : pc[d] \in Window)
    /\ UNCHANGED <<last_run, runs, booting, cached>>

Goto(c, place) == pc' = [pc EXCEPT ![c] = place] /\ UNCHANGED panicked

panic(c, message) ==
    /\ panicked' = message
    /\ pc' = [pc EXCEPT ![c] = "panicked"]

\* The cursor as the task sees it.  Nothing else refers to the static variable,
\* so a build may read it from memory every time, or once at the start of the
\* call; the compiler of the Makefile does the latter at -O3.
Cursor(c) == IF cached THEN page[c] ELSE last_requested

SetCursor(c, p) ==
    IF cached THEN page' = [page EXCEPT ![c] = p] /\ UNCHANGED last_requested
              ELSE last_requested' = p /\ UNCHANGED page

\* Fault: the page the search begins with, not the one before it.
request_page_here(c) ==
    /\ At(c, "idle") /\ Goto(c, "test")
    /\ first' = [first EXCEPT ![c] = last_requested]
    /\ page' = IF cached THEN [page EXCEPT ![c] = last_requested] ELSE page
    /\ UNCHANGED <<shared, byte>>

\* From cursor 0 this is 2^64 - 1, which the cursor never reaches: here -1.
request_page(c) ==
    /\ At(c, "idle") /\ Goto(c, "test")
    /\ first' = [first EXCEPT ![c] = last_requested - 1]
    /\ page' = IF cached THEN [page EXCEPT ![c] = last_requested] ELSE page
    /\ UNCHANGED <<shared, byte>>

\* The search: the loop's test, the wrap, the comparison and the increment.
SearchTest(c) ==
    /\ At(c, "test")
    /\ IF Cursor(c) \in bitfield THEN Goto(c, "wrap") ELSE Goto(c, "found")
    /\ UNCHANGED <<shared, locals>>

SearchWrap(c) ==
    /\ At(c, "wrap") /\ Goto(c, "compare")
    /\ SetCursor(c, IF Cursor(c) >= Pages THEN 0 ELSE Cursor(c))
    /\ UNCHANGED <<bitfield, owned, first, byte>>

SearchCompare(c) ==
    /\ At(c, "compare")
    /\ IF Cursor(c) = first[c] THEN panic(c, "No free pages available!")
                               ELSE Goto(c, "advance")
    /\ UNCHANGED <<shared, locals>>

SearchAdvance(c) ==
    /\ At(c, "advance") /\ Goto(c, "test")
    /\ SetCursor(c, Cursor(c) + 1)
    /\ UNCHANGED <<bitfield, owned, first, byte>>

\* The argument of lock_page is the cursor: its copy, which is written back if
\* the search moved it, or the cursor itself, wherever other tasks have moved it.
CallLock(c) ==
    /\ At(c, "found") /\ Goto(c, "lock")
    /\ page' = [page EXCEPT ![c] = Cursor(c)]
    /\ last_requested' = IF Cursor(c) = first[c] + 1 THEN last_requested ELSE Cursor(c)
    /\ first' = [first EXCEPT ![c] = 0]
    /\ UNCHANGED <<bitfield, owned, byte>>

Read(c) == byte' = [byte EXCEPT ![c] = bitfield \cap Byte(page[c])]

\* Fault: the bit is not looked at again.
lock_page_unchecked(c) ==
    /\ At(c, "lock") /\ Goto(c, "set") /\ Read(c)
    /\ UNCHANGED <<shared, first, page>>

lock_page(c) ==
    /\ At(c, "lock")
    /\ IF page[c] <= Pages /\ page[c] \notin bitfield
       THEN Goto(c, "set") /\ Read(c)
       ELSE /\ panic(c, IF page[c] > Pages THEN "address out of bounds"
                                          ELSE "Page already locked!")
            /\ UNCHANGED byte
    /\ UNCHANGED <<shared, first, page>>

\* The byte is used as it was read for an earlier check, or read once more: the
\* compiler may do either.
Reread(c) == {byte[c], bitfield \cap Byte(page[c])}

set_page_bit(c) ==
    /\ At(c, "set") /\ Goto(c, "verify")
    /\ \E others \in Reread(c) :
          bitfield' = (bitfield \ Byte(page[c])) \cup others \cup {page[c]}
    /\ byte' = [byte EXCEPT ![c] = {}]
    /\ UNCHANGED <<last_requested, owned, first, page>>

VerifySet(c) ==
    /\ At(c, "verify")
    /\ IF page[c] \in bitfield THEN Goto(c, "reserved") ELSE panic(c, "bit not set")
    /\ UNCHANGED <<shared, locals>>

\* Back in request_page, which looks at the cursor again, and again to return.
VerifyReserved(c) ==
    /\ At(c, "reserved")
    /\ IF Cursor(c) \in bitfield THEN Goto(c, "return") ELSE panic(c, "Page not reserved!")
    /\ UNCHANGED <<shared, locals>>

Return(c) ==
    /\ At(c, "return") /\ Goto(c, "idle")
    /\ owned' = [owned EXCEPT ![c] = @ \cup {Cursor(c)}]
    /\ page' = [page EXCEPT ![c] = 0]
    /\ UNCHANGED <<bitfield, last_requested, first, byte>>
-----------------------------------------------------------------------------
free_page(c) ==
    /\ At(c, "idle")
    /\ \E p \in owned[c] :
          /\ IF p \in bitfield THEN Goto(c, "unlock") ELSE panic(c, "Page was not locked!")
          /\ page' = [page EXCEPT ![c] = p]
          /\ byte' = [byte EXCEPT ![c] = bitfield \cap Byte(p)]
    /\ UNCHANGED <<shared, first>>

unlock_page(c) ==
    /\ At(c, "unlock")
    /\ \E seen \in Reread(c) :
          /\ IF page[c] <= Pages /\ page[c] \in seen
             THEN Goto(c, "clear")
             ELSE panic(c, IF page[c] > Pages THEN "address out of bounds"
                                              ELSE "Page was not locked!")
          /\ byte' = [byte EXCEPT ![c] = seen]
    /\ UNCHANGED <<shared, first, page>>

clear_page_bit(c) ==
    /\ At(c, "clear") /\ Goto(c, "freed")
    /\ \E others \in Reread(c) :
          bitfield' = (bitfield \ Byte(page[c])) \cup (others \ {page[c]})
    /\ owned' = [owned EXCEPT ![c] = @ \ {page[c]}]
    /\ byte' = [byte EXCEPT ![c] = {}]
    /\ UNCHANGED <<last_requested, first, page>>

\* By now another task may have locked the page.
VerifyFreed(c) ==
    /\ At(c, "freed")
    /\ IF page[c] \in bitfield THEN panic(c, "Page not freed!") ELSE Goto(c, "idle")
    /\ page' = [page EXCEPT ![c] = 0]
    /\ UNCHANGED <<shared, first, byte>>
-----------------------------------------------------------------------------
(* Runs of pages.  Only drivers ask for them, from init_devices during boot. *)

StopRun(message) == panicked' = message /\ UNCHANGED <<bitfield, last_run, runs>>

\* The bits the search loop finds set before it stops at p: upwards from the
\* cursor, and after the last page again from page 1.
Skipped(from, p) ==
    IF p >= from THEN from..(p - 1)
    ELSE from..(IF from > Pages THEN from ELSE Pages) \cup 1..(p - 1)

Search(from, p) ==
    /\ p \in (1..Pages) \cup {from}
    /\ p \notin bitfield
    /\ Skipped(from, p) \subseteq bitfield

\* The loop is back at the page before the cursor.  (From cursor 0, and from the
\* one past the last page, that page is never met, and the loop never ends.)
Exhausted(from) == from \in 1..Pages /\ 1..Pages \subseteq bitfield

\* Locks num pages from the first clear bit on; a page of them that is taken
\* is fatal.  The address returned is computed from the cursor before the
\* search, less one.
request_contiguous_pages(num) ==
    /\ panicked = "none" /\ booting /\ AllIdle
    /\ Cardinality(runs) < MaxRuns
    /\ \/ \E p \in 0..(Pages + 1) :
            /\ Search(last_run, p)
            /\ LET run == p..(p + num - 1)
               IN  \/ /\ run \subseteq 0..Pages
                      /\ run \cap bitfield = {}
                      /\ bitfield' = bitfield \cup run
                      /\ last_run' = p + num
                      /\ runs' = runs \cup
                           {[start |-> last_run - 1, pages |-> run]}
                      /\ UNCHANGED panicked
                   \/ run \cap bitfield # {} /\ StopRun("Page already reserved!")
                   \/ /\ ~(run \subseteq 0..Pages)
                      /\ run \cap bitfield = {}
                      /\ StopRun("address out of bounds")
       \/ Exhausted(last_run) /\ StopRun("No free pages available!")
    /\ UNCHANGED <<last_requested, pc, locals, owned, booting, cached, disturbed, torn>>

\* Nothing in the kernel gives a run back yet.
free_contiguous_pages(r) ==
    /\ panicked = "none" /\ booting /\ AllIdle
    /\ LET run == r.start..(r.start + Cardinality(r.pages) - 1)
       IN  \/ r.start < 0 /\ StopRun("Page below active range!")
           \/ r.start >= 0 /\ ~(run \subseteq bitfield) /\ StopRun("Page was not locked!")
           \/ /\ r.start >= 0
              /\ run \subseteq bitfield
              /\ bitfield' = bitfield \ run
              /\ runs' = runs \ {r}
              /\ UNCHANGED <<last_run, panicked>>
    /\ UNCHANGED <<last_requested, pc, locals, owned, booting, cached, disturbed, torn>>
-----------------------------------------------------------------------------
Request(c) ==
    \/ request_page(c) \/ SearchTest(c) \/ SearchWrap(c) \/ SearchCompare(c)
    \/ SearchAdvance(c) \/ CallLock(c) \/ lock_page(c) \/ set_page_bit(c)
    \/ VerifySet(c) \/ VerifyReserved(c) \/ Return(c)

Free(c) == free_page(c) \/ unlock_page(c) \/ clear_page_bit(c) \/ VerifyFreed(c)

FramesNext ==
    \/ \E c \in Client : Request(c) \/ Free(c)
    \/ \E num \in RunLengths : request_contiguous_pages(num)
    \/ boot

FramesSpec == FramesInit /\ [][FramesNext]_frames

\* With a caller that gives back the runs it was handed.
RunSpec == FramesInit /\ [][FramesNext \/ \E r \in runs : free_contiguous_pages(r)]_frames
-----------------------------------------------------------------------------
FrameBlock ==
    {{p} : p \in UsedSpace..Pages} \cup
    {b \in {p..(p + n - 1) : p \in 0..Pages, n \in RunLengths} : b \subseteq UsedSpace..Pages}

PagesOf(c) == {[holder |-> c, units |-> {p}] : p \in owned[c]}

PagesOut == UNION {PagesOf(c) : c \in Client}

RunsOut == {[holder |-> "run", units |-> r.pages] : r \in runs}

\* What tasks hold of request_page and what was locked for a run.
FrameOut == PagesOut \cup RunsOut

FrameAllocator == INSTANCE Allocator WITH
    Holder <- Client \cup {"run"}, Block <- FrameBlock, out <- FrameOut

\* To its callers the page frame allocator is an allocator: it hands out one
\* page, or one run of pages, that nobody holds and that its own structures do
\* not occupy, and takes back exactly the page that its holder frees.  This holds
\* for as long as no other task runs while one is in the Window, from the
\* argument of lock_page to the return of request_page or between the first
\* check and the store of free_page.  Anywhere else, all through the search, a
\* task may be preempted: that the search found a clear bit counts for nothing
\* then, and it is the check in lock_page, marked "Deleteme", that keeps pages
\* apart.
FramesImplement ==
    FrameAllocator!AInit /\ [][torn' \/ FrameAllocator!ANext]_FrameOut

\* request_page reports that memory is exhausted only when every page is in
\* use, if no other task ran since the call began: the cursor has then been all
\* the way round, wherever it started.
NoFalseExhaustion ==
    panicked = "No free pages available!" =>
        \/ 1..Pages \subseteq bitfield
        \/ \E c \in Client : pc[c] = "panicked" /\ disturbed[c]

\* The same facts as a state predicate: a page that was handed out stays locked
\* until its holder frees it, no two tasks hold one page, and the allocator's own
\* structures and the pages locked for runs are never handed out.
PagesExclusive ==
    torn \/
        /\ 0..(UsedSpace - 1) \subseteq bitfield
        /\ \A c \in Client :
              /\ owned[c] \subseteq bitfield
              /\ owned[c] \cap 0..(UsedSpace - 1) = {}
              /\ \A d \in Client \ {c} : owned[c] \cap owned[d] = {}
              /\ \A r \in runs : owned[c] \cap r.pages = {}

\* lock_page's own check fails only for a task that was preempted.
LocksWhatItFound ==
    panicked = "Page already locked!" => \E c \in Client : pc[c] = "panicked" /\ disturbed[c]
-----------------------------------------------------------------------------
\* The remaining properties do not hold of the code.

\* No page has two holders, wherever tasks are preempted.
NeverShared == \A c, d \in Client : c # d => owned[c] \cap owned[d] = {}

\* The allocator's own structures are not handed out, wherever tasks are preempted.
\* (A build that keeps the cursor in a register does keep them.)
StructuresKept == \A c \in Client : owned[c] \cap 0..(UsedSpace - 1) = {}

\* Exhaustion is reported only when every page is in use, wherever tasks are
\* preempted.
AlwaysRealExhaustion == panicked = "No free pages available!" => 1..Pages \subseteq bitfield

\* lock_page's own check never fails.
NotAlreadyLocked == panicked # "Page already locked!"

\* Only pages of the chunk are handed out.
HandedOutInRange == torn \/ \A c \in Client : owned[c] \subseteq 0..(Pages - 1)

\* A run that request_contiguous_pages returned can be given back.
RunsCanBeFreed ==
    panicked \notin {"Page below active range!", "Page was not locked!"}
=============================================================================
