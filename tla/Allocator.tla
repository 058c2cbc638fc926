------------------------------ MODULE Allocator ------------------------------
(***************************************************************************)
(* What the kernel's allocators, kmalloc and kfree of memory/heap.c and    *)
(* request_page, request_contiguous_pages and free_page of                 *)
(* memory/memory.c, promise their callers: units of memory (bytes, pages)  *)
(* are handed out in blocks, to one holder at a time, until that holder    *)
(* gives the block back.                                                   *)
(***************************************************************************)
CONSTANTS
    Holder,  \* who is handed memory
    Block    \* the sets of units that can be handed out together

VARIABLE
    out      \* the blocks handed out, each with its holder

AInit == out = {}

Handed(o, b) == [holder |-> o, units |-> b]

\* Only memory that nobody holds is handed out.
Allot(o, b) ==
    /\ \A g \in out : g.units \cap b = {}
    /\ out' = out \cup {Handed(o, b)}

\* One block is given back, the others stay with their holders.
GiveBack(g) == out' = out \ {g}

ANext ==
    \/ \E o \in Holder, b \in Block : Allot(o, b)
    \/ \E g \in out : GiveBack(g)

ASpec == AInit /\ [][ANext]_out
=============================================================================
