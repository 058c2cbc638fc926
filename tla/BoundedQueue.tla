---------------------------- MODULE BoundedQueue ----------------------------
(***************************************************************************)
(* What the circular buffer of util/lists.c promises: a queue of bytes     *)
(* with a capacity, whose oldest bytes make room for new ones.             *)
(***************************************************************************)
EXTENDS Integers, Sequences

CONSTANTS
    Byte,    \* the values of a byte
    Cap,     \* how many bytes are kept
    MaxLen   \* bound: the longest push or read

VARIABLES
    queue,   \* the bytes kept, oldest first
    out      \* what the last read returned

Inputs == UNION {[1..n -> Byte] : n \in 0..MaxLen}

\* The newest n bytes of s, all of them if there are fewer.
Newest(s, n) == SubSeq(s, IF Len(s) > n THEN Len(s) - n + 1 ELSE 1, Len(s))

Oldest(s, n) == SubSeq(s, 1, IF Len(s) < n THEN Len(s) ELSE n)

QInit == queue = <<>> /\ out = <<>>

QReset == queue' = <<>> /\ UNCHANGED out

QPush(s) == queue' = Newest(queue \o s, Cap) /\ UNCHANGED out

QRead(n) == out' = Oldest(queue, n) /\ UNCHANGED queue

QPop(n) ==
    /\ out' = Oldest(queue, n)
    /\ queue' = SubSeq(queue, Len(out') + 1, Len(queue))

QNext ==
    \/ QReset
    \/ \E s \in Inputs : QPush(s)
    \/ \E n \in 0..MaxLen : QRead(n) \/ QPop(n)

QSpec == QInit /\ [][QNext]_<<queue, out>>
=============================================================================
