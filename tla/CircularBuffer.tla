--------------------------- MODULE CircularBuffer ---------------------------
(***************************************************************************)
(* The circular buffer of util/lists.c: bytes in an array between          *)
(* headOffset, the oldest one, and tailOffset, the newest one, both -1 in  *)
(* an empty buffer.  A write or a read that passes the end of the array is *)
(* done in two pieces.                                                     *)
(***************************************************************************)
EXTENDS Integers, Sequences

CONSTANTS
    Byte,    \* the values of a byte
    size,    \* cBuf->size
    MaxLen   \* bound: the longest push or read

ASSUME SizeAssumption == size \in Nat \ {0} /\ MaxLen \in Nat

VARIABLES
    buffer,      \* the array
    dataSize,    \* occupied bytes
    headOffset,  \* place of the oldest byte
    tailOffset,  \* place of the newest byte
    dataOut      \* the bytes the last read or pop returned

vars == <<buffer, dataSize, headOffset, tailOffset, dataOut>>

Places == 0..size - 1
Inputs == UNION {[1..n -> Byte] : n \in 0..MaxLen}

TypeOK ==
    /\ buffer \in [Places -> Byte]
    /\ dataSize \in 0..size
    /\ headOffset \in -1..size - 1
    /\ tailOffset \in -1..size - 1
    /\ \E n \in 0..size : dataOut \in [1..n -> Byte]

\* CircularBufferCreate: the memory is what kmalloc returns.
Init ==
    /\ buffer \in [Places -> Byte]
    /\ dataSize = 0 /\ headOffset = -1 /\ tailOffset = -1
    /\ dataOut = <<>>
-----------------------------------------------------------------------------
\* memcpy of s into the array at place p, and of n bytes out of it.
CopyIn(p, s) ==
    [i \in Places |-> IF i \in p..p + Len(s) - 1 THEN s[i - p + 1] ELSE buffer[i]]
CopyOut(p, n) == [i \in 1..n |-> buffer[p + i - 1]]

CircularBufferReset ==
    /\ headOffset' = -1 /\ tailOffset' = -1 /\ dataSize' = 0
    /\ UNCHANGED <<buffer, dataOut>>

\* Fault: bytes written up to the oldest one exactly do not move the head.
Overtaken_late(n) ==
    LET cover == n - (size - tailOffset - 1)
    IN IF tailOffset + n < size
         THEN tailOffset < headOffset /\ tailOffset + n > headOffset
         ELSE tailOffset < headOffset \/ cover > headOffset

\* resetHead: writing n bytes after the tail runs over the oldest byte.
Overtaken(n) ==
    LET cover == n - (size - tailOffset - 1)
    IN IF tailOffset + n < size
         THEN tailOffset < headOffset /\ tailOffset + n >= headOffset
         ELSE tailOffset < headOffset \/ cover > headOffset

\* The two branches of the copy: up to the end, and round to the beginning.
Written(s) ==
    LET remain == size - tailOffset - 1
    IN IF tailOffset + Len(s) < size
         THEN CopyIn(tailOffset + 1, s)
         ELSE [i \in Places |->
                 IF i < Len(s) - remain THEN s[remain + i + 1]
                 ELSE CopyIn(tailOffset + 1, SubSeq(s, 1, remain))[i]]

CircularBufferPush(src) ==
    /\ Len(src) > 0
    /\ LET s == SubSeq(src, IF Len(src) > size THEN Len(src) - size + 1 ELSE 1, Len(src))
           n == Len(s)
           head == IF headOffset = -1 THEN 0 ELSE headOffset
       IN /\ buffer' = Written(s)
          /\ tailOffset' = IF tailOffset + n < size THEN tailOffset + n
                           ELSE n - (size - tailOffset - 1) - 1
          /\ IF Overtaken(n)
               THEN /\ headOffset' = IF tailOffset' + 1 < size THEN tailOffset' + 1 ELSE 0
                    /\ dataSize' = size
               ELSE /\ headOffset' = head
                    /\ dataSize' = IF tailOffset' >= head
                                     THEN tailOffset' - head + 1
                                     ELSE size - (head - tailOffset' - 1)
    /\ UNCHANGED dataOut
-----------------------------------------------------------------------------
\* The head and the tail once rdLen bytes are taken.
Empty == headOffset' = -1 /\ tailOffset' = -1
MoveTo(p) == headOffset' = p /\ UNCHANGED tailOffset

Taken(rdLen) ==
    LET next == headOffset + rdLen
    IN IF headOffset <= tailOffset
         THEN IF next > tailOffset THEN Empty ELSE MoveTo(next)
         ELSE IF next <= size
                THEN MoveTo(IF next = size THEN 0 ELSE next)
                ELSE IF next - size > tailOffset THEN Empty ELSE MoveTo(next - size)

\* The bytes read: in one piece, or the end of the array and its beginning.
Fetched(rdLen) ==
    IF headOffset <= tailOffset \/ headOffset + rdLen <= size
      THEN CopyOut(headOffset, rdLen)
      ELSE LET frg1Len == size - headOffset
           IN CopyOut(headOffset, frg1Len) \o CopyOut(0, rdLen - frg1Len)

\* CircularBufferRead is resetHead = FALSE, CircularBufferPop is TRUE.  An
\* empty buffer or length 0 returns 0 bytes and changes nothing.
inter_circularBuffer_read(length, resetHead) ==
    LET rdLen == IF dataSize < length THEN dataSize ELSE length
    IN IF rdLen = 0
         THEN dataOut' = <<>> /\ UNCHANGED <<buffer, dataSize, headOffset, tailOffset>>
         ELSE /\ dataOut' = Fetched(rdLen)
              /\ IF resetHead
                   THEN Taken(rdLen) /\ dataSize' = dataSize - rdLen
                   ELSE UNCHANGED <<headOffset, tailOffset, dataSize>>
              /\ UNCHANGED buffer

CircularBufferRead(length) == inter_circularBuffer_read(length, FALSE)
CircularBufferPop(length) == inter_circularBuffer_read(length, TRUE)

Next ==
    \/ CircularBufferReset
    \/ \E s \in Inputs : CircularBufferPush(s)
    \/ \E n \in 0..MaxLen : CircularBufferRead(n) \/ CircularBufferPop(n)

Spec == Init /\ [][Next]_vars
-----------------------------------------------------------------------------
\* Place p of the array continued round its end.
Wrap(p) == IF p < size THEN p ELSE p - size

\* The two offsets and dataSize, kept separately by push and pop, always
\* describe the same stretch of the array.
OffsetsAgree ==
    IF dataSize = 0
      THEN headOffset = -1 /\ tailOffset = -1
      ELSE /\ headOffset # -1 /\ tailOffset # -1
           /\ tailOffset = Wrap(headOffset + dataSize - 1)

\* Refinement: the stretch of the array, read round its end, is the queue.
Contents == [i \in 1..dataSize |-> buffer[Wrap(headOffset + i - 1)]]
Queue == INSTANCE BoundedQueue
           WITH Cap <- size, queue <- Contents, out <- dataOut

\* Every operation does what the abstract queue does: push keeps the newest
\* bytes in order, pop and read return the oldest ones.
Implements == Queue!QSpec
=============================================================================
