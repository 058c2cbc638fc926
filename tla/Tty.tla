-------------------------------- MODULE Tty --------------------------------
(***************************************************************************)
(* The input side of a terminal: drivers/tty/tty.c and its line            *)
(* discipline.  Characters arrive in the interrupt handler of the serial   *)
(* port, which runs with interrupts masked and is one step; the line       *)
(* discipline collects and edits a line in a ring of its own and on a      *)
(* carriage return hands it to the terminal's input ring.  A task takes    *)
(* characters out of that ring, without a lock: the steps of tty_read_inb  *)
(* are the accesses of the compiled code to the shared indexes.            *)
(*                                                                         *)
(* Control characters that only print something are left out.  The model   *)
(* stops, without a claim, when the line discipline leaves its buffer      *)
(* (stray): an erase takes the tail of a wrapped line below 0, or a flush  *)
(* reads past the end.                                                     *)
(***************************************************************************)
EXTENDS Integers, Sequences

CONSTANTS
    Char,      \* printable characters
    CR,        \* carriage return, ends a line
    DEL,       \* delete or backspace
    LdSize,    \* ld->size, 1024 in tty_init
    InbSize,   \* tty->inb_size
    MaxTyped   \* bound: characters that arrive

ASSUME SizeAssumption == LdSize \in Nat \ {0} /\ InbSize \in Nat \ {0} /\ MaxTyped \in Nat
ASSUME CharAssumption == CR \notin Char /\ DEL \notin Char /\ CR # DEL

Key == Char \cup {CR, DEL}

VARIABLES
    mode,       \* ld->mode
    ldbuf,      \* ld->buffer
    head, tail, \* ld->head, ld->tail
    stray,      \* the line discipline has left ldbuf
    inb,        \* the input ring
    inb_read, inb_write,
    pc,         \* the task inside tty_read_inb
    reg,        \* its register
    line,       \* history: the line being typed, edits applied
    stream,     \* history: what was handed to the input ring
    got,        \* history: what the task has read
    overrun,    \* history: the input ring was asked to hold more than it can
    typed       \* characters arrived

ld == <<mode, ldbuf, head, tail, stray, line>>
ring == <<inb, inb_write>>
vars == <<ld, ring, inb_read, pc, reg, stream, got, overrun, typed>>

Steps == {"idle", "index", "test", "load", "again", "store", "wrap"}

TypeOK ==
    /\ mode \in {"raw", "canonical"}
    /\ ldbuf \in [0..LdSize - 1 -> Char \cup {0}]
    /\ head \in 0..LdSize - 1 /\ tail \in -1..LdSize - 1
    /\ stray \in BOOLEAN /\ (tail = -1 => stray)
    /\ inb \in [0..InbSize - 1 -> Key \cup {0}]
    /\ inb_write \in 0..InbSize - 1
    /\ inb_read \in 0..InbSize
    /\ pc \in Steps
    /\ reg \in 0..InbSize
    /\ pc \in {"test", "load"} => reg < InbSize
    /\ line \in Seq(Char) /\ stream \in Seq(Key) /\ got \in Seq(Key \cup {0})
    /\ overrun \in BOOLEAN /\ typed \in 0..MaxTyped

\* tty_init and line_discipline_create
Init ==
    /\ mode = "canonical"
    /\ ldbuf = [i \in 0..LdSize - 1 |-> 0]
    /\ head = 0 /\ tail = 0 /\ stray = FALSE
    /\ inb = [i \in 0..InbSize - 1 |-> 0]
    /\ inb_read = 0 /\ inb_write = 0
    /\ pc = "idle" /\ reg = 0
    /\ line = <<>> /\ stream = <<>> /\ got = <<>>
    /\ overrun = FALSE /\ typed = 0
-----------------------------------------------------------------------------
Inc(i, size) == IF i + 1 >= size THEN 0 ELSE i + 1

\* Fault: the ring counts as full one character early.
tty_write_inb_early(r, c) ==
    LET w == Inc(r.write, InbSize)
    IN [buf |-> [r.buf EXCEPT ![r.write] = c],
        write |-> w,
        read |-> IF Inc(w, InbSize) = r.read THEN Inc(r.read, InbSize) ELSE r.read]

\* Fault: the index moves on before the character is stored.
tty_write_inb_swapped(r, c) ==
    LET w == Inc(r.write, InbSize)
    IN [buf |-> [r.buf EXCEPT ![w] = c],
        write |-> w,
        read |-> IF w = r.read THEN Inc(r.read, InbSize) ELSE r.read]


\* One character into the ring; a full ring loses its oldest.
tty_write_inb(r, c) ==
    LET w == Inc(r.write, InbSize)
    IN [buf |-> [r.buf EXCEPT ![r.write] = c],
        write |-> w,
        read |-> IF w = r.read THEN Inc(r.read, InbSize) ELSE r.read]

\* The ring r after each round of flush_cb's loop over the characters s.
Rounds(r, s) ==
    LET w[i \in 0..Len(s)] == IF i = 0 THEN r ELSE tty_write_inb(w[i - 1], s[i])
    IN w

\* flush_cb: the characters s go into the ring, the subscribers are called.
flush_cb(s) ==
    LET r == Rounds([buf |-> inb, write |-> inb_write, read |-> inb_read], s)[Len(s)]
    IN inb' = r.buf /\ inb_write' = r.write /\ inb_read' = r.read

\* Characters in the line buffer.
Count == (tail - head + LdSize) % LdSize

line_discipline_insert(c) ==
    /\ ldbuf' = [ldbuf EXCEPT ![tail] = c]
    /\ tail' = (tail + 1) % LdSize
    /\ head' = IF tail' = head THEN (head + 1) % LdSize ELSE head
    /\ line' = LET l == Append(line, c)
               IN IF Len(l) = LdSize THEN Tail(l) ELSE l
    /\ UNCHANGED <<mode, stray>>

\* Fault: erasing does not stop at the start of the line.
line_discipline_delete_last_unguarded ==
    /\ tail' = tail - 1
    /\ stray' = (tail' < 0)
    /\ line' = IF line = <<>> THEN line ELSE SubSeq(line, 1, Len(line) - 1)
    /\ UNCHANGED <<mode, ldbuf, head>>

\* C's remainder keeps the sign: (0 - 1) % size is -1.
line_discipline_delete_last ==
    /\ tail' = IF tail = head THEN tail ELSE tail - 1
    /\ stray' = (tail' < 0)
    /\ line' = IF line = <<>> THEN line ELSE SubSeq(line, 1, Len(line) - 1)
    /\ UNCHANGED <<mode, ldbuf, head>>

\* The line from buffer[head] on, which does not turn round at the end.
line_discipline_force_flush ==
    LET past == Count > 0 /\ head + Count > LdSize
    IN /\ stray' = past
       /\ IF past THEN UNCHANGED <<inb, inb_write, inb_read>>
          ELSE flush_cb([i \in 1..Count |-> ldbuf[head + i - 1]])
       /\ head' = tail
       /\ stream' = stream \o line /\ line' = <<>>
       /\ UNCHANGED <<mode, ldbuf, tail>>

\* The cell the reader has copied and not yet given back.
Held == IF pc \in {"again", "store"} THEN 1 ELSE 0

\* COM1_HANDLER, write_inb, tty_read_cb, line_discipline_read: character c
\* arrives.
Receive(c) ==
    /\ typed < MaxTyped /\ typed' = typed + 1
    /\ ~stray
    /\ IF mode = "raw"
         THEN flush_cb(<<c>>) /\ stream' = Append(stream, c) /\ UNCHANGED ld
         ELSE \/ /\ c \in Char /\ line_discipline_insert(c)
                 /\ UNCHANGED <<ring, inb_read, stream>>
              \/ /\ c = DEL /\ line_discipline_delete_last
                 /\ UNCHANGED <<ring, inb_read, stream>>
              \/ c = CR /\ line_discipline_force_flush
    /\ overrun' = (overrun \/ Len(stream') - Len(got) + Held > InbSize - 1)
    /\ UNCHANGED <<pc, reg, got>>

\* _tty_modes: a task switches between raw and canonical.
_tty_modes(m) ==
    /\ pc = "idle" /\ ~stray /\ mode # m
    /\ mode' = m
    /\ UNCHANGED <<ldbuf, head, tail, stray, line, ring, inb_read, pc, reg, stream, got, overrun, typed>>
-----------------------------------------------------------------------------
\* tty_read_inb in a task.
At(p, q) == ~stray /\ pc = p /\ pc' = q /\ UNCHANGED <<ld, ring, stream, overrun, typed>>

Call == At("idle", "index") /\ UNCHANGED <<inb_read, reg, got>>

ReadIndex == At("index", "test") /\ reg' = inb_read /\ UNCHANGED <<inb_read, got>>

\* inb_read == inb_write: nothing to read.
Test ==
    \/ reg = inb_write /\ At("test", "idle") /\ UNCHANGED <<inb_read, reg, got>>
    \/ reg # inb_write /\ At("test", "load") /\ UNCHANGED <<inb_read, reg, got>>

Load ==
    /\ At("load", "again")
    /\ got' = Append(got, inb[reg])
    /\ UNCHANGED <<inb_read, reg>>

\* inb_read++ loads the index again, as *c may be the index.
Again == At("again", "store") /\ reg' = inb_read /\ UNCHANGED <<inb_read, got>>

\* Fault: the index is not reset at the end of the ring.
Store_nowrap ==
    /\ pc = "store" /\ ~stray
    /\ inb_read' = (reg + 1) % (InbSize + 1) /\ reg' = reg
    /\ pc' = "idle"
    /\ UNCHANGED <<ld, ring, stream, got, overrun, typed>>

Store ==
    /\ inb_read' = reg + 1 /\ reg' = reg + 1
    /\ At("store", IF reg' >= InbSize THEN "wrap" ELSE "idle")
    /\ UNCHANGED got

Wrap ==
    /\ At("wrap", "idle")
    /\ inb_read' = 0
    /\ UNCHANGED <<reg, got>>

Next ==
    \/ \E c \in Key : Receive(c)
    \/ \E m \in {"raw", "canonical"} : _tty_modes(m)
    \/ Call \/ ReadIndex \/ Test \/ Load \/ Again \/ Store \/ Wrap

Spec == Init /\ [][Next]_vars
-----------------------------------------------------------------------------
\* The line discipline's ring holds the line as typed and edited, also when it
\* lies across the end of the buffer, until the first access outside it.
LineKept ==
    ~stray => /\ Count = Len(line)
              /\ \A i \in 1..Count : ldbuf[(head + i - 1) % LdSize] = line[i]

\* What the task reads is what was typed, in order, nothing lost and nothing
\* twice, wherever the interrupt falls between two accesses of the reader, as
\* long as the ring never had to hold more than it can.
ReadsWhatWasTyped ==
    ~overrun /\ ~stray => Len(got) <= Len(stream) /\ got = SubSeq(stream, 1, Len(got))

\* Outside a call of tty_read_inb, and as long as the ring was not overrun, the
\* distance of its indexes is the number of characters handed over and not yet
\* read: a reader that finds the ring empty has read everything.
NothingLeftBehind ==
    ~overrun /\ ~stray /\ pc \in {"idle", "index"} =>
        (inb_write - inb_read + InbSize) % InbSize = Len(stream) - Len(got)

=============================================================================
