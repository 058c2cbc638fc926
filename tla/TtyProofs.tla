----------------------------- MODULE TtyProofs -----------------------------
(***************************************************************************)
(* Proofs about the input side of a terminal, for every size of the two    *)
(* rings and every number of characters.                                   *)
(***************************************************************************)
EXTENDS Tty, WellFoundedInduction, TLAPS

\* The index of the oldest character of the ring; "wrap" is about to reset it.
Base == IF inb_read = InbSize THEN 0 ELSE inb_read

\* How far w is ahead of b, and the cell x places from the start.
Dist(w, b) == IF w >= b THEN w - b ELSE w - b + InbSize
Cell(x) == IF x < InbSize THEN x ELSE x - InbSize

\* Buffer buf holds the characters of the stream s after the first k, from b on.
Holds(buf, w, b, s, k) ==
    /\ Dist(w, b) = Len(s) - k
    /\ \A i \in 1..Len(s) - k : buf[Cell(b + i - 1)] = s[k + i]

\* The index leaves the ring only between the two stores of the reader.
Indexes ==
    /\ pc = "wrap" <=> inb_read = InbSize
    /\ pc \in {"test", "load", "again", "store"} => reg < InbSize

\* What the reader has done matches the stream: it has read a prefix, and the
\* ring holds what follows, and the character being taken.
Intact ==
    ~overrun /\ ~stray =>
        /\ Held <= Len(got) /\ Len(got) <= Len(stream)
        /\ \A i \in 1..Len(got) : got[i] = stream[i]
        /\ Len(stream) - (Len(got) - Held) < InbSize
        /\ Holds(inb, inb_write, Base, stream, Len(got) - Held)
        /\ pc \in {"test", "load", "store"} => reg = inb_read
        /\ pc = "load" => Len(got) < Len(stream)

IInv == TypeOK /\ Indexes /\ LineKept /\ Intact
-----------------------------------------------------------------------------
(* Induction over the rounds of flush_cb's loop. *)

Below == {ss \in Nat \X Nat : ss[1] < ss[2]}

LEMMA Least ==
    ASSUME NEW T \in SUBSET Nat, T # {} PROVE \E m \in T : \A k \in T : m <= k
<1>1. IsWellFoundedOn(Below, Nat)
    BY NatLessThanWellFounded DEF OpToRel, Below
<1>2. PICK m \in T : \A k \in T : ~(<<k, m>> \in Below)
    BY ZenonT(30), <1>1, WFMin
<1>3. ASSUME NEW k \in T PROVE m <= k
  <2>1. k \in Nat /\ m \in Nat
    OBVIOUS
  <2>2. ~(<<k, m>> \in Below)
    BY <1>2
  <2>3. <<k, m>> \in Nat \X Nat /\ <<k, m>>[1] = k /\ <<k, m>>[2] = m
    BY <2>1
  <2>4. ~(<<k, m>>[1] < <<k, m>>[2])
    BY ONLY <2>2, <2>3 DEF Below
  <2> QED
    BY ONLY <2>1, <2>3, <2>4
<1> QED
    BY <1>3

LEMMA Induction ==
    ASSUME NEW S \in SUBSET Nat, 0 \in S, \A n \in S : n + 1 \in S PROVE S = Nat
<1> SUFFICES ASSUME Nat \ S # {} PROVE FALSE
    BY ZenonT(30)
<1>1. PICK m \in Nat \ S : \A k \in Nat \ S : m <= k
    BY ZenonT(30), Least
<1>2. m - 1 \in Nat /\ m - 1 \notin Nat \ S
    BY <1>1
<1> QED
    BY <1>2

\* f is the ring after each of the first n rounds.
Tabulates(f, r, s, n) ==
    f = [i \in 0..n |-> IF i = 0 THEN r ELSE tty_write_inb(f[i - 1], s[i])]

LEMMA TableExists == ASSUME NEW r, NEW s PROVE \A n \in Nat : \E f : Tabulates(f, r, s, n)
<1> DEFINE S == {n \in Nat : \E f : Tabulates(f, r, s, n)}
<1>1. 0 \in S
  <2>1. Tabulates([i \in 0..0 |-> r], r, s, 0)
    BY DEF Tabulates
  <2> QED
    BY <2>1
<1>2. ASSUME NEW n \in S PROVE n + 1 \in S
  <2>1. PICK f : Tabulates(f, r, s, n)
    BY <1>2
  <2>2. n \in Nat
    OBVIOUS
  <2>3. \A i \in 0..n : f[i] = IF i = 0 THEN r ELSE tty_write_inb(f[i - 1], s[i])
    BY <2>1 DEF Tabulates
  <2> DEFINE g == [i \in 0..n + 1 |-> IF i = n + 1 THEN tty_write_inb(f[n], s[n + 1]) ELSE f[i]]
  <2>4. ASSUME NEW i \in 0..n + 1
        PROVE  g[i] = IF i = 0 THEN r ELSE tty_write_inb(g[i - 1], s[i])
    <3>1. CASE i = n + 1
      <4>1. g[i] = tty_write_inb(f[n], s[n + 1]) /\ g[i - 1] = f[n] /\ i # 0
        BY <2>2, <3>1
      <4> QED
        BY <3>1, <4>1
    <3>2. CASE i # n + 1 /\ i # 0
      <4>1. i \in 0..n /\ i - 1 \in 0..n + 1 /\ i - 1 # n + 1
        BY <2>2, <3>2
      <4>2. g[i] = f[i] /\ g[i - 1] = f[i - 1]
        BY <3>2, <4>1
      <4> QED
        BY <2>3, <3>2, <4>1, <4>2
    <3>3. CASE i = 0
        BY <2>2, <2>3, <3>3
    <3> QED
        BY <3>1, <3>2, <3>3
  <2>5. Tabulates(g, r, s, n + 1)
    <3> HIDE DEF g
    <3>1. g = [i \in 0..n + 1 |-> g[i]]
        BY DEF g
    <3> QED
        BY ZenonT(30), <2>4, <3>1 DEF Tabulates
  <2> QED
    BY <2>2, <2>5
<1> HIDE DEF S
<1>3. S = Nat
    BY ZenonT(30), <1>1, <1>2, Induction DEF S
<1> QED
    BY <1>3 DEF S

\* Rounds is the function its definition describes.
LEMMA RoundsAre ==
    ASSUME NEW r, NEW s, Len(s) \in Nat
    PROVE  /\ Rounds(r, s)[0] = r
           /\ \A i \in 1..Len(s) : Rounds(r, s)[i] = tty_write_inb(Rounds(r, s)[i - 1], s[i])
<1>1. PICK f : Tabulates(f, r, s, Len(s))
    BY TableExists
<1>2. Rounds(r, s) = CHOOSE g : Tabulates(g, r, s, Len(s))
    BY DEF Rounds, Tabulates
<1>3. Tabulates(Rounds(r, s), r, s, Len(s))
    BY <1>1, <1>2
<1> DEFINE w == Rounds(r, s)
<1>4. w = [i \in 0..Len(s) |-> IF i = 0 THEN r ELSE tty_write_inb(w[i - 1], s[i])]
    BY ZenonT(30), <1>3 DEF Tabulates
<1> HIDE DEF w
<1>5. w[0] = r
    BY <1>4
<1>6. ASSUME NEW i \in 1..Len(s) PROVE w[i] = tty_write_inb(w[i - 1], s[i])
  <2>1. i \in 0..Len(s) /\ i # 0
    OBVIOUS
  <2> QED
    BY <1>4, <2>1
<1> QED
    BY <1>5, <1>6 DEF w
-----------------------------------------------------------------------------
(* The input ring. *)

\* A ring whose read index is inside, or is about to be reset.
RingOK(r, out) ==
    /\ r.buf \in [0..InbSize - 1 -> Key \cup {0}]
    /\ r.write \in 0..InbSize - 1 /\ r.read \in 0..InbSize
    /\ r.read = InbSize <=> out

LEMMA WriteOK ==
    ASSUME NEW r, NEW out \in BOOLEAN, RingOK(r, out), NEW c \in Key \cup {0}
    PROVE  RingOK(tty_write_inb(r, c), out)
<1> DEFINE v == tty_write_inb(r, c)
<1>1. v.buf = [r.buf EXCEPT ![r.write] = c] /\ v.write = Inc(r.write, InbSize)
      /\ v.read = IF v.write = r.read THEN Inc(r.read, InbSize) ELSE r.read
    BY DEF tty_write_inb
<1> HIDE DEF v
<1>2. InbSize \in Nat \ {0}
    BY SizeAssumption
<1>3. v.buf \in [0..InbSize - 1 -> Key \cup {0}] /\ v.write \in 0..InbSize - 1
    BY <1>1, <1>2 DEF RingOK, Inc
<1>4. v.read \in 0..InbSize /\ (v.read = InbSize <=> r.read = InbSize)
    BY <1>1, <1>2, <1>3 DEF RingOK, Inc
<1>5. RingOK(v, out)
    BY ONLY <1>3, <1>4, RingOK(r, out) DEF RingOK
<1> QED
    BY <1>5 DEF v

\* Ring v is ring r with c stored after the d characters from b on.
Stored(v, r, b, d, c) ==
    /\ v.read = r.read /\ Dist(v.write, b) = d + 1
    /\ v.buf[Cell(b + d)] = c
    /\ \A i \in 1..d : v.buf[Cell(b + i - 1)] = r.buf[Cell(b + i - 1)]

\* One more character, in a ring with room for it.
LEMMA WriteKeeps ==
    ASSUME NEW r, NEW c \in Key \cup {0},
           r.buf \in [0..InbSize - 1 -> Key \cup {0}], r.write \in 0..InbSize - 1,
           NEW b \in 0..InbSize - 1, r.read = b \/ r.read = InbSize,
           NEW d \in Nat, d + 1 < InbSize, Dist(r.write, b) = d,
           NEW v, v = tty_write_inb(r, c)
    PROVE  Stored(v, r, b, d, c)
<1>1. v.buf = [r.buf EXCEPT ![r.write] = c] /\ v.write = Inc(r.write, InbSize)
      /\ v.read = IF v.write = r.read THEN Inc(r.read, InbSize) ELSE r.read
    BY DEF tty_write_inb
<1>2. InbSize \in Nat \ {0} /\ r.write \in 0..InbSize - 1
    BY SizeAssumption
<1>3. Dist(v.write, b) = d + 1 /\ v.write # b /\ v.write < InbSize
  <2>1. PICK w \in 0..InbSize - 1, n \in Nat : w = r.write /\ n = InbSize
    BY <1>2
  <2>2. Dist(w, b) = d /\ v.write = Inc(w, n) /\ d + 1 < n /\ b \in 0..n - 1 /\ w \in 0..n - 1
    BY <1>1, <2>1
  <2> QED
    BY ONLY <2>1, <2>2, n \in Nat, d \in Nat DEF Dist, Inc
<1>4. v.read = r.read
    BY <1>1, <1>2, <1>3
<1>5. Cell(b + d) = r.write
    BY SMTT(30), <1>2 DEF Dist, Cell
<1>6. \A i \in 1..d : Cell(b + i - 1) # r.write /\ Cell(b + i - 1) \in 0..InbSize - 1
    BY <1>2 DEF Dist, Cell
<1>7. v.buf[Cell(b + d)] = c /\ \A i \in 1..d : v.buf[Cell(b + i - 1)] = r.buf[Cell(b + i - 1)]
    BY ZenonT(30), <1>1, <1>2, <1>5, <1>6
<1> QED
    BY <1>3, <1>4, <1>7 DEF Stored

\* The ring as flush_cb finds it, and after n rounds.
Ring0 == [buf |-> inb, write |-> inb_write, read |-> inb_read]
After(s, n) == Rounds(Ring0, s)[n]

LEMMA AfterRounds ==
    ASSUME NEW s \in Seq(Key \cup {0})
    PROVE  /\ Len(s) \in Nat /\ After(s, 0) = Ring0
           /\ \A n \in Nat : n + 1 <= Len(s) =>
                 s[n + 1] \in Key \cup {0} /\ After(s, n + 1) = tty_write_inb(After(s, n), s[n + 1])
<1>1. Len(s) \in Nat
    OBVIOUS
<1>2. ASSUME NEW n \in Nat, n + 1 <= Len(s)
      PROVE  s[n + 1] \in Key \cup {0} /\ After(s, n + 1) = tty_write_inb(After(s, n), s[n + 1])
  <2>1. n + 1 \in 1..Len(s) /\ (n + 1) - 1 = n
    BY <1>1, <1>2
  <2> QED
    BY <1>1, <2>1, RoundsAre DEF After
<1> QED
    BY <1>1, <1>2, RoundsAre DEF After

\* flush_cb leaves the ring well formed.
LEMMA FlushOK ==
    ASSUME TypeOK, NEW s \in Seq(Key \cup {0}), flush_cb(s)
    PROVE  /\ inb' \in [0..InbSize - 1 -> Key \cup {0}]
           /\ inb_write' \in 0..InbSize - 1 /\ inb_read' \in 0..InbSize
           /\ inb_read' = InbSize <=> inb_read = InbSize
<1> DEFINE out == inb_read = InbSize
<1> DEFINE S == {n \in Nat : n <= Len(s) => RingOK(After(s, n), out)}
<1>1. RingOK(Ring0, out)
    BY DEF TypeOK, RingOK, Ring0
<1>2. 0 \in S
    BY <1>1, AfterRounds
<1>3. ASSUME NEW n \in S PROVE n + 1 \in S
  <2> SUFFICES ASSUME n + 1 <= Len(s) PROVE RingOK(After(s, n + 1), out)
    BY <1>3
  <2>1. n \in Nat /\ n <= Len(s) /\ RingOK(After(s, n), out)
    BY AfterRounds
  <2> QED
    BY ZenonT(30), <2>1, AfterRounds, WriteOK
<1>4. S = Nat
  <2> HIDE DEF S
  <2>1. S \in SUBSET Nat
    BY DEF S
  <2> QED
    BY <1>2, <1>3, <2>1, Induction
<1>5. RingOK(After(s, Len(s)), out)
    BY <1>4, AfterRounds
<1>6. inb' = After(s, Len(s)).buf /\ inb_write' = After(s, Len(s)).write
      /\ inb_read' = After(s, Len(s)).read
    BY DEF flush_cb, After, Ring0
<1> QED
    BY <1>5, <1>6 DEF RingOK

\* With room for all of them, flush_cb appends the characters.
LEMMA FlushKeeps ==
    ASSUME TypeOK, NEW s \in Seq(Key \cup {0}), flush_cb(s), NEW d \in Nat,
           Dist(inb_write, Base) = d, d + Len(s) < InbSize
    PROVE  /\ inb_read' = inb_read /\ Dist(inb_write', Base) = d + Len(s)
           /\ \A i \in 1..d : inb'[Cell(Base + i - 1)] = inb[Cell(Base + i - 1)]
           /\ \A i \in 1..Len(s) : inb'[Cell(Base + d + i - 1)] = s[i]
<1> DEFINE out == inb_read = InbSize
<1>0. PICK b \in 0..InbSize - 1 : b = Base /\ (inb_read = b \/ inb_read = InbSize)
    BY SizeAssumption DEF TypeOK, Base
<1> DEFINE Kept(r, n) == /\ RingOK(r, out) /\ r.read = inb_read /\ Dist(r.write, b) = d + n
                         /\ \A i \in 1..d : r.buf[Cell(b + i - 1)] = inb[Cell(b + i - 1)]
                         /\ \A i \in 1..n : r.buf[Cell(b + d + i - 1)] = s[i]
<1> DEFINE S == {n \in Nat : n <= Len(s) => Kept(After(s, n), n)}
<1>1. RingOK(Ring0, out)
    BY DEF TypeOK, RingOK, Ring0
<1>2. 0 \in S
  <2>1. Ring0.read = inb_read /\ Ring0.write = inb_write /\ Ring0.buf = inb
    BY DEF Ring0
  <2>2. Kept(Ring0, 0)
    BY <1>0, <1>1, <2>1
  <2> QED
    BY ZenonT(30), <2>2, AfterRounds
<1>3. ASSUME NEW n \in S PROVE n + 1 \in S
  <2> SUFFICES ASSUME n + 1 <= Len(s) PROVE Kept(After(s, n + 1), n + 1)
    BY <1>3
  <2>1. n \in Nat /\ n <= Len(s) /\ Len(s) \in Nat
    BY AfterRounds
  <2>2. PICK r : r = After(s, n) /\ Kept(r, n)
    BY <2>1
  <2>10. PICK c \in Key \cup {0} : c = s[n + 1] /\ After(s, n + 1) = tty_write_inb(r, c)
    BY ZenonT(30), <2>1, <2>2, AfterRounds
  <2>3. PICK v : c = s[n + 1] /\ v = After(s, n + 1) /\ v = tty_write_inb(r, c)
    BY <2>10
  <2>4. RingOK(v, out)
    BY ZenonT(30), <2>2, <2>3, WriteOK
  <2>5. d + n \in Nat /\ (d + n) + 1 < InbSize /\ Dist(r.write, b) = d + n
    BY <2>1, <2>2, SizeAssumption
  <2>6. /\ v.read = r.read /\ Dist(v.write, b) = (d + n) + 1
        /\ v.buf[Cell(b + (d + n))] = c
        /\ \A i \in 1..(d + n) : v.buf[Cell(b + i - 1)] = r.buf[Cell(b + i - 1)]
    <3>1. r.read = b \/ r.read = InbSize
        BY <1>0, <2>2
    <3>2. r.buf \in [0..InbSize - 1 -> Key \cup {0}] /\ r.write \in 0..InbSize - 1
        BY <2>2 DEF RingOK
    <3>3. PICK e \in Nat : e = d + n
        BY <2>5
    <3>4. /\ v.read = r.read /\ Dist(v.write, b) = e + 1
          /\ v.buf[Cell(b + e)] = c
          /\ \A i \in 1..e : v.buf[Cell(b + i - 1)] = r.buf[Cell(b + i - 1)]
      <4>1. e + 1 < InbSize /\ Dist(r.write, b) = e /\ v = tty_write_inb(r, c)
        BY <2>3, <2>5, <3>3
      <4>2. Stored(v, r, b, e, c)
        BY ONLY ZenonT(30), <3>1, <3>2, <4>1, c \in Key \cup {0}, b \in 0..InbSize - 1, e \in Nat,
                WriteKeeps
      <4> QED
        BY ONLY <4>2 DEF Stored
    <3> QED
        BY <3>3, <3>4
  <2>7. \A i \in 1..d : v.buf[Cell(b + i - 1)] = inb[Cell(b + i - 1)]
    <3>1. \A i \in 1..d : i \in 1..(d + n)
        BY SMTT(30), <2>1
    <3> QED
        BY ZenonT(30), <2>2, <2>6, <3>1
  <2>8. ASSUME NEW i \in 1..n + 1 PROVE v.buf[Cell(b + d + i - 1)] = s[i]
    <3>1. CASE i = n + 1
      <4>1. b + d + i - 1 = b + (d + n)
        BY SMTT(30), <2>1, <3>1
      <4> QED
        BY <2>3, <2>6, <3>1, <4>1
    <3>2. CASE i \in 1..n
      <4>1. d + i \in 1..(d + n) /\ b + (d + i) - 1 = b + d + i - 1
        BY SMTT(30), <2>1, <3>2
      <4>2. v.buf[Cell(b + (d + i) - 1)] = r.buf[Cell(b + (d + i) - 1)]
        BY ZenonT(30), <2>6, <4>1
      <4> QED
        BY <2>2, <3>2, <4>1, <4>2
    <3> QED
        BY <2>1, <3>1, <3>2
  <2>9. Dist(v.write, b) = d + (n + 1) /\ v.read = inb_read
    BY <2>1, <2>2, <2>6
  <2> QED
    BY <2>3, <2>4, <2>7, <2>8, <2>9
<1>4. S = Nat
  <2> HIDE DEF S
  <2>1. S \in SUBSET Nat
    BY DEF S
  <2> QED
    BY ZenonT(30), <1>2, <1>3, <2>1, Induction
<1>5. Kept(After(s, Len(s)), Len(s))
  <2>1. Len(s) \in Nat /\ Len(s) \in S /\ Len(s) <= Len(s)
    <3> HIDE DEF S
    <3>1. Len(s) \in Nat /\ Len(s) <= Len(s)
        OBVIOUS
    <3> QED
        BY ONLY <1>4, <3>1
  <2>2. ASSUME NEW n \in S, n <= Len(s) PROVE Kept(After(s, n), n)
    <3> HIDE DEF Kept
    <3> QED
        BY <2>2
  <2> HIDE DEF Kept, S
  <2> QED
    BY <2>1, <2>2
<1>6. inb' = After(s, Len(s)).buf /\ inb_write' = After(s, Len(s)).write
      /\ inb_read' = After(s, Len(s)).read
    BY DEF flush_cb, After, Ring0
<1>7. PICK r : /\ r = After(s, Len(s)) /\ inb' = r.buf /\ inb_write' = r.write /\ inb_read' = r.read
              /\ Kept(r, Len(s))
    BY <1>5, <1>6
<1>8. /\ inb_read' = inb_read /\ Dist(inb_write', b) = d + Len(s)
      /\ \A i \in 1..d : inb'[Cell(b + i - 1)] = inb[Cell(b + i - 1)]
      /\ \A i \in 1..Len(s) : inb'[Cell(b + d + i - 1)] = s[i]
    BY ONLY <1>7
<1> QED
    BY <1>0, <1>8
-----------------------------------------------------------------------------
(* The line discipline's buffer. *)

LDist(t, h) == IF t >= h THEN t - h ELSE t - h + LdSize
LCell(x) == IF x < LdSize THEN x ELSE x - LdSize

\* Buffer buf holds the line l between h and t.
LineIn(buf, h, t, l) ==
    /\ LDist(t, h) = Len(l)
    /\ \A i \in 1..Len(l) : buf[LCell(h + i - 1)] = l[i]

LEMMA Remainder ==
    ASSUME NEW n \in Nat \ {0}, NEW x \in Nat, x < 2 * n
    PROVE  x % n = IF x < n THEN x ELSE x - n
    OBVIOUS

LEMMA LineKeptMeans ==
    ASSUME NEW h \in 0..LdSize - 1, NEW t \in 0..LdSize - 1, NEW buf, NEW l, Len(l) \in Nat
    PROVE  LineIn(buf, h, t, l) <=>
              LET n == (t - h + LdSize) % LdSize
              IN n = Len(l) /\ \A i \in 1..n : buf[(h + i - 1) % LdSize] = l[i]
<1>1. LdSize \in Nat \ {0}
    BY SizeAssumption
<1>2. (t - h + LdSize) % LdSize = LDist(t, h) /\ LDist(t, h) \in 0..LdSize - 1
  <2>1. t - h + LdSize \in Nat /\ t - h + LdSize < 2 * LdSize
    BY <1>1
  <2>2. (t - h + LdSize) % LdSize = IF t - h + LdSize < LdSize THEN t - h + LdSize
                                    ELSE (t - h + LdSize) - LdSize
    BY ZenonT(30), <1>1, <2>1, Remainder
  <2> QED
    BY <1>1, <2>2 DEF LDist
<1>3. \A i \in 1..LDist(t, h) : (h + i - 1) % LdSize = LCell(h + i - 1)
  <2> SUFFICES ASSUME NEW i \in 1..LDist(t, h) PROVE (h + i - 1) % LdSize = LCell(h + i - 1)
    OBVIOUS
  <2>1. h + i - 1 \in Nat /\ h + i - 1 < 2 * LdSize
    BY <1>1, <1>2
  <2> QED
    BY ZenonT(30), <1>1, <2>1, Remainder DEF LCell
<1> QED
    BY ZenonT(30), <1>2, <1>3 DEF LineIn

LEMMA LineKeptIs ==
    ASSUME TypeOK, ~stray
    PROVE  /\ head \in 0..LdSize - 1 /\ tail \in 0..LdSize - 1
           /\ LineKept <=> LineIn(ldbuf, head, tail, line)
<1>1. head \in 0..LdSize - 1 /\ tail \in 0..LdSize - 1 /\ Len(line) \in Nat
    BY SizeAssumption DEF TypeOK
<1> QED
    BY SMTT(30), <1>1, LineKeptMeans DEF LineKept, Count

\* The characters after an insertion: the oldest goes when the ring is full.
Inserted(l, c) == LET k == Append(l, c) IN IF Len(k) = LdSize THEN Tail(k) ELSE k

\* Storing c at t keeps the line, between the new head g and the new tail u.
Keeps(buf, h, t, l, c, u, g) ==
    /\ u \in 0..LdSize - 1 /\ g \in 0..LdSize - 1 /\ Inserted(l, c) \in Seq(Char)
    /\ LineIn([buf EXCEPT ![t] = c], g, u, Inserted(l, c))

LEMMA InsertLine ==
    ASSUME NEW h \in 0..LdSize - 1, NEW t \in 0..LdSize - 1, NEW c \in Char,
           NEW buf \in [0..LdSize - 1 -> Char \cup {0}], NEW l \in Seq(Char),
           LineIn(buf, h, t, l),
           NEW u, u = (t + 1) % LdSize,
           NEW g, g = IF u = h THEN (h + 1) % LdSize ELSE h
    PROVE  Keeps(buf, h, t, l, c, u, g)
<1> SUFFICES /\ u \in 0..LdSize - 1 /\ g \in 0..LdSize - 1 /\ Inserted(l, c) \in Seq(Char)
             /\ LineIn([buf EXCEPT ![t] = c], g, u, Inserted(l, c))
    BY DEF Keeps
<1>1. PICK n \in Nat \ {0} : n = LdSize
    BY SizeAssumption
<1>2. u = (IF t + 1 < n THEN t + 1 ELSE 0)
      /\ g = IF u = h THEN (IF h + 1 < n THEN h + 1 ELSE 0) ELSE h
  <2>1. \A x \in 0..n - 1 : (x + 1) % n = IF x + 1 < n THEN x + 1 ELSE 0
    <3> SUFFICES ASSUME NEW x \in 0..n - 1 PROVE (x + 1) % n = IF x + 1 < n THEN x + 1 ELSE 0
        OBVIOUS
    <3>1. x + 1 \in Nat /\ x + 1 < 2 * n
        OBVIOUS
    <3>2. (x + 1) % n = IF x + 1 < n THEN x + 1 ELSE (x + 1) - n
        BY ZenonT(30), <3>1, Remainder
    <3> QED
        BY <3>2
  <2> QED
    BY <1>1, <2>1
<1>3. PICK m \in Nat : m = Len(l) /\ m = LDist(t, h) /\ m < n
    BY <1>1 DEF LineIn, LDist
<1>4. PICK b : b = [buf EXCEPT ![t] = c]
    BY ZenonT(30)
<1>5. PICK k : k = Append(l, c)
    BY ZenonT(30)
<1>6. /\ k \in Seq(Char) /\ Len(k) = m + 1 /\ k[m + 1] = c /\ \A i \in 1..m : k[i] = l[i]
  <2>1. m = Len(l) /\ l \in Seq(Char) /\ c \in Char
    BY <1>3
  <2>2. k \in Seq(Char)
    BY ONLY <1>5, <2>1
  <2>3. Len(k) = m + 1
    BY ONLY <1>5, <2>1
  <2>4. k[m + 1] = c
    BY ONLY <1>5, <2>1
  <2>5. \A i \in 1..m : k[i] = l[i]
    BY ONLY <1>5, <2>1
  <2> QED
    BY ONLY <2>2, <2>3, <2>4, <2>5
<1>7. LCell(h + m) = t /\ \A i \in 1..m : LCell(h + i - 1) \in 0..n - 1 /\ LCell(h + i - 1) # t
    BY <1>1, <1>3 DEF LDist, LCell
<1>8. b[t] = c /\ \A x \in 0..n - 1 : x # t => b[x] = buf[x]
    BY <1>1, <1>4
<1>9. \A i \in 1..m + 1 : b[LCell(h + i - 1)] = k[i]
  <2> SUFFICES ASSUME NEW i \in 1..m + 1 PROVE b[LCell(h + i - 1)] = k[i]
    OBVIOUS
  <2>1. CASE i = m + 1
    <3>1. h + i - 1 = h + m
        BY <2>1
    <3> QED
        BY <1>6, <1>7, <1>8, <2>1, <3>1
  <2>2. CASE i \in 1..m
    <3>1. buf[LCell(h + i - 1)] = l[i]
        BY <1>3, <2>2 DEF LineIn
    <3> QED
        BY ZenonT(30), <1>6, <1>7, <1>8, <2>2, <3>1
  <2> QED
    BY SMTT(30), <2>1, <2>2
<1>10. CASE m + 1 < n
  <2>1. u # h /\ g = h /\ LDist(u, g) = m + 1
    BY ONLY SMTT(30), <1>1, <1>2, <1>3, <1>10, n \in Nat, m \in Nat, h \in 0..LdSize - 1, t \in 0..LdSize - 1
       DEF LDist
  <2>2. Inserted(l, c) = k
    BY <1>1, <1>5, <1>6, <1>10 DEF Inserted
  <2>3. LineIn(b, g, u, k)
    BY <1>6, <1>9, <2>1 DEF LineIn
  <2>4. u \in 0..n - 1 /\ g \in 0..n - 1
    BY ONLY <1>1, <1>2, n \in Nat \ {0}, t \in 0..LdSize - 1, h \in 0..LdSize - 1
  <2> QED
    BY ONLY ZenonT(30), <1>1, <1>4, <1>6, <2>2, <2>3, <2>4
<1>11. CASE m + 1 = n
  <2>1. u = h /\ g = (IF h + 1 < n THEN h + 1 ELSE 0) /\ LDist(u, g) = m
    BY <1>1, <1>2, <1>3, <1>11 DEF LDist
  <2>2. Inserted(l, c) = Tail(k)
    BY <1>1, <1>5, <1>6, <1>11 DEF Inserted
  <2>3. PICK r : r = Tail(k)
    BY ZenonT(30)
  <2>6. r \in Seq(Char) /\ Len(r) = m /\ \A i \in 1..m : r[i] = k[i + 1]
    <3>1. k \in Seq(Char) /\ Len(k) = m + 1
        BY <1>6
    <3>2. r \in Seq(Char)
        BY ONLY <2>3, <3>1, m \in Nat
    <3>3. Len(r) = m
        BY ONLY <2>3, <3>1, m \in Nat
    <3>4. \A i \in 1..m : r[i] = k[i + 1]
        BY ONLY <2>3, <3>1, m \in Nat
    <3> QED
        BY ONLY <3>2, <3>3, <3>4
  <2>4. \A i \in 1..m : LCell(g + i - 1) = LCell(h + (i + 1) - 1) /\ i + 1 \in 1..m + 1
    BY ONLY <1>1, <1>11, <2>1, n \in Nat, m \in Nat, h \in 0..LdSize - 1 DEF LCell
  <2>5. LineIn(b, g, u, r)
    BY ZenonT(30), <1>9, <2>1, <2>4, <2>6 DEF LineIn
  <2>7. u \in 0..n - 1 /\ g \in 0..n - 1
    BY ONLY <1>1, <1>2, n \in Nat \ {0}, t \in 0..LdSize - 1, h \in 0..LdSize - 1
  <2> QED
    BY ONLY ZenonT(30), <1>1, <1>4, <2>2, <2>3, <2>5, <2>6, <2>7
<1> QED
    BY <1>3, <1>10, <1>11

LEMMA DeleteLine ==
    ASSUME NEW h \in 0..LdSize - 1, NEW t \in 0..LdSize - 1, t # h, t # 0,
           NEW buf, NEW l \in Seq(Char), LineIn(buf, h, t, l)
    PROVE  l # <<>> /\ LineIn(buf, h, t - 1, SubSeq(l, 1, Len(l) - 1))
<1>1. PICK n \in Nat \ {0} : n = LdSize
    BY SizeAssumption
<1>2. PICK m \in Nat : m = Len(l) /\ m = LDist(t, h) /\ m > 0 /\ m < n
    BY <1>1 DEF LineIn, LDist
<1>3. LDist(t - 1, h) = m - 1
    BY <1>1, <1>2 DEF LDist
<1>8. PICK k : k = SubSeq(l, 1, Len(l) - 1)
    BY ZenonT(30)
<1>4. Len(k) = m - 1 /\ \A i \in 1..m - 1 : k[i] = l[i]
  <2>1. m - 1 \in Nat /\ Len(l) = (m - 1) + 1
    BY <1>2
  <2> QED
    <3>1. k = SubSeq(l, 1, m - 1)
        BY ONLY ZenonT(30), <1>2, <1>8
    <3>2. Len(k) = m - 1
        BY ONLY <2>1, <3>1, l \in Seq(Char)
    <3>3. \A i \in 1..m - 1 : k[i] = l[i]
        BY ONLY <2>1, <3>1, l \in Seq(Char)
    <3> QED
        BY ONLY <3>2, <3>3
<1>5. LineIn(buf, h, t - 1, k)
    BY SMTT(30), <1>2, <1>3, <1>4 DEF LineIn
<1>6. Len(<<>>) = 0
    OBVIOUS
<1>7. l # <<>>
  <2>1. l = <<>> => m = 0
    BY ONLY ZenonT(30), <1>2, <1>6
  <2> QED
    BY ONLY <1>2, <2>1
<1> QED
    BY ONLY ZenonT(30), <1>5, <1>7, <1>8
-----------------------------------------------------------------------------
(* The invariant. *)

LEMMA InitIInv == Init => IInv
<1> SUFFICES ASSUME Init PROVE IInv
    OBVIOUS
<1>0. LdSize \in Nat \ {0} /\ InbSize \in Nat \ {0} /\ MaxTyped \in Nat
    BY SizeAssumption
<1>1. ldbuf \in [0..LdSize - 1 -> Char \cup {0}] /\ inb \in [0..InbSize - 1 -> Key \cup {0}]
    BY DEF Init
<1>2. TypeOK
    BY SMTT(30), <1>0, <1>1 DEF Init, TypeOK, Steps
<1>3. Indexes
    BY <1>0 DEF Init, Indexes
<1>4. Len(line) = 0 /\ Len(got) = 0 /\ Len(stream) = 0 /\ Held = 0 /\ Base = 0
    BY <1>0 DEF Init, Held, Base
<1>5. LineKept
  <2>1. Count = 0
    BY <1>0 DEF Init, Count
  <2> QED
    BY <1>4, <2>1 DEF LineKept
<1>6. Intact
  <2>1. Holds(inb, inb_write, Base, stream, Len(got) - Held)
    BY <1>0, <1>4 DEF Init, Holds, Dist
  <2> QED
    BY <1>0, <1>4, <2>1 DEF Init, Intact
<1> QED
    BY <1>2, <1>3, <1>5, <1>6 DEF IInv

\* Nothing happens to the input ring and to the reader.
LEMMA RingQuiet ==
    ASSUME IInv, ~stray, overrun => overrun',
           UNCHANGED <<inb, inb_write, inb_read, stream, got, pc, reg>>
    PROVE  Indexes' /\ Intact'
    BY DEF IInv, Indexes, Intact, Holds, Base, Held, Cell, Dist

\* Nothing happens to the line.
LEMMA LineQuiet == ASSUME IInv, UNCHANGED <<ldbuf, head, tail, stray, line>> PROVE LineKept'
    BY DEF IInv, LineKept, Count

\* The reader's view of the ring, as numbers.
LEMMA IntactFacts ==
    ASSUME IInv, ~overrun, ~stray
    PROVE  /\ Len(got) \in Nat /\ Len(stream) \in Nat /\ Held \in {0, 1}
           /\ Held <= Len(got) /\ Len(got) <= Len(stream)
           /\ \A i \in 1..Len(got) : got[i] = stream[i]
           /\ Len(stream) - (Len(got) - Held) < InbSize
           /\ Dist(inb_write, Base) = Len(stream) - (Len(got) - Held)
           /\ \A i \in 1..Len(stream) - (Len(got) - Held) :
                 inb[Cell(Base + i - 1)] = stream[(Len(got) - Held) + i]
           /\ pc \in {"test", "load", "store"} => reg = inb_read
           /\ pc = "load" => Len(got) < Len(stream)
<1>1. Len(got) \in Nat /\ Len(stream) \in Nat
    BY DEF IInv, TypeOK
<1>2. Held \in {0, 1}
    BY DEF Held
<1> QED
    BY <1>1, <1>2 DEF IInv, Intact, Holds

LEMMA FlushIntact ==
    ASSUME IInv, ~stray, NEW s \in Seq(Key), flush_cb(s), stream' = stream \o s,
           UNCHANGED <<got, pc, reg>>,
           overrun' = (overrun \/ Len(stream') - Len(got) + Held > InbSize - 1)
    PROVE  /\ inb' \in [0..InbSize - 1 -> Key \cup {0}]
           /\ inb_write' \in 0..InbSize - 1 /\ inb_read' \in 0..InbSize
           /\ Indexes' /\ Intact'
<1>1. s \in Seq(Key \cup {0}) /\ stream \in Seq(Key) /\ TypeOK
    BY SMTT(30) DEF IInv, TypeOK
<1>2. /\ inb' \in [0..InbSize - 1 -> Key \cup {0}]
      /\ inb_write' \in 0..InbSize - 1 /\ inb_read' \in 0..InbSize
      /\ inb_read' = InbSize <=> inb_read = InbSize
    BY <1>1, FlushOK
<1>3. Indexes'
    BY <1>2 DEF IInv, Indexes
<1>4. Intact'
  <2> SUFFICES ASSUME ~overrun', ~stray'
               PROVE  /\ Held' <= Len(got') /\ Len(got') <= Len(stream')
                      /\ \A i \in 1..Len(got') : got'[i] = stream'[i]
                      /\ Len(stream') - (Len(got') - Held') < InbSize
                      /\ Holds(inb, inb_write, Base, stream, Len(got) - Held)'
                      /\ pc' \in {"test", "load", "store"} => reg' = inb_read'
                      /\ pc' = "load" => Len(got') < Len(stream')
    BY DEF Intact
  <2>0. ~overrun
    BY ZenonT(30)
  <2>1. PICK n \in Nat, g \in Nat, e \in {0, 1}, a \in Nat :
               n = Len(stream) /\ g = Len(got) /\ e = Held /\ a = Len(s)
    BY <1>1, <2>0, IntactFacts
  <2>2. /\ e <= g /\ g <= n
        /\ \A i \in 1..g : got[i] = stream[i]
        /\ Dist(inb_write, Base) = n - (g - e)
        /\ \A i \in 1..n - (g - e) : inb[Cell(Base + i - 1)] = stream[(g - e) + i]
        /\ pc \in {"test", "load", "store"} => reg = inb_read
        /\ pc = "load" => g < n
    BY <2>0, <2>1, IntactFacts
  <2>3. Len(stream') = n + a
    <3>1. Len(stream \o s) = Len(stream) + Len(s)
        BY ONLY <1>1, s \in Seq(Key)
    <3> QED
        BY ONLY <2>1, <3>1, stream' = stream \o s
  <2>4. (\A i \in 1..n : stream'[i] = stream[i]) /\ (\A i \in 1..a : stream'[n + i] = s[i])
    <3>1. \A i \in 1..Len(stream) : (stream \o s)[i] = stream[i]
        BY ONLY <1>1, s \in Seq(Key)
    <3>2. \A i \in 1..Len(s) : (stream \o s)[Len(stream) + i] = s[i]
        BY ONLY <1>1, s \in Seq(Key)
    <3> QED
        BY ONLY <2>1, <3>1, <3>2, stream' = stream \o s
  <2>5. PICK d \in Nat : d = n - (g - e)
    BY ONLY <2>2, n \in Nat, g \in Nat, e \in {0, 1}
  <2>6. PICK N \in Nat : N = InbSize
    BY SizeAssumption
  <2>7. d + a < N
    <3>1. ~(Len(stream') - Len(got) + Held > InbSize - 1)
        BY ONLY ZenonT(30), ~overrun',
                overrun' = (overrun \/ Len(stream') - Len(got) + Held > InbSize - 1)
    <3>2. ~((n + a) - g + e > N - 1)
        BY ONLY <2>1, <2>3, <2>6, <3>1
    <3> QED
        BY ONLY <2>5, <3>2, n \in Nat, g \in Nat, e \in {0, 1}, a \in Nat, N \in Nat
  <2>8. /\ inb_read' = inb_read /\ Dist(inb_write', Base) = d + a
        /\ \A i \in 1..d : inb'[Cell(Base + i - 1)] = inb[Cell(Base + i - 1)]
        /\ \A i \in 1..a : inb'[Cell(Base + d + i - 1)] = s[i]
    BY ZenonT(30), <1>1, <2>1, <2>2, <2>5, <2>6, <2>7, FlushKeeps
  <2>9. Base' = Base /\ Held' = Held /\ got' = got /\ pc' = pc /\ reg' = reg
    BY <2>8 DEF Base, Held
  <2>10. PICK b \in Nat : b = Base
    BY SizeAssumption DEF IInv, TypeOK, Base
  <2>11. ASSUME NEW i \in 1..(n + a) - (g - e)
         PROVE  inb'[Cell(b + i - 1)] = stream'[(g - e) + i]
    <3>1. CASE i <= d
      <4>1. i \in 1..d /\ (g - e) + i \in 1..n
        BY ONLY SMTT(30), <2>2, <2>5, <2>11, <3>1, n \in Nat, g \in Nat, e \in {0, 1}, d \in Nat, a \in Nat
      <4>2. inb'[Cell(b + i - 1)] = inb[Cell(b + i - 1)] /\ inb[Cell(b + i - 1)] = stream[(g - e) + i]
        BY ONLY ZenonT(30), <2>2, <2>5, <2>8, <2>10, <4>1
      <4> QED
        BY ONLY <2>4, <4>1, <4>2
    <3>2. CASE ~(i <= d)
      <4>1. PICK j \in 1..a : i = d + j
        <5>1. i - d \in 1..a /\ i = d + (i - d)
            BY ONLY <2>5, <2>11, <3>2, n \in Nat, g \in Nat, e \in {0, 1}, d \in Nat, a \in Nat
        <5> QED
            BY <5>1
      <4>2. b + i - 1 = b + d + j - 1 /\ (g - e) + i = n + j
        BY ONLY SMTT(30), <2>5, <4>1, n \in Nat, g \in Nat, e \in {0, 1}, d \in Nat, a \in Nat, b \in Nat
      <4> QED
        BY ONLY ZenonT(30), <2>4, <2>8, <2>10, <4>2, j \in 1..a
    <3> QED
        BY ZenonT(30), <3>1, <3>2
  <2>12. Holds(inb', inb_write', b, stream', g - e)
    <3>1. Dist(inb_write', b) = (n + a) - (g - e)
        BY ONLY SMTT(30), <2>5, <2>8, <2>10, n \in Nat, g \in Nat, e \in {0, 1}, d \in Nat, a \in Nat
    <3> QED
        BY ONLY <2>3, <2>11, <3>1 DEF Holds
  <2>13. Holds(inb, inb_write, Base, stream, Len(got) - Held)'
    <3>1. Holds(inb', inb_write', Base', stream', Len(got') - Held')
        BY ONLY <2>1, <2>9, <2>10, <2>12
    <3> QED
        BY ONLY <3>1 DEF Holds
  <2>14. /\ e <= g /\ g <= n + a /\ (n + a) - (g - e) < N
         /\ pc = "load" => g < n + a
    BY ONLY SMTT(30), <2>2, <2>5, <2>7, n \in Nat, g \in Nat, e \in {0, 1}, d \in Nat, a \in Nat
  <2>15. \A i \in 1..g : got[i] = stream'[i]
    <3>1. \A i \in 1..g : i \in 1..n
        BY ONLY <2>2, n \in Nat, g \in Nat
    <3> QED
        BY ONLY <2>2, <2>4, <3>1
  <2> QED
    BY ONLY ZenonT(30), <2>1, <2>2, <2>3, <2>6, <2>8, <2>9, <2>13, <2>14, <2>15
<1> QED
    BY <1>2, <1>3, <1>4

\* What the line discipline hands over is the line.
LEMMA FlushedLine ==
    ASSUME IInv, ~stray, ~(Count > 0 /\ head + Count > LdSize)
    PROVE  [i \in 1..Count |-> ldbuf[head + i - 1]] = line
<1>1. PICK m \in Nat : m = Count /\ m = Len(line)
    BY DEF IInv, TypeOK, LineKept
<1>2. PICK n \in Nat \ {0} : n = LdSize
    BY SizeAssumption
<1>3. PICK h \in 0..n - 1 : h = head
    BY <1>2 DEF IInv, TypeOK
<1>4. ASSUME NEW i \in 1..m PROVE ldbuf[h + i - 1] = line[i]
  <2>1. ldbuf[(h + i - 1) % n] = line[i]
    BY <1>1, <1>2, <1>3 DEF IInv, LineKept
  <2>2. h + i - 1 \in Nat /\ h + i - 1 < n
    BY <1>1, <1>2, <1>3
  <2>3. (h + i - 1) % n = h + i - 1
    BY ONLY <2>2, n \in Nat \ {0}
  <2> QED
    BY ONLY <2>1, <2>3
<1>5. line = [i \in 1..m |-> line[i]]
  <2>1. line \in Seq(Char) /\ Len(line) = m
    BY <1>1 DEF IInv, TypeOK
  <2> QED
    BY ONLY <2>1, m \in Nat
<1> QED
    BY ONLY ZenonT(30), <1>1, <1>3, <1>4, <1>5

LEMMA ReceiveIInv == ASSUME IInv, NEW c \in Key, Receive(c) PROVE IInv'
<1>0. TypeOK /\ ~stray /\ c \in Key
    BY DEF IInv, Receive
<1>1. /\ typed' \in 0..MaxTyped /\ UNCHANGED <<pc, reg, got>> /\ overrun' \in BOOLEAN
      /\ overrun => overrun'
  <2>1. typed' \in 0..MaxTyped
    BY <1>0, SizeAssumption DEF Receive, TypeOK
  <2>2. overrun' \in BOOLEAN /\ (overrun => overrun')
    BY ZenonT(30) DEF Receive
  <2> QED
    BY <2>1, <2>2 DEF Receive
<1>2. LdSize \in Nat \ {0} /\ InbSize \in Nat \ {0}
    BY SizeAssumption
<1>3. overrun' = (overrun \/ Len(stream') - Len(got) + Held > InbSize - 1)
    BY DEF Receive
<1>4. CASE mode = "raw"
  <2>1. flush_cb(<<c>>) /\ stream' = Append(stream, c) /\ UNCHANGED ld
    BY <1>4 DEF Receive
  <2>2. stream \in Seq(Key)
    BY <1>0 DEF TypeOK
  <2>3. <<c>> \in Seq(Key) /\ stream' = stream \o <<c>>
    BY ONLY <1>0, <2>1, <2>2
  <2>4. /\ inb' \in [0..InbSize - 1 -> Key \cup {0}]
        /\ inb_write' \in 0..InbSize - 1 /\ inb_read' \in 0..InbSize
        /\ Indexes' /\ Intact'
    BY ZenonT(30), <1>0, <1>1, <1>3, <2>1, <2>3, FlushIntact
  <2>5. LineKept'
    BY <2>1, LineQuiet DEF ld
  <2>6. stream' \in Seq(Key)
    BY ONLY <1>0, <2>1, <2>2
  <2>7. TypeOK'
    BY ZenonT(30), <1>0, <1>1, <2>1, <2>4, <2>6 DEF TypeOK, ld
  <2> QED
    BY <2>4, <2>5, <2>7 DEF IInv
<1>5. CASE mode # "raw" /\ c \in Char /\ line_discipline_insert(c)
                       /\ UNCHANGED <<ring, inb_read, stream>>
  <2>1. Indexes' /\ Intact'
    BY <1>0, <1>1, <1>5, RingQuiet DEF ring
  <2>2. /\ head \in 0..LdSize - 1 /\ tail \in 0..LdSize - 1
        /\ LineIn(ldbuf, head, tail, line)
    BY <1>0, LineKeptIs DEF IInv
  <2>3. /\ ldbuf' = [ldbuf EXCEPT ![tail] = c] /\ tail' = (tail + 1) % LdSize
        /\ head' = IF tail' = head THEN (head + 1) % LdSize ELSE head
        /\ line' = Inserted(line, c) /\ UNCHANGED <<mode, stray>>
    BY <1>5 DEF line_discipline_insert, Inserted
  <2>4. ldbuf \in [0..LdSize - 1 -> Char \cup {0}] /\ line \in Seq(Char)
    BY <1>0 DEF TypeOK
  <2>5. /\ tail' \in 0..LdSize - 1 /\ head' \in 0..LdSize - 1 /\ Inserted(line, c) \in Seq(Char)
        /\ LineIn([ldbuf EXCEPT ![tail] = c], head', tail', Inserted(line, c))
    <3>1. c \in Char
        BY ONLY <1>5
    <3>2. PICK t, h : t = tail /\ h = head
        OBVIOUS
    <3>3. PICK u, g : u = tail' /\ g = head'
        OBVIOUS
    <3>4. u = (t + 1) % LdSize /\ g = IF u = h THEN (h + 1) % LdSize ELSE h
        BY ONLY <2>3, <3>2, <3>3
    <3>5. h \in 0..LdSize - 1 /\ t \in 0..LdSize - 1 /\ LineIn(ldbuf, h, t, line)
        BY ONLY <2>2, <3>2
    <3>6. /\ u \in 0..LdSize - 1 /\ g \in 0..LdSize - 1 /\ Inserted(line, c) \in Seq(Char)
          /\ LineIn([ldbuf EXCEPT ![t] = c], g, u, Inserted(line, c))
      <4>1. Keeps(ldbuf, h, t, line, c, u, g)
        BY ONLY ZenonT(30), <2>4, <3>1, <3>4, <3>5, InsertLine
      <4> QED
        BY ONLY <4>1 DEF Keeps
    <3> QED
        BY ONLY <3>2, <3>3, <3>6
  <2>6. ldbuf' \in [0..LdSize - 1 -> Char \cup {0}]
    BY ZenonT(30), <1>5, <2>2, <2>3, <2>4
  <2>7. TypeOK'
    BY SMTT(30), <1>0, <1>1, <1>2, <1>5, <2>3, <2>5, <2>6 DEF TypeOK, ring
  <2>8. Len(line') \in Nat
    BY <2>3, <2>5
  <2>9. LineIn(ldbuf', head', tail', line')
    BY ONLY <2>3, <2>5
  <2>10. LineKept'
    BY SMTT(30), <2>5, <2>8, <2>9, LineKeptMeans DEF LineKept, Count
  <2> QED
    BY <2>1, <2>7, <2>10 DEF IInv
<1>6. CASE mode # "raw" /\ line_discipline_delete_last /\ UNCHANGED <<ring, inb_read, stream>>
  <2>1. Indexes' /\ Intact'
    BY ZenonT(30), <1>0, <1>1, <1>6, RingQuiet DEF ring
  <2>2. /\ head \in 0..LdSize - 1 /\ tail \in 0..LdSize - 1
        /\ LineIn(ldbuf, head, tail, line) /\ line \in Seq(Char)
    BY <1>0, LineKeptIs DEF IInv, TypeOK
  <2>3. /\ tail' = (IF tail = head THEN tail ELSE tail - 1) /\ stray' = (tail' < 0)
        /\ line' = (IF line = <<>> THEN line ELSE SubSeq(line, 1, Len(line) - 1))
        /\ UNCHANGED <<mode, ldbuf, head>>
    BY <1>6 DEF line_discipline_delete_last
  <2>4. /\ tail' \in -1..LdSize - 1 /\ stray' \in BOOLEAN /\ (tail' = -1 => stray')
        /\ (~stray' => tail' \in 0..LdSize - 1)
    <3>1. stray' \in BOOLEAN /\ (stray' <=> tail' < 0)
        <4>1. stray' = (tail' < 0)
            BY <2>3
        <4>2. (tail' < 0) \in BOOLEAN
            OBVIOUS
        <4> QED
            BY ONLY ZenonT(30), <4>1, <4>2
    <3>3. tail' = IF tail = head THEN tail ELSE tail - 1
        BY <2>3
    <3>2. tail' \in -1..LdSize - 1 /\ (tail' = -1 => tail' < 0) /\ (~(tail' < 0) => tail' \in 0..LdSize - 1)
        BY ONLY <1>2, <2>2, <3>3
    <3> QED
        BY ONLY ZenonT(30), <3>1, <3>2
  <2>5. line' \in Seq(Char)
    <3>1. CASE line = <<>>
        BY <2>2, <2>3, <3>1
    <3>2. CASE line # <<>>
      <4>1. Len(line) - 1 \in Nat
        BY ONLY <2>2, <3>2
      <4>2. SubSeq(line, 1, Len(line) - 1) \in Seq(Char)
        BY ONLY SMTT(30), <2>2, <4>1
      <4> QED
        BY ONLY <2>3, <3>2, <4>2
    <3> QED
        BY <3>1, <3>2
  <2>6. TypeOK'
    BY ZenonT(30), <1>0, <1>1, <1>2, <1>6, <2>3, <2>4, <2>5 DEF TypeOK, ring
  <2>7. ASSUME ~stray' PROVE LineIn(ldbuf', head', tail', line')
    <3>1. CASE tail = head
      <4>1. Len(line) = 0
        BY ONLY <2>2, <3>1 DEF LineIn, LDist
      <4>2. line = <<>>
        BY ONLY <2>2, <4>1
      <4> QED
        BY ONLY ZenonT(30), <2>2, <2>3, <3>1, <4>2
    <3>2. CASE tail # head
      <4>1. tail # 0
        <5>1. tail' \in 0..LdSize - 1
            BY ONLY <2>4, <2>7
        <5>2. tail' = tail - 1
            BY ONLY <2>3, <3>2
        <5> QED
            BY ONLY <1>2, <2>2, <5>1, <5>2
      <4>2. line # <<>> /\ LineIn(ldbuf, head, tail - 1, SubSeq(line, 1, Len(line) - 1))
        BY ONLY ZenonT(30), <2>2, <3>2, <4>1, DeleteLine
      <4> QED
        BY ONLY <2>3, <3>2, <4>2
    <3> QED
        BY <3>1, <3>2
  <2>8. LineKept'
    <3> SUFFICES ASSUME ~stray' PROVE LineKept'
        BY DEF LineKept
    <3>1. tail' \in 0..LdSize - 1 /\ head' \in 0..LdSize - 1 /\ Len(line') \in Nat
        BY <2>2, <2>3, <2>4, <2>5
    <3> QED
        BY SMTT(30), <2>7, <3>1, LineKeptMeans DEF LineKept, Count
  <2> QED
    BY <2>1, <2>6, <2>8 DEF IInv
<1>7. CASE mode # "raw" /\ line_discipline_force_flush
  <2> DEFINE past == Count > 0 /\ head + Count > LdSize
  <2>1. /\ stray' = past /\ head' = tail
        /\ stream' = stream \o line /\ line' = <<>> /\ UNCHANGED <<mode, ldbuf, tail>>
        /\ past => UNCHANGED <<inb, inb_write, inb_read>>
        /\ ~past => flush_cb([i \in 1..Count |-> ldbuf[head + i - 1]])
    BY <1>7 DEF line_discipline_force_flush
  <2>2. line \in Seq(Key) /\ stream \in Seq(Key)
    <3>1. line \in Seq(Char) /\ stream \in Seq(Key) /\ Char \subseteq Key
        BY <1>0 DEF TypeOK, Key
    <3> QED
        BY ONLY <3>1
  <2>3. stream' \in Seq(Key)
    BY ONLY <2>1, <2>2
  <2>4. tail \in 0..LdSize - 1
    BY <1>0, LineKeptIs
  <2>5. stray' \in BOOLEAN /\ line' \in Seq(Char)
    BY <2>1
  <2> HIDE DEF past
  <2>6. LineKept'
    <3>1. tail' \in 0..LdSize - 1 /\ head' = tail' /\ Len(line') = 0 /\ Len(line') \in Nat
        BY <2>1, <2>4
    <3>2. LineIn(ldbuf', head', tail', line')
      <4>1. PICK t \in 0..LdSize - 1 : t = tail' /\ t = head'
        BY ONLY <3>1
      <4>2. LDist(t, t) = 0
        BY ONLY <1>2, t \in 0..LdSize - 1 DEF LDist
      <4> QED
        BY ONLY <3>1, <4>1, <4>2 DEF LineIn
    <3> QED
        BY <3>1, <3>2, LineKeptMeans DEF LineKept, Count
  <2>7. /\ inb' \in [0..InbSize - 1 -> Key \cup {0}]
        /\ inb_write' \in 0..InbSize - 1 /\ inb_read' \in 0..InbSize
        /\ Indexes' /\ Intact'
    <3>1. CASE past
      <4>1. stray'
        BY <2>1, <3>1
      <4>2. Intact'
        BY <4>1 DEF Intact
      <4> QED
        BY ZenonT(30), <1>0, <1>1, <2>1, <3>1, <4>2 DEF IInv, Indexes, TypeOK
    <3>2. CASE ~past
      <4>1. [i \in 1..Count |-> ldbuf[head + i - 1]] = line
        BY <1>0, <3>2, FlushedLine DEF past
      <4>2. flush_cb(line)
        BY ONLY ZenonT(30), <2>1, <3>2, <4>1
      <4> QED
        BY ZenonT(30), <1>0, <1>1, <1>3, <2>1, <2>2, <4>2, FlushIntact
    <3> QED
        BY <3>1, <3>2
  <2>8. TypeOK'
    BY ZenonT(30), <1>0, <1>1, <1>2, <2>1, <2>3, <2>4, <2>5, <2>7 DEF TypeOK
  <2> QED
    BY <2>6, <2>7, <2>8 DEF IInv
<1> QED
    BY <1>4, <1>5, <1>6, <1>7 DEF Receive

LEMMA ModesIInv == ASSUME IInv, NEW m \in {"raw", "canonical"}, _tty_modes(m) PROVE IInv'
<1>1. Indexes' /\ Intact'
    BY RingQuiet DEF _tty_modes, ring
<1>2. LineKept'
    BY LineQuiet DEF _tty_modes
<1>3. TypeOK'
    BY DEF IInv, TypeOK, _tty_modes, ring
<1> QED
    BY <1>1, <1>2, <1>3 DEF IInv

\* The steps of the reader that move neither the index nor a character.
LEMMA ReaderQuiet ==
    ASSUME IInv, UNCHANGED <<ld, ring, inb_read, stream, overrun, typed, got>>,
           pc' \in Steps, reg' \in 0..InbSize, Held' = Held,
           pc' \in {"test", "load", "again", "store"} => reg' < InbSize,
           pc # "wrap", pc' # "wrap",
           ~overrun /\ ~stray => /\ pc' \in {"test", "load", "store"} => reg' = inb_read
                                 /\ pc' = "load" => Len(got) < Len(stream)
    PROVE  IInv'
<1>1. TypeOK'
    BY ZenonT(30) DEF IInv, TypeOK, ld, ring
<1>2. LineKept'
    BY LineQuiet DEF ld
<1>3. Indexes'
    BY DEF IInv, Indexes
<1>4. Intact'
  <2>1. Base' = Base
    BY DEF Base
  <2>2. UNCHANGED <<inb, inb_write, stream, overrun, got, stray>>
    BY ZenonT(30) DEF ld, ring
  <2> SUFFICES ASSUME ~overrun, ~stray
               PROVE  /\ Held' <= Len(got') /\ Len(got') <= Len(stream')
                      /\ \A i \in 1..Len(got') : got'[i] = stream'[i]
                      /\ Len(stream') - (Len(got') - Held') < InbSize
                      /\ Holds(inb, inb_write, Base, stream, Len(got) - Held)'
                      /\ pc' \in {"test", "load", "store"} => reg' = inb_read'
                      /\ pc' = "load" => Len(got') < Len(stream')
    BY SMTT(30), <2>2 DEF Intact
  <2>3. Holds(inb, inb_write, Base, stream, Len(got) - Held)'
    <3>1. Holds(inb, inb_write, Base, stream, Len(got) - Held)
        BY DEF IInv, Intact
    <3> QED
        BY ONLY ZenonT(30), <2>1, <2>2, <3>1, Held' = Held DEF Holds
  <2>4. /\ Held <= Len(got) /\ Len(got) <= Len(stream)
        /\ \A i \in 1..Len(got) : got[i] = stream[i]
        /\ Len(stream) - (Len(got) - Held) < InbSize
    BY DEF IInv, Intact
  <2> QED
    BY <2>2, <2>3, <2>4
<1> QED
    BY <1>1, <1>2, <1>3, <1>4 DEF IInv

LEMMA QuietIInv == ASSUME IInv, Call \/ ReadIndex \/ Test \/ Again PROVE IInv'
<1>0. InbSize \in Nat \ {0} /\ inb_read \in 0..InbSize /\ inb_write \in 0..InbSize - 1
      /\ reg \in 0..InbSize /\ Indexes
    BY SizeAssumption DEF IInv, TypeOK
<1>1. CASE Call
    BY <1>0, <1>1, ReaderQuiet DEF Call, At, Steps, Held
<1>2. CASE ReadIndex
  <2>1. inb_read < InbSize
    BY <1>0, <1>2 DEF ReadIndex, At, Indexes
  <2> QED
    BY <1>0, <1>2, <2>1, ReaderQuiet DEF ReadIndex, At, Steps, Held
<1>3. CASE Again
  <2>1. inb_read < InbSize
    BY <1>0, <1>3 DEF Again, At, Indexes
  <2> QED
    BY <1>0, <1>3, <2>1, ReaderQuiet DEF Again, At, Steps, Held
<1>4. CASE Test
  <2>1. CASE At("test", "idle") /\ UNCHANGED <<inb_read, reg, got>>
    BY <1>0, <2>1, ReaderQuiet DEF At, Steps, Held
  <2>2. CASE reg # inb_write /\ At("test", "load") /\ UNCHANGED <<inb_read, reg, got>>
    <3>1. pc = "test" /\ pc' = "load" /\ ~stray /\ Held = 0 /\ Held' = 0
        BY <2>2 DEF At, Held
    <3>2. reg < InbSize
        BY <1>0, <3>1 DEF Indexes
    <3>3. ASSUME ~overrun PROVE reg = inb_read /\ Len(got) < Len(stream)
      <4>1. /\ Len(got) \in Nat /\ Len(stream) \in Nat /\ reg = inb_read
            /\ Dist(inb_write, Base) = Len(stream) - (Len(got) - Held)
            /\ Len(got) <= Len(stream)
        BY <3>1, <3>3, IntactFacts
      <4>2. Base = reg /\ Dist(inb_write, reg) # 0
        BY ONLY <1>0, <2>2, <3>2, <4>1 DEF Base, Dist
      <4> QED
        BY ONLY <3>1, <4>1, <4>2
    <3> QED
        BY <1>0, <2>2, <3>1, <3>2, <3>3, ReaderQuiet DEF At, Steps
  <2> QED
    BY <1>4, <2>1, <2>2 DEF Test
<1> QED
    BY <1>1, <1>2, <1>3, <1>4

LEMMA LoadIInv == ASSUME IInv, Load PROVE IInv'
<1>0. /\ InbSize \in Nat \ {0} /\ inb_read \in 0..InbSize /\ inb_write \in 0..InbSize - 1
      /\ reg \in 0..InbSize /\ reg < InbSize /\ Indexes
      /\ inb \in [0..InbSize - 1 -> Key \cup {0}] /\ got \in Seq(Key \cup {0})
    BY SizeAssumption DEF IInv, TypeOK, Load, At
<1>1. /\ ~stray /\ pc = "load" /\ pc' = "again" /\ got' = Append(got, inb[reg])
      /\ UNCHANGED <<ld, inb, inb_write, stream, overrun, typed, inb_read, reg>>
    BY DEF Load, At, ring
<1>2. inb[reg] \in Key \cup {0}
    BY ONLY <1>0
<1>3. got' \in Seq(Key \cup {0})
    BY ONLY SMTT(30), <1>0, <1>1, <1>2
<1>4. TypeOK'
    BY ZenonT(30), <1>1, <1>3 DEF IInv, TypeOK, ld, Steps
<1>5. LineKept'
    BY <1>1, LineQuiet DEF ld
<1>6. Indexes'
    BY ZenonT(30), <1>0, <1>1 DEF Indexes
<1>7. Intact'
  <2>1. Base' = Base /\ Held = 0 /\ Held' = 1 /\ stray' = stray
    BY ZenonT(30), <1>1 DEF Base, Held, ld
  <2> SUFFICES ASSUME ~overrun
               PROVE  /\ Held' <= Len(got') /\ Len(got') <= Len(stream')
                      /\ \A i \in 1..Len(got') : got'[i] = stream'[i]
                      /\ Len(stream') - (Len(got') - Held') < InbSize
                      /\ Holds(inb, inb_write, Base, stream, Len(got) - Held)'
                      /\ pc' \in {"test", "load", "store"} => reg' = inb_read'
                      /\ pc' = "load" => Len(got') < Len(stream')
    BY <1>1 DEF Intact
  <2>2. PICK n \in Nat, g \in Nat : n = Len(stream) /\ g = Len(got)
    BY <1>1, IntactFacts
  <2>3. /\ \A i \in 1..g : got[i] = stream[i]
        /\ n - g < InbSize /\ Dist(inb_write, Base) = n - g
        /\ \A i \in 1..n - g : inb[Cell(Base + i - 1)] = stream[g + i]
        /\ reg = inb_read /\ g < n
    <3>1. g - 0 = g
        OBVIOUS
    <3> QED
        BY ZenonT(30), <1>1, <2>1, <2>2, <3>1, IntactFacts
  <2>4. Len(got') = g + 1
    BY ONLY SMTT(30), <1>0, <1>1, <1>2, <2>2
  <2>5. got'[g + 1] = inb[reg]
    BY ONLY SMTT(30), <1>0, <1>1, <1>2, <2>2
  <2>6. \A i \in 1..g : got'[i] = got[i]
    BY ONLY SMTT(30), <1>0, <1>1, <1>2, <2>2
  <2>7. inb[reg] = stream[g + 1]
    <3>1. Base = reg /\ Cell(Base + 1 - 1) = reg /\ 1 \in 1..n - g
        BY ONLY SMTT(30), <1>0, <2>3, n \in Nat, g \in Nat DEF Base, Cell
    <3> QED
        BY ONLY <2>3, <3>1
  <2>8. \A i \in 1..g + 1 : got'[i] = stream[i]
    <3>1. \A i \in 1..g + 1 : i = g + 1 \/ i \in 1..g
        BY ONLY g \in Nat
    <3> QED
        BY ONLY ZenonT(30), <2>3, <2>5, <2>6, <2>7, <3>1
  <2>9. Holds(inb, inb_write, Base, stream, Len(got) - Held)'
    <3>1. (g + 1) - 1 = g
        OBVIOUS
    <3>2. Holds(inb, inb_write, Base, stream, g)
        BY ONLY <2>2, <2>3 DEF Holds
    <3> QED
        BY ONLY ZenonT(30), <1>1, <2>1, <2>4, <3>1, <3>2 DEF Holds
  <2>10. /\ 1 <= g + 1 /\ g + 1 <= n /\ n - ((g + 1) - 1) < InbSize
    BY ONLY SMTT(30), <1>0, <2>3, n \in Nat, g \in Nat
  <2> QED
    BY ONLY ZenonT(30), <1>1, <2>1, <2>2, <2>4, <2>8, <2>9, <2>10
<1> QED
    BY <1>4, <1>5, <1>6, <1>7 DEF IInv

LEMMA StoreIInv == ASSUME IInv, Store PROVE IInv'
<1>0. /\ InbSize \in Nat \ {0} /\ inb_read \in 0..InbSize /\ inb_write \in 0..InbSize - 1
      /\ reg \in 0..InbSize /\ Indexes
    BY SizeAssumption DEF IInv, TypeOK
<1>1. /\ ~stray /\ pc = "store" /\ pc' = (IF reg + 1 >= InbSize THEN "wrap" ELSE "idle")
      /\ inb_read' = reg + 1 /\ reg' = reg + 1
      /\ UNCHANGED <<ld, inb, inb_write, stream, overrun, typed, got>>
    BY DEF Store, At, ring
<1>2. reg < InbSize /\ inb_read # InbSize
    BY <1>0, <1>1 DEF Indexes
<1>3. reg + 1 \in 0..InbSize /\ (reg + 1 >= InbSize <=> reg + 1 = InbSize)
    BY ONLY SMTT(30), <1>0, <1>2
<1>4. TypeOK'
    BY ZenonT(30), <1>1, <1>3 DEF IInv, TypeOK, ld, Steps
<1>5. LineKept'
    BY <1>1, LineQuiet DEF ld
<1>6. Indexes'
    BY ZenonT(30), <1>1, <1>3 DEF Indexes
<1>7. Intact'
  <2>1. Held = 1 /\ Held' = 0 /\ stray' = stray
    BY ZenonT(30), <1>1 DEF Held, ld
  <2> SUFFICES ASSUME ~overrun
               PROVE  /\ Held' <= Len(got') /\ Len(got') <= Len(stream')
                      /\ \A i \in 1..Len(got') : got'[i] = stream'[i]
                      /\ Len(stream') - (Len(got') - Held') < InbSize
                      /\ Holds(inb, inb_write, Base, stream, Len(got) - Held)'
                      /\ pc' \in {"test", "load", "store"} => reg' = inb_read'
                      /\ pc' = "load" => Len(got') < Len(stream')
    BY <1>1 DEF Intact
  <2>2. PICK n \in Nat, g \in Nat : n = Len(stream) /\ g = Len(got)
    BY ZenonT(30), <1>1, IntactFacts
  <2>3. /\ 1 <= g /\ g <= n /\ \A i \in 1..g : got[i] = stream[i]
        /\ n - (g - 1) < InbSize /\ Dist(inb_write, Base) = n - (g - 1)
        /\ \A i \in 1..n - (g - 1) : inb[Cell(Base + i - 1)] = stream[(g - 1) + i]
        /\ reg = inb_read
    BY ZenonT(30), <1>1, <2>1, <2>2, IntactFacts
  <2>4. PICK b \in 0..InbSize - 1 : b = reg /\ b = Base
    BY ONLY <1>0, <1>2, <2>3 DEF Base
  <2>5. Base' = Cell(b + 1)
    BY ONLY SMTT(30), <1>0, <1>1, <1>3, <2>4 DEF Base, Cell
  <2>6. Dist(inb_write, Cell(b + 1)) = n - g
    BY ONLY SMTT(30), <1>0, <2>3, <2>4, n \in Nat, g \in Nat DEF Dist, Cell
  <2>7. ASSUME NEW i \in 1..n - g PROVE inb[Cell(Cell(b + 1) + i - 1)] = stream[g + i]
    <3>1. i + 1 \in 1..n - (g - 1) /\ (g - 1) + (i + 1) = g + i
        BY ONLY n \in Nat, g \in Nat, i \in 1..n - g
    <3>2. Cell(Cell(b + 1) + i - 1) = Cell(b + (i + 1) - 1)
        BY ONLY SMTT(30), <1>0, <2>3, b \in 0..InbSize - 1, n \in Nat, g \in Nat, i \in 1..n - g DEF Cell
    <3> QED
        BY ONLY <2>3, <2>4, <3>1, <3>2
  <2>8. Holds(inb, inb_write, Base, stream, Len(got) - Held)'
    <3>1. g - 0 = g
        OBVIOUS
    <3>2. Holds(inb, inb_write, Cell(b + 1), stream, g)
        BY ONLY <2>2, <2>6, <2>7 DEF Holds
    <3> QED
        BY ONLY ZenonT(30), <1>1, <2>1, <2>2, <2>5, <3>1, <3>2 DEF Holds
  <2>9. 0 <= g /\ n - (g - 0) < InbSize
    BY ONLY <1>0, <2>3, n \in Nat, g \in Nat
  <2>10. pc' \notin {"test", "load", "store"}
    BY <1>1
  <2> QED
    BY ONLY ZenonT(30), <1>1, <2>1, <2>2, <2>3, <2>8, <2>9, <2>10
<1> QED
    BY <1>4, <1>5, <1>6, <1>7 DEF IInv

LEMMA WrapIInv == ASSUME IInv, Wrap PROVE IInv'
<1>0. InbSize \in Nat \ {0} /\ Indexes
    BY SizeAssumption DEF IInv
<1>1. /\ ~stray /\ pc = "wrap" /\ pc' = "idle" /\ inb_read' = 0
      /\ UNCHANGED <<ld, inb, inb_write, stream, overrun, typed, got, reg>>
    BY DEF Wrap, At, ring
<1>2. TypeOK'
    BY <1>0, <1>1 DEF IInv, TypeOK, ld, Steps
<1>3. LineKept'
    BY <1>1, LineQuiet DEF ld
<1>4. Indexes'
    BY ZenonT(30), <1>0, <1>1 DEF Indexes
<1>5. Intact'
  <2>1. Base = 0 /\ Base' = 0 /\ Held = 0 /\ Held' = 0 /\ stray' = stray
    BY ZenonT(30), <1>0, <1>1 DEF Base, Held, Indexes, ld
  <2>2. ASSUME ~overrun PROVE Holds(inb, inb_write, Base, stream, Len(got) - Held)'
    <3>1. Holds(inb, inb_write, Base, stream, Len(got) - Held)
        BY <1>1, <2>2 DEF IInv, Intact
    <3> QED
        BY ONLY ZenonT(30), <1>1, <2>1, <3>1 DEF Holds
  <2> QED
    BY <1>1, <2>1, <2>2 DEF IInv, Intact
<1> QED
    BY <1>2, <1>3, <1>4, <1>5 DEF IInv

LEMMA NextIInv == IInv /\ [Next]_vars => IInv'
<1> SUFFICES ASSUME IInv, [Next]_vars PROVE IInv'
    OBVIOUS
<1>1. ASSUME UNCHANGED vars PROVE IInv'
  <2>1. UNCHANGED <<ld, inb, inb_write, inb_read, pc, reg, stream, got, overrun, typed>>
    BY <1>1 DEF vars, ring
  <2>2. LineKept'
    BY <2>1, LineQuiet DEF ld
  <2>3. TypeOK'
    BY ZenonT(30), <2>1 DEF IInv, TypeOK, ld
  <2>4. Indexes' /\ Intact'
    BY <2>1 DEF IInv, Indexes, Intact, Holds, Base, Held, Cell, Dist, ld
  <2> QED
    BY <2>2, <2>3, <2>4 DEF IInv
<1> QED
    BY <1>1, ReceiveIInv, ModesIInv, QuietIInv, LoadIInv, StoreIInv, WrapIInv DEF Next
-----------------------------------------------------------------------------
(* The theorems. *)

LEMMA Inductive == Spec => []IInv
    BY InitIInv, NextIInv, PTL DEF Spec

\* Every index stays inside the ring it belongs to, with two exceptions: inb_read
\* is one past the end before tty_read_inb resets it, and tail is -1 after an erase
\* at the start of the line discipline's buffer.
THEOREM TypeCorrect == Spec => []TypeOK
<1>1. IInv => TypeOK
    BY DEF IInv
<1> QED
    BY <1>1, Inductive, PTL

\* The line discipline's ring holds the line as typed and edited, whatever is
\* typed and wherever the line lies in the buffer.
THEOREM LineIsKept == Spec => []LineKept
<1>1. IInv => LineKept
    BY DEF IInv
<1> QED
    BY <1>1, Inductive, PTL

\* The reader gets what was typed, in order, nothing lost and nothing twice,
\* although it takes no lock and the interrupt may fall between any two of its
\* accesses: as long as the ring was never asked to hold more than it can.
THEOREM ReadInOrder == Spec => []ReadsWhatWasTyped
<1>1. IInv => ReadsWhatWasTyped
  <2> SUFFICES ASSUME IInv, ~overrun, ~stray
               PROVE  Len(got) <= Len(stream) /\ got = SubSeq(stream, 1, Len(got))
    BY DEF ReadsWhatWasTyped
  <2>1. /\ Len(got) \in Nat /\ Len(stream) \in Nat /\ Len(got) <= Len(stream)
        /\ \A i \in 1..Len(got) : got[i] = stream[i]
    BY IntactFacts
  <2>2. got = [i \in 1..Len(got) |-> got[i]]
    BY DEF IInv, TypeOK
  <2>3. PICK n \in Nat, g \in Nat : n = Len(stream) /\ g = Len(got) /\ g <= n
    BY ONLY <2>1
  <2>4. SubSeq(stream, 1, g) = [i \in 1..g |-> stream[i]]
    <3>1. stream \in Seq(Key)
        BY DEF IInv, TypeOK
    <3> QED
        BY ONLY <2>3, <3>1
  <2>5. got = SubSeq(stream, 1, Len(got))
    BY ONLY ZenonT(30), <2>1, <2>2, <2>3, <2>4
  <2> QED
    BY <2>1, <2>5
<1> QED
    BY <1>1, Inductive, PTL

\* A reader that finds the ring empty has read everything that was handed over:
\* between two calls the distance of the indexes is the number of characters
\* still to be read.
THEOREM RingCountsRight == Spec => []NothingLeftBehind
<1>1. IInv => NothingLeftBehind
  <2> SUFFICES ASSUME IInv, ~overrun, ~stray, pc \in {"idle", "index"}
               PROVE  (inb_write - inb_read + InbSize) % InbSize = Len(stream) - Len(got)
    BY DEF NothingLeftBehind
  <2>1. /\ InbSize \in Nat \ {0} /\ inb_read \in 0..InbSize - 1 /\ inb_write \in 0..InbSize - 1
    BY SizeAssumption DEF IInv, TypeOK, Indexes
  <2>2. Held = 0 /\ Base = inb_read
    BY <2>1 DEF Held, Base
  <2>3. Dist(inb_write, inb_read) = Len(stream) - Len(got)
    <3>1. Len(got) \in Nat /\ Dist(inb_write, Base) = Len(stream) - (Len(got) - Held)
        BY IntactFacts
    <3> QED
        BY ONLY <2>2, <3>1
  <2>4. PICK x \in Nat : x = inb_write - inb_read + InbSize /\ x < 2 * InbSize
    BY ONLY <2>1
  <2>5. x % InbSize = IF x < InbSize THEN x ELSE x - InbSize
    BY ZenonT(30), <2>1, <2>4, Remainder
  <2> QED
    BY ONLY <2>1, <2>3, <2>4, <2>5 DEF Dist
<1> QED
    BY <1>1, Inductive, PTL
=============================================================================
