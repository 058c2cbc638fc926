------------------------ MODULE CircularBufferProofs ------------------------
(***************************************************************************)
(* Proofs about the circular buffer of util/lists.c, for every capacity.   *)
(***************************************************************************)
EXTENDS CircularBuffer, TLAPS

IInv == TypeOK /\ OffsetsAgree

LEMMA Concat ==
    ASSUME NEW S, NEW a \in Seq(S), NEW b \in Seq(S)
    PROVE  /\ a \o b \in Seq(S)
           /\ Len(a \o b) = Len(a) + Len(b)
           /\ \A i \in 1..Len(a) + Len(b) :
                (a \o b)[i] = IF i <= Len(a) THEN a[i] ELSE b[i - Len(a)]
    OBVIOUS

LEMMA Part ==
    ASSUME NEW S, NEW s \in Seq(S), NEW k \in 1..Len(s) + 1, NEW m \in 0..Len(s), k <= m + 1
    PROVE  /\ SubSeq(s, k, m) \in Seq(S)
           /\ Len(SubSeq(s, k, m)) = m - k + 1
           /\ \A i \in 1..m - k + 1 : SubSeq(s, k, m)[i] = s[k + i - 1]
    OBVIOUS


LEMMA SeqIsFunction ==
    ASSUME NEW S, NEW s \in Seq(S) PROVE s = [i \in 1..Len(s) |-> s[i]]
    OBVIOUS


LEMMA InputSeq == ASSUME NEW src \in Inputs PROVE src \in Seq(Byte) /\ Len(src) \in Nat
    BY DEF Inputs


LEMMA InitIInv == Init => IInv
<1> SUFFICES ASSUME Init PROVE IInv
    OBVIOUS
<1>1. dataOut \in [1..0 -> Byte]
    BY DEF Init
<1> QED
    BY <1>1, SizeAssumption DEF Init, IInv, TypeOK, OffsetsAgree

\* A push leaves the offsets and the size consistent, and stores bytes.
LEMMA PushIInv ==
    ASSUME IInv, NEW src \in Inputs, CircularBufferPush(src)
    PROVE  IInv'
<1> DEFINE s == SubSeq(src, IF Len(src) > size THEN Len(src) - size + 1 ELSE 1, Len(src))
<1> DEFINE n == Len(s)
<1>1. src \in Seq(Byte) /\ Len(src) \in Nat /\ Len(src) > 0
    BY DEF Inputs, CircularBufferPush
<1>2. s \in Seq(Byte) /\ n \in Nat /\ n > 0 /\ n <= size
  <2>1. CASE Len(src) > size
    <3>1. Len(src) - size + 1 \in 1..Len(src)
        BY <2>1, <1>1, SizeAssumption
    <3>2. s = SubSeq(src, Len(src) - size + 1, Len(src))
        BY ZenonT(30), <2>1
    <3> QED
        BY <3>1, <3>2, <2>1, <1>1, SizeAssumption
  <2>2. CASE ~(Len(src) > size)
    <3>1. s = SubSeq(src, 1, Len(src))
        BY <2>2
    <3> QED
        BY <3>1, <2>2, <1>1, SizeAssumption
  <2> QED
    BY <2>1, <2>2
<1>3. \A i \in 1..n : s[i] \in Byte
    BY SMTT(30), <1>2
<1> HIDE DEF s
<1>4. buffer' = Written(s)
    BY DEF CircularBufferPush, s
<1>5. Written(s) \in [Places -> Byte]
  <2>1. CASE tailOffset + n < size
    BY SMTT(30), <2>1, <1>2, <1>3, SizeAssumption DEF Written, CopyIn, Places, IInv, TypeOK
  <2>2. CASE ~(tailOffset + n < size)
    <3> DEFINE remain == size - tailOffset - 1
    <3>1. remain \in Nat /\ remain <= n
        BY <2>2, <1>2, SizeAssumption DEF IInv, TypeOK
    <3>2. SubSeq(s, 1, remain) \in Seq(Byte) /\ Len(SubSeq(s, 1, remain)) = remain
          /\ \A i \in 1..remain : SubSeq(s, 1, remain)[i] \in Byte
        BY <3>1, <1>2
    <3>3. CopyIn(tailOffset + 1, SubSeq(s, 1, remain)) \in [Places -> Byte]
        BY <3>2, <3>1, SizeAssumption DEF CopyIn, Places, IInv, TypeOK
    <3>4. \A i \in Places : i < n - remain => s[remain + i + 1] \in Byte
        BY <3>1, <1>2, <1>3, SizeAssumption DEF Places
    <3> QED
        BY <3>3, <3>4, <2>2, <3>1 DEF Written
  <2> QED
    BY <2>1, <2>2
<1> DEFINE head == IF headOffset = -1 THEN 0 ELSE headOffset
<1>6. /\ tailOffset' = IF tailOffset + n < size THEN tailOffset + n
                       ELSE n - (size - tailOffset - 1) - 1
      /\ IF Overtaken(n)
           THEN /\ headOffset' = IF tailOffset' + 1 < size THEN tailOffset' + 1 ELSE 0
                /\ dataSize' = size
           ELSE /\ headOffset' = head
                /\ dataSize' = IF tailOffset' >= head THEN tailOffset' - head + 1
                               ELSE size - (head - tailOffset' - 1)
    BY ZenonT(30) DEF CircularBufferPush, s
<1>7. /\ size \in Int /\ size > 0 /\ n \in Int /\ n > 0 /\ n <= size
      /\ dataSize \in Int /\ headOffset \in Int /\ tailOffset \in Int
      /\ 0 <= dataSize /\ dataSize <= size
      /\ -1 <= headOffset /\ headOffset < size /\ -1 <= tailOffset /\ tailOffset < size
    BY <1>2, SizeAssumption DEF IInv, TypeOK
<1> HIDE DEF n
<1>8. tailOffset' \in Int /\ 0 <= tailOffset' /\ tailOffset' < size
    BY <1>6, <1>7
<1>9. /\ headOffset' \in Int /\ 0 <= headOffset' /\ headOffset' < size
      /\ dataSize' \in Int /\ 0 < dataSize' /\ dataSize' <= size
      /\ tailOffset' = Wrap(headOffset' + dataSize' - 1)
  <2>1. CASE Overtaken(n)
    BY <2>1, <1>6, <1>7, <1>8 DEF Wrap
  <2>2. CASE ~Overtaken(n)
    <3>1. CASE headOffset = -1
        BY <3>1, <2>2, <1>6, <1>7, <1>8 DEF Wrap
    <3>2. CASE headOffset # -1
        BY <3>2, <2>2, <1>6, <1>7, <1>8 DEF Wrap
    <3> QED
        BY <3>1, <3>2
  <2> QED
    BY <2>1, <2>2
<1>10. headOffset' \in -1..size - 1 /\ tailOffset' \in -1..size - 1 /\ dataSize' \in 0..size
    BY <1>7, <1>8, <1>9
<1>11. OffsetsAgree'
  <2>1. dataSize' # 0 /\ headOffset' # -1 /\ tailOffset' # -1
    BY <1>8, <1>9
  <2> QED
    BY ZenonT(30), <2>1, <1>9 DEF OffsetsAgree, Wrap
<1>12. dataOut' = dataOut
    BY DEF CircularBufferPush
<1> QED
    BY <1>4, <1>5, <1>10, <1>11, <1>12 DEF IInv, TypeOK

\* A pop or a read leaves the offsets and the size consistent, and returns
\* bytes, at most as many as there are.
LEMMA ReadIInv ==
    ASSUME IInv, NEW length \in Nat, NEW resetHead \in BOOLEAN,
           inter_circularBuffer_read(length, resetHead)
    PROVE  IInv'
<1> DEFINE rdLen == IF dataSize < length THEN dataSize ELSE length
<1>1. /\ size \in Int /\ size > 0 /\ rdLen \in Nat /\ rdLen <= dataSize
      /\ dataSize \in Int /\ headOffset \in Int /\ tailOffset \in Int
      /\ 0 <= dataSize /\ dataSize <= size
      /\ -1 <= headOffset /\ headOffset < size /\ -1 <= tailOffset /\ tailOffset < size
    BY SizeAssumption DEF IInv, TypeOK
<1>2. buffer' = buffer
    BY DEF inter_circularBuffer_read
<1>3. CASE rdLen = 0
  <2>1. dataOut' \in [1..0 -> Byte] /\ UNCHANGED <<dataSize, headOffset, tailOffset>>
    BY <1>3 DEF inter_circularBuffer_read
  <2>2. OffsetsAgree'
    BY <2>1 DEF IInv, OffsetsAgree, Wrap
  <2>3. \E m \in 0..size : dataOut' \in [1..m -> Byte]
    BY <2>1, <1>1
  <2> QED
    BY <2>1, <2>2, <2>3, <1>2 DEF IInv, TypeOK
<1>4. CASE rdLen # 0
  <2>1. /\ dataOut' = Fetched(rdLen)
        /\ IF resetHead
             THEN Taken(rdLen) /\ dataSize' = dataSize - rdLen
             ELSE UNCHANGED <<headOffset, tailOffset, dataSize>>
    BY <1>4 DEF inter_circularBuffer_read
  <2>2. 0 < rdLen /\ 0 <= headOffset /\ 0 <= tailOffset
        /\ tailOffset = Wrap(headOffset + dataSize - 1)
    BY <1>1, <1>4 DEF IInv, OffsetsAgree
  <2> HIDE DEF rdLen
  <2>3. Fetched(rdLen) \in [1..rdLen -> Byte]
    <3>1. CASE headOffset <= tailOffset \/ headOffset + rdLen <= size
      <4>1. headOffset + rdLen <= size
        BY <3>1, <2>2, <1>1 DEF Wrap
      <4>2. \A i \in 1..rdLen : buffer[headOffset + i - 1] \in Byte
        BY <4>1, <2>2, <1>1 DEF IInv, TypeOK, Places
      <4> QED
        BY <4>2, <3>1 DEF Fetched, CopyOut
    <3>2. CASE ~(headOffset <= tailOffset \/ headOffset + rdLen <= size)
      <4> DEFINE f == size - headOffset
      <4>1. f \in Nat /\ rdLen - f \in Nat /\ rdLen - f <= size
        BY <3>2, <2>2, <1>1
      <4>2. \A i \in 1..f : buffer[headOffset + i - 1] \in Byte
        BY <2>2, <1>1 DEF IInv, TypeOK, Places
      <4>3. \A i \in 1..rdLen - f : buffer[0 + i - 1] \in Byte
        BY <4>1, <2>2, <1>1 DEF IInv, TypeOK, Places
      <4>4. CopyOut(headOffset, f) \in Seq(Byte) /\ Len(CopyOut(headOffset, f)) = f
        BY <4>1, <4>2 DEF CopyOut
      <4>5. CopyOut(0, rdLen - f) \in Seq(Byte) /\ Len(CopyOut(0, rdLen - f)) = rdLen - f
        BY <4>1, <4>3 DEF CopyOut
      <4>6. Fetched(rdLen) = CopyOut(headOffset, f) \o CopyOut(0, rdLen - f)
        BY <3>2 DEF Fetched
      <4>7. f + (rdLen - f) = rdLen
        BY <1>1
      <4>8. Fetched(rdLen) \in Seq(Byte) /\ Len(Fetched(rdLen)) = f + (rdLen - f)
        BY ZenonT(30), <4>4, <4>5, <4>6, Concat
      <4> QED
        BY <4>7, <4>8
    <3> QED
      BY <3>1, <3>2
  <2>4. \E m \in 0..size : dataOut' \in [1..m -> Byte]
    BY <2>1, <2>3, <1>1
  <2>5. CASE ~resetHead
    <3>1. UNCHANGED <<headOffset, tailOffset, dataSize>>
      BY <2>1, <2>5
    <3>2. OffsetsAgree'
      BY <3>1 DEF IInv, OffsetsAgree, Wrap
    <3> QED
      BY <3>1, <3>2, <2>4, <1>2 DEF IInv, TypeOK
  <2>6. CASE resetHead
    <3>1. Taken(rdLen) /\ dataSize' = dataSize - rdLen
      BY <2>1, <2>6
    <3>2. /\ headOffset' \in -1..size - 1 /\ tailOffset' \in -1..size - 1
          /\ dataSize' \in 0..size
      BY <3>1, <2>2, <1>1 DEF Taken, Empty, MoveTo, Wrap
    <3>3. IF dataSize' = 0
            THEN headOffset' = -1 /\ tailOffset' = -1
            ELSE /\ headOffset' # -1 /\ tailOffset' # -1
                 /\ tailOffset' = Wrap(headOffset' + dataSize' - 1)
      BY <3>1, <2>2, <1>1 DEF Taken, Empty, MoveTo, Wrap
    <3>4. OffsetsAgree'
      BY <3>3 DEF OffsetsAgree, Wrap
    <3> QED
      BY <3>2, <3>4, <2>4, <1>2 DEF IInv, TypeOK
  <2> QED
    BY <2>5, <2>6
<1> QED
    BY <1>3, <1>4

LEMMA NextIInv == IInv /\ [Next]_vars => IInv'
<1> SUFFICES ASSUME IInv, [Next]_vars PROVE IInv'
    OBVIOUS
<1>1. CASE CircularBufferReset
  <2>1. /\ headOffset' = -1 /\ tailOffset' = -1 /\ dataSize' = 0
        /\ UNCHANGED <<buffer, dataOut>>
    BY <1>1 DEF CircularBufferReset
  <2> QED
    BY <2>1, SizeAssumption DEF IInv, TypeOK, OffsetsAgree
<1>2. ASSUME NEW s \in Inputs, CircularBufferPush(s) PROVE IInv'
    BY <1>2, PushIInv
<1>3. ASSUME NEW n \in 0..MaxLen, CircularBufferRead(n) \/ CircularBufferPop(n)
      PROVE  IInv'
  <2>1. n \in Nat
    BY SizeAssumption
  <2> QED
    BY ZenonT(30), <2>1, <1>3, ReadIInv DEF CircularBufferRead, CircularBufferPop
<1>4. CASE UNCHANGED vars
  <2>1. UNCHANGED <<buffer, dataSize, headOffset, tailOffset, dataOut>>
    BY <1>4 DEF vars
  <2> QED
    BY <2>1 DEF IInv, TypeOK, OffsetsAgree, Wrap
<1> QED
    BY <1>1, <1>2, <1>3, <1>4 DEF Next

LEMMA Invariant == Spec => []IInv
    BY InitIInv, NextIInv, PTL DEF Spec

\* No operation moves an offset outside the array of CircularBufferCreate.
THEOREM TypeCorrect == Spec => []TypeOK
    BY Invariant, PTL DEF IInv

\* Push and pop keep headOffset, tailOffset and dataSize consistent.
THEOREM OffsetsCorrect == Spec => []OffsetsAgree
    BY Invariant, PTL DEF IInv
-----------------------------------------------------------------------------
(* The refinement: every step is a step of the bounded queue.              *)

\* The copy of push in one or two pieces writes s behind the tail, round the
\* end of the array, and touches nothing else.
LEMMA WrittenAt ==
    ASSUME IInv, NEW s \in Seq(Byte), NEW n \in 1..size, n = Len(s)
    PROVE  /\ \A j \in 1..n : Written(s)[Wrap(tailOffset + j)] = s[j]
           /\ \A i \in Places :
                (IF tailOffset + n < size THEN i <= tailOffset \/ i > tailOffset + n
                 ELSE i <= tailOffset /\ i > tailOffset + n - size)
                => Written(s)[i] = buffer[i]
<1>1. /\ size \in Int /\ size > 0 /\ n \in Int /\ n > 0 /\ n <= size
      /\ tailOffset \in Int /\ -1 <= tailOffset /\ tailOffset < size
    BY SizeAssumption DEF IInv, TypeOK
<1>2. CASE tailOffset + n < size
  <2>1. Written(s) = CopyIn(tailOffset + 1, s)
    BY <1>2 DEF Written
  <2>2. \A i \in Places : Written(s)[i] =
            IF i \in tailOffset + 1..tailOffset + 1 + n - 1
              THEN s[i - (tailOffset + 1) + 1] ELSE buffer[i]
    BY <2>1 DEF CopyIn
  <2>4. ASSUME NEW j \in 1..n PROVE Written(s)[Wrap(tailOffset + j)] = s[j]
    <3> DEFINE p == tailOffset + j
    <3>1. /\ Wrap(p) = p /\ p \in Places /\ p - (tailOffset + 1) + 1 = j
          /\ p \in tailOffset + 1..tailOffset + 1 + n - 1
      BY <1>1, <1>2 DEF Wrap, Places
    <3> HIDE DEF p
    <3>2. Written(s)[Wrap(p)] = s[j]
      BY <3>1, <2>2
    <3> QED
      BY <3>2 DEF p
  <2> QED
    BY <2>2, <2>4, <1>1, <1>2 DEF Places
<1>3. CASE ~(tailOffset + n < size)
  <2> DEFINE remain == size - tailOffset - 1
             r == SubSeq(s, 1, remain)
  <2>1. remain \in Nat /\ remain <= n
    BY <1>1, <1>3
  <2>2. Len(r) = remain /\ \A i \in 1..remain : r[i] = s[i]
    <3>1. remain \in 0..Len(s) /\ 1 \in 1..Len(s) + 1 /\ 1 <= remain + 1
      BY <2>1, <1>1
    <3>2. Len(r) = remain - 1 + 1 /\ \A i \in 1..remain - 1 + 1 : r[i] = s[1 + i - 1]
      BY <3>1, Part
    <3>3. \A i \in 1..remain : 1 + i - 1 = i
      BY <2>1
    <3>4. remain - 1 + 1 = remain
      BY <2>1
    <3> QED
      BY ZenonT(30), <3>2, <3>3, <3>4
  <2> HIDE DEF r
  <2>3. \A i \in Places : CopyIn(tailOffset + 1, r)[i] =
            IF i \in tailOffset + 1..tailOffset + 1 + remain - 1
              THEN r[i - (tailOffset + 1) + 1] ELSE buffer[i]
    BY <2>2 DEF CopyIn
  <2>4. \A i \in Places : Written(s)[i] =
            IF i < n - remain THEN s[remain + i + 1] ELSE CopyIn(tailOffset + 1, r)[i]
    BY <1>3 DEF Written, r
  <2> HIDE DEF remain
  <2>5. remain = size - tailOffset - 1
    BY DEF remain
  <2>6. ASSUME NEW j \in 1..n PROVE Written(s)[Wrap(tailOffset + j)] = s[j]
    <3>1. CASE j <= remain
      <4> DEFINE p == tailOffset + j
      <4>1. /\ Wrap(p) = p /\ p \in Places /\ ~(p < n - remain)
            /\ p \in tailOffset + 1..tailOffset + 1 + remain - 1
            /\ p - (tailOffset + 1) + 1 = j
        BY <3>1, <2>5, <2>1, <1>1 DEF Wrap, Places
      <4>2. j \in 1..remain
        BY <3>1, <2>1
      <4> HIDE DEF p
      <4>3. Written(s)[Wrap(p)] = s[j]
        BY <4>1, <4>2, <2>2, <2>3, <2>4
      <4> QED
        BY <4>3 DEF p
    <3>2. CASE j > remain
      <4> DEFINE p == j - remain - 1
      <4>1. Wrap(tailOffset + j) = p
        BY <3>2, <2>5, <2>1, <1>1 DEF Wrap
      <4>2. p \in Places /\ p < n - remain /\ remain + p + 1 = j
        BY <3>2, <2>5, <2>1, <1>1 DEF Places
      <4> HIDE DEF p
      <4>3. Written(s)[p] = s[j]
        BY <4>2, <2>4
      <4> QED
        BY <4>1, <4>3
    <3> QED
      BY <3>1, <3>2, <2>1, <1>1
  <2>7. ASSUME NEW i \in Places, i <= tailOffset, i > tailOffset + n - size
        PROVE  Written(s)[i] = buffer[i]
    <3>1. i \in Int /\ ~(i < n - remain) /\ i \notin tailOffset + 1..tailOffset + 1 + remain - 1
      BY <2>7, <2>5, <2>1, <1>1 DEF Places
    <3> QED
      BY <3>1, <2>3, <2>4
  <2> QED
    BY <2>6, <2>7, <1>3
<1> QED
    BY <1>2, <1>3

\* The arithmetic of push: sz, d, h and t are the size, dataSize and the
\* offsets before it, t2 is the tail after n bytes.
LEMMA PushArithmetic ==
    ASSUME NEW sz \in Int, NEW d \in Int, NEW h \in Int, NEW t \in Int, NEW n \in Int,
           NEW t2 \in Int, 0 < n, n <= sz, 0 <= d, d <= sz, -1 <= h, h < sz, -1 <= t, t < sz,
           d = 0 => h = -1 /\ t = -1,
           d # 0 => 0 <= h /\ 0 <= t /\ t = IF h + d - 1 < sz THEN h + d - 1 ELSE h + d - 1 - sz,
           t2 = IF t + n < sz THEN t + n ELSE t + n - sz
    PROVE  /\ (IF t2 + 1 < sz THEN t2 + 1 ELSE 0) = (IF t2 + 1 < sz THEN t2 + 1 ELSE t2 + 1 - sz)
           /\ d + n <= sz =>
                LET hd == IF h = -1 THEN 0 ELSE h
                IN /\ hd = (IF d = 0 THEN 0 ELSE h)
                   /\ d + n = (IF t2 >= hd THEN t2 - hd + 1 ELSE sz - (hd - t2 - 1))
<1>1. 0 <= t2 /\ t2 < sz
    OBVIOUS
<1>2. CASE d = 0
    BY <1>1, <1>2
<1>3. CASE d # 0
    BY <1>1, <1>3
<1> QED
    BY <1>2, <1>3


\* What a push does to the offsets, as arithmetic: the tail advances by n
\* round the end, and of the dataSize + n bytes the newest size are kept.
LEMMA PushOffsets ==
    ASSUME IInv, NEW src \in Inputs, NEW n \in 1..size,
           Len(src) > size => n = size, ~(Len(src) > size) => n = Len(src),
           CircularBufferPush(src)
    PROVE  /\ tailOffset' = Wrap(tailOffset + n)
           /\ dataSize' = IF dataSize + n > size THEN size ELSE dataSize + n
           /\ dataSize + n <= size =>
                headOffset' = IF dataSize = 0 THEN 0 ELSE headOffset
           /\ dataSize + n > size => headOffset' = Wrap(Wrap(tailOffset + n) + 1)
<1> DEFINE s == SubSeq(src, IF Len(src) > size THEN Len(src) - size + 1 ELSE 1, Len(src))
<1> DEFINE head == IF headOffset = -1 THEN 0 ELSE headOffset
<1>1. /\ size \in Int /\ size > 0 /\ n \in Int /\ n > 0 /\ n <= size
      /\ dataSize \in Int /\ headOffset \in Int /\ tailOffset \in Int
      /\ 0 <= dataSize /\ dataSize <= size
      /\ -1 <= headOffset /\ headOffset < size /\ -1 <= tailOffset /\ tailOffset < size
    BY SizeAssumption DEF IInv, TypeOK
<1>2. Len(s) = n
  <2>1. src \in Seq(Byte) /\ Len(src) \in Nat
    BY InputSeq
  <2>2. CASE Len(src) > size
    <3>1. Len(src) - size + 1 \in 1..Len(src) + 1 /\ Len(src) \in 0..Len(src)
          /\ Len(src) - size + 1 <= Len(src) + 1
          /\ Len(src) - (Len(src) - size + 1) + 1 = size
      BY <2>2, <2>1, <1>1
    <3> QED
      BY <3>1, <2>1, <2>2, Part
  <2>3. CASE ~(Len(src) > size)
    BY <2>1, <2>3
  <2> QED
    BY <2>2, <2>3
<1>3. /\ tailOffset' = IF tailOffset + n < size THEN tailOffset + n
                       ELSE n - (size - tailOffset - 1) - 1
      /\ IF Overtaken(n)
           THEN /\ headOffset' = IF tailOffset' + 1 < size THEN tailOffset' + 1 ELSE 0
                /\ dataSize' = size
           ELSE /\ headOffset' = head
                /\ dataSize' = IF tailOffset' >= head THEN tailOffset' - head + 1
                               ELSE size - (head - tailOffset' - 1)
    BY <1>2 DEF CircularBufferPush
<1>4. tailOffset' = Wrap(tailOffset + n)
    BY <1>1, <1>3 DEF Wrap
<1>5. IF dataSize = 0 THEN headOffset = -1 /\ tailOffset = -1
      ELSE 0 <= headOffset /\ 0 <= tailOffset /\ tailOffset = Wrap(headOffset + dataSize - 1)
    BY <1>1 DEF IInv, OffsetsAgree
<1>6. Overtaken(n) <=> dataSize + n > size
    BY <1>1, <1>5 DEF Overtaken, Wrap
<1>7. tailOffset' \in Int /\ 0 <= tailOffset' /\ tailOffset' < size
    BY <1>1, <1>3
<1>8. /\ (IF tailOffset' + 1 < size THEN tailOffset' + 1 ELSE 0) = Wrap(tailOffset' + 1)
      /\ dataSize + n <= size =>
            /\ head = (IF dataSize = 0 THEN 0 ELSE headOffset)
            /\ dataSize + n = (IF tailOffset' >= head THEN tailOffset' - head + 1
                               ELSE size - (head - tailOffset' - 1))
  <2>1. tailOffset' = IF tailOffset + n < size THEN tailOffset + n ELSE tailOffset + n - size
    BY <1>4, <1>1 DEF Wrap
  <2>2. /\ dataSize = 0 => headOffset = -1 /\ tailOffset = -1
        /\ dataSize # 0 => /\ 0 <= headOffset /\ 0 <= tailOffset
                          /\ tailOffset = IF headOffset + dataSize - 1 < size
                                            THEN headOffset + dataSize - 1
                                            ELSE headOffset + dataSize - 1 - size
    BY <1>5, <1>1 DEF Wrap
  <2> QED
    BY <2>1, <2>2, <1>1, <1>7, PushArithmetic DEF Wrap
<1>9. CASE dataSize + n > size
  <2>1. dataSize' = size /\ headOffset' = IF tailOffset' + 1 < size THEN tailOffset' + 1 ELSE 0
    BY <1>9, <1>6, <1>3
  <2>2. ~(dataSize + n <= size)
    BY <1>9, <1>1
  <2> QED
    BY <2>1, <2>2, <1>4, <1>8, <1>9
<1>10. CASE ~(dataSize + n > size)
  <2>1. /\ headOffset' = head
        /\ dataSize' = IF tailOffset' >= head THEN tailOffset' - head + 1
                       ELSE size - (head - tailOffset' - 1)
    BY <1>10, <1>6, <1>3
  <2>2. dataSize + n <= size
    BY <1>10, <1>1
  <2> HIDE DEF head
  <2> QED
    BY <2>1, <2>2, <1>4, <1>8, <1>10
<1> QED
    BY <1>9, <1>10

LEMMA ContentsSeq ==
    ASSUME IInv
    PROVE  /\ Contents \in Seq(Byte) /\ Len(Contents) = dataSize
           /\ \A i \in 1..dataSize : Contents[i] = buffer[Wrap(headOffset + i - 1)]
<1>1. dataSize \in Nat
    BY DEF IInv, TypeOK
<1>2. ASSUME NEW i \in 1..dataSize PROVE buffer[Wrap(headOffset + i - 1)] \in Byte
  <2>1. Wrap(headOffset + i - 1) \in Places
    BY SizeAssumption DEF IInv, TypeOK, OffsetsAgree, Wrap, Places
  <2> QED
    BY <2>1 DEF IInv, TypeOK
<1> QED
    BY <1>1, <1>2 DEF Contents

\* A push makes the contents the newest bytes of the old ones followed by src.
LEMMA PushImplements ==
    ASSUME IInv, IInv', NEW src \in Inputs, CircularBufferPush(src)
    PROVE  Contents' = Queue!Newest(Contents \o src, size)
<1> DEFINE l == Len(src)
           n == IF l > size THEN size ELSE l
           s == SubSeq(src, IF l > size THEN l - size + 1 ELSE 1, l)
           q == Contents \o src
           m == dataSize'
           off == m - n
<1>1. src \in Seq(Byte) /\ l \in Nat /\ l > 0 /\ size \in Nat /\ size > 0 /\ dataSize \in Nat
    BY InputSeq, SizeAssumption DEF CircularBufferPush, IInv, TypeOK
<1>2. n \in 1..size /\ (l > size => n = size) /\ (~(l > size) => n = l)
    BY <1>1
<1>3. /\ tailOffset' = Wrap(tailOffset + n)
      /\ m = IF dataSize + n > size THEN size ELSE dataSize + n
      /\ dataSize + n <= size => headOffset' = IF dataSize = 0 THEN 0 ELSE headOffset
      /\ dataSize + n > size => headOffset' = Wrap(Wrap(tailOffset + n) + 1)
    BY <1>2, PushOffsets
<1>4. s \in Seq(Byte) /\ Len(s) = n /\ \A j \in 1..n : s[j] = src[l - n + j]
  <2> HIDE DEF n
  <2> DEFINE k == l - n + 1
  <2>1. k \in 1..Len(src) + 1 /\ l \in 0..Len(src) /\ k <= l + 1 /\ l - k + 1 = n
    BY <1>1, <1>2
  <2>0. (IF l > size THEN l - size + 1 ELSE 1) = k
    BY <1>1, <1>2
  <2>2. s = SubSeq(src, k, l)
    BY ZenonT(30), <2>0
  <2> HIDE DEF k, s
  <2>3. /\ s \in Seq(Byte) /\ Len(s) = l - k + 1
        /\ \A j \in 1..l - k + 1 : s[j] = src[k + j - 1]
    BY <2>1, <2>2, <1>1, Part
  <2>4. \A j \in 1..n : k + j - 1 = l - n + j
    BY <1>1, <1>2 DEF k
  <2> QED
    BY ZenonT(30), <2>1, <2>3, <2>4
<1>5. buffer' = Written(s)
    BY DEF CircularBufferPush
<1> HIDE DEF n, s, m
<1>6. /\ \A j \in 1..n : buffer'[Wrap(tailOffset + j)] = s[j]
      /\ \A i \in Places :
           (IF tailOffset + n < size THEN i <= tailOffset \/ i > tailOffset + n
            ELSE i <= tailOffset /\ i > tailOffset + n - size)
           => buffer'[i] = buffer[i]
    BY <1>2, <1>4, <1>5, WrittenAt
<1>7. /\ q \in Seq(Byte) /\ Len(q) = dataSize + l
      /\ \A i \in 1..dataSize + l : q[i] = IF i <= dataSize THEN Contents[i] ELSE src[i - dataSize]
  <2>1. Contents \in Seq(Byte) /\ Len(Contents) = dataSize
    BY ContentsSeq
  <2> QED
    BY ZenonT(30), <2>1, <1>1, Concat
<1> HIDE DEF q, l
<1>8. /\ m \in Nat /\ m > 0 /\ m <= size /\ m <= dataSize + l /\ n <= m
      /\ (m > n => n = l)
      /\ m = IF dataSize + l > size THEN size ELSE dataSize + l
    BY <1>1, <1>2, <1>3
<1>9. ASSUME NEW i \in 1..m
      PROVE  buffer'[Wrap(headOffset' + i - 1)] = q[dataSize + l - m + i]
  <2>1. /\ dataSize \in Int /\ headOffset \in Int /\ tailOffset \in Int /\ headOffset' \in Int
        /\ 0 <= dataSize /\ dataSize <= size /\ i \in Int /\ 1 <= i /\ i <= m /\ m \in Int
        /\ -1 <= headOffset /\ headOffset < size /\ -1 <= tailOffset /\ tailOffset < size
        /\ size \in Int /\ n \in Int /\ 0 < n /\ n <= size
    BY <1>1, <1>2, <1>8 DEF IInv, TypeOK
  <2>2. /\ dataSize = 0 => headOffset = -1 /\ tailOffset = -1
        /\ dataSize # 0 => 0 <= headOffset /\ 0 <= tailOffset
                           /\ tailOffset = Wrap(headOffset + dataSize - 1)
    BY <2>1 DEF IInv, OffsetsAgree
  <2>3. /\ dataSize + n > size => m = size /\ headOffset' = Wrap(Wrap(tailOffset + n) + 1)
        /\ dataSize + n <= size => m = dataSize + n
                                   /\ headOffset' = (IF dataSize = 0 THEN 0 ELSE headOffset)
    BY <2>1, <1>3
  <2>4. i > off => Wrap(headOffset' + i - 1) = Wrap(tailOffset + (i - off))
    <3>1. CASE dataSize = 0
      <4>1. m = n /\ headOffset' = 0 /\ tailOffset = -1
        BY <2>1, <2>2, <2>3, <3>1
      <4>2. tailOffset + (i - off) = headOffset' + i - 1
        BY <4>1, <2>1
      <4> QED
        BY <4>2, Zenon
    <3>2. CASE dataSize # 0 /\ dataSize + n > size
      <4>1. m = size /\ headOffset' = Wrap(Wrap(tailOffset + n) + 1)
        BY <2>3, <3>2
      <4> QED
        BY <4>1, <2>1, <3>2 DEF Wrap
    <3>3. CASE dataSize # 0 /\ dataSize + n <= size
      <4>1. m = dataSize + n /\ headOffset' = headOffset
            /\ tailOffset = Wrap(headOffset + dataSize - 1) /\ 0 <= tailOffset
        BY <2>2, <2>3, <3>3
      <4> QED
        BY <4>1, <2>1, <3>3 DEF Wrap
    <3> QED
      BY <3>1, <3>2, <3>3, <2>1
  <2>5. ASSUME i <= off
        PROVE  /\ dataSize # 0 /\ Wrap(headOffset' + i - 1) = Wrap(headOffset + (dataSize - off + i) - 1)
               /\ Wrap(headOffset' + i - 1) \in Places
               /\ IF tailOffset + n < size
                    THEN Wrap(headOffset' + i - 1) <= tailOffset \/ Wrap(headOffset' + i - 1) > tailOffset + n
                    ELSE /\ Wrap(headOffset' + i - 1) <= tailOffset
                         /\ Wrap(headOffset' + i - 1) > tailOffset + n - size
    <3>1. dataSize # 0
      BY <2>1, <2>3, <2>5
    <3>2. CASE dataSize + n > size
      <4>1. m = size /\ headOffset' = Wrap(Wrap(tailOffset + n) + 1)
            /\ 0 <= headOffset /\ 0 <= tailOffset /\ tailOffset = Wrap(headOffset + dataSize - 1)
        BY <2>2, <2>3, <3>1, <3>2
      <4> QED
        BY <4>1, <2>1, <2>5, <3>1, <3>2 DEF Wrap, Places
    <3>3. CASE dataSize + n <= size
      BY <2>1, <2>2, <2>3, <2>5, <3>1, <3>3 DEF Wrap, Places
    <3> QED
      BY <3>2, <3>3, <2>1
  <2>6. CASE i > off
    <3> DEFINE j == i - off
               x == dataSize + l - m + i
    <3>1. /\ j \in 1..n /\ l - n + j = x - dataSize
          /\ x \in 1..dataSize + l /\ ~(x <= dataSize)
      BY <2>6, <1>1, <1>2, <1>8
    <3> HIDE DEF j, off, x
    <3>2. Wrap(headOffset' + i - 1) = Wrap(tailOffset + j)
      BY <2>4, <2>6 DEF j
    <3>3. buffer'[Wrap(headOffset' + i - 1)] = src[l - n + j]
      BY <3>1, <3>2, <1>4, <1>6
    <3>4. buffer'[Wrap(headOffset' + i - 1)] = q[x]
      BY <3>1, <3>3, <1>7
    <3> QED
      BY <3>4 DEF x
  <2>7. CASE i <= off
    <3> DEFINE j == dataSize - off + i
               p == Wrap(headOffset' + i - 1)
    <3>1. j \in 1..dataSize /\ dataSize + l - m + i = j /\ j \in 1..dataSize + l /\ j <= dataSize
      BY <2>7, <1>1, <1>2, <1>8, <1>3
    <3>2. p = Wrap(headOffset + j - 1)
      BY <2>5, <2>7
    <3>3. /\ p \in Places
          /\ IF tailOffset + n < size THEN p <= tailOffset \/ p > tailOffset + n
             ELSE p <= tailOffset /\ p > tailOffset + n - size
      BY <2>5, <2>7
    <3> HIDE DEF j, off, p
    <3>4. buffer'[p] = Contents[j]
      BY <3>1, <3>2, <3>3, <1>6, ContentsSeq
    <3> QED
      BY <3>1, <3>4, <1>7 DEF p
  <2> QED
    BY <2>6, <2>7, <1>2, <1>8
<1>10. Contents' = [i \in 1..m |-> q[dataSize + l - m + i]]
    BY <1>9 DEF Contents, Wrap, m
<1> DEFINE k == IF Len(q) > size THEN Len(q) - size + 1 ELSE 1
<1>11. /\ k \in 1..Len(q) + 1 /\ Len(q) \in 0..Len(q) /\ k <= Len(q) + 1
       /\ Len(q) - k + 1 = m
       /\ \A i \in 1..m : k + i - 1 = dataSize + l - m + i
    BY <1>1, <1>7, <1>8 DEF l
<1> HIDE DEF k
<1>12. /\ SubSeq(q, k, Len(q)) \in Seq(Byte) /\ Len(SubSeq(q, k, Len(q))) = m
       /\ \A i \in 1..m : SubSeq(q, k, Len(q))[i] = q[dataSize + l - m + i]
    BY <1>7, <1>11, Part
<1>13. SubSeq(q, k, Len(q)) = [i \in 1..m |-> q[dataSize + l - m + i]]
    BY <1>12
<1> QED
    BY ZenonT(30), <1>10, <1>13 DEF Queue!Newest, k, q

\* A read returns the oldest bytes; a pop also removes them from the contents.
LEMMA ReadImplements ==
    ASSUME IInv, IInv', NEW length \in Nat, NEW resetHead \in BOOLEAN,
           inter_circularBuffer_read(length, resetHead)
    PROVE  /\ dataOut' = Queue!Oldest(Contents, length)
           /\ Contents' = IF resetHead
                            THEN SubSeq(Contents, Len(dataOut') + 1, Len(Contents))
                            ELSE Contents
<1> DEFINE rdLen == IF dataSize < length THEN dataSize ELSE length
<1>1. /\ Contents \in Seq(Byte) /\ Len(Contents) = dataSize
      /\ \A i \in 1..dataSize : Contents[i] = buffer[Wrap(headOffset + i - 1)]
    BY ContentsSeq
<1>2. /\ size \in Int /\ size > 0 /\ rdLen \in Nat /\ rdLen <= dataSize
      /\ dataSize \in Nat /\ headOffset \in Int /\ tailOffset \in Int
      /\ dataSize <= size
      /\ -1 <= headOffset /\ headOffset < size /\ -1 <= tailOffset /\ tailOffset < size
    BY SizeAssumption DEF IInv, TypeOK
<1>3. buffer' = buffer
    BY DEF inter_circularBuffer_read
<1>4. Queue!Oldest(Contents, length) = SubSeq(Contents, 1, rdLen)
    BY <1>1 DEF Queue!Oldest
<1>5. /\ SubSeq(Contents, 1, rdLen) \in Seq(Byte)
      /\ Len(SubSeq(Contents, 1, rdLen)) = rdLen
      /\ SubSeq(Contents, 1, rdLen) = [i \in 1..rdLen |-> Contents[i]]
    BY <1>1, <1>2
<1>6. CASE rdLen = 0
  <2>1. dataOut' = <<>> /\ UNCHANGED <<dataSize, headOffset, tailOffset>>
    BY <1>6 DEF inter_circularBuffer_read
  <2>2. Contents' = Contents
    BY <2>1, <1>3 DEF Contents, Wrap
  <2>3. dataOut' = SubSeq(Contents, 1, rdLen)
    BY <2>1, <1>5, <1>6
  <2>4. SubSeq(Contents, Len(dataOut') + 1, Len(Contents)) = Contents
    <3>1. Len(dataOut') = 0
      BY <2>1
    <3>2. SubSeq(Contents, 1, Len(Contents)) = Contents
      BY <1>1
    <3> QED
      BY <3>1, <3>2
  <2> QED
    BY ZenonT(30), <2>2, <2>3, <2>4, <1>4
<1>7. CASE rdLen # 0
  <2>1. /\ dataOut' = Fetched(rdLen)
        /\ IF resetHead
             THEN Taken(rdLen) /\ dataSize' = dataSize - rdLen
             ELSE UNCHANGED <<headOffset, tailOffset, dataSize>>
    BY <1>7 DEF inter_circularBuffer_read
  <2>2. 0 < rdLen /\ 0 <= headOffset /\ 0 <= tailOffset
        /\ tailOffset = Wrap(headOffset + dataSize - 1)
    BY <1>2, <1>7 DEF IInv, OffsetsAgree
  <2> HIDE DEF rdLen
  <2>3. Fetched(rdLen) = [i \in 1..rdLen |-> buffer[Wrap(headOffset + i - 1)]]
    <3>1. CASE headOffset <= tailOffset \/ headOffset + rdLen <= size
      <4>1. \A i \in 1..rdLen : Wrap(headOffset + i - 1) = headOffset + i - 1
        BY <3>1, <2>2, <1>2 DEF Wrap
      <4> QED
        BY ZenonT(30), <4>1, <3>1 DEF Fetched, CopyOut
    <3>2. CASE ~(headOffset <= tailOffset \/ headOffset + rdLen <= size)
      <4> DEFINE f == size - headOffset
                 a == CopyOut(headOffset, f)
                 b == CopyOut(0, rdLen - f)
      <4>1. f \in Nat /\ rdLen - f \in Nat /\ rdLen - f <= size /\ f + (rdLen - f) = rdLen
        BY <3>2, <2>2, <1>2
      <4>2. \A i \in 1..f : buffer[headOffset + i - 1] \in Byte
        BY <2>2, <1>2 DEF IInv, TypeOK, Places
      <4>3. \A i \in 1..rdLen - f : buffer[0 + i - 1] \in Byte
        BY <4>1, <2>2, <1>2 DEF IInv, TypeOK, Places
      <4>4. a \in Seq(Byte) /\ Len(a) = f /\ \A i \in 1..f : a[i] = buffer[headOffset + i - 1]
        BY <4>1, <4>2 DEF CopyOut
      <4>5. /\ b \in Seq(Byte) /\ Len(b) = rdLen - f
            /\ \A i \in 1..rdLen - f : b[i] = buffer[0 + i - 1]
        BY <4>1, <4>3 DEF CopyOut
      <4>6. Fetched(rdLen) = a \o b
        BY <3>2 DEF Fetched
      <4> HIDE DEF a, b
      <4>7. /\ a \o b \in Seq(Byte) /\ Len(a \o b) = rdLen
            /\ \A i \in 1..rdLen : (a \o b)[i] = IF i <= f THEN a[i] ELSE b[i - f]
        <5>1. Len(a) + Len(b) = rdLen
          BY <4>1, <4>4, <4>5
        <5> HIDE DEF f
        <5> QED
          BY ZenonT(30), <5>1, <4>4, <4>5, Concat
      <4>8. ASSUME NEW i \in 1..rdLen PROVE (a \o b)[i] = buffer[Wrap(headOffset + i - 1)]
        <5>1. CASE i <= f
          <6>1. i \in 1..f /\ Wrap(headOffset + i - 1) = headOffset + i - 1
            BY <5>1, <4>1, <1>2 DEF Wrap
          <6> QED
            BY <6>1, <5>1, <4>4, <4>7
        <5>2. CASE ~(i <= f)
          <6>1. i - f \in 1..rdLen - f /\ Wrap(headOffset + i - 1) = 0 + (i - f) - 1
            BY <5>2, <4>1, <1>2 DEF Wrap
          <6> QED
            BY <6>1, <5>2, <4>5, <4>7
        <5> QED
          BY ZenonT(30), <5>1, <5>2
      <4>9. a \o b = [i \in 1..rdLen |-> (a \o b)[i]]
        BY ZenonT(30), <4>7, SeqIsFunction
      <4> QED
        BY ZenonT(30), <4>6, <4>8, <4>9
    <3> QED
      BY <3>1, <3>2
  <2>4. dataOut' = SubSeq(Contents, 1, rdLen)
    <3>1. \A i \in 1..rdLen : i \in 1..dataSize
      BY <1>2
    <3> QED
      BY <3>1, <2>1, <2>3, <1>1, <1>5
  <2>5. CASE ~resetHead
    <3>1. Contents' = Contents
      BY <2>1, <2>5, <1>3 DEF Contents, Wrap
    <3> QED
      BY <3>1, <2>4, <2>5, <1>4
  <2>6. CASE resetHead
    <3>1. Taken(rdLen) /\ dataSize' = dataSize - rdLen
      BY <2>1, <2>6
    <3>2. ASSUME NEW i \in 1..dataSize - rdLen
          PROVE  /\ Wrap(headOffset' + i - 1) = Wrap(headOffset + (rdLen + i) - 1)
                 /\ rdLen + i \in 1..dataSize
      BY <3>1, <2>2, <1>2 DEF Taken, Empty, MoveTo, Wrap
    <3>3. Contents' = [i \in 1..dataSize - rdLen |-> buffer[Wrap(headOffset' + i - 1)]]
      BY <3>1, <1>3 DEF Contents, Wrap
    <3>4. Contents' = [i \in 1..dataSize - rdLen |-> Contents[rdLen + i]]
      BY <3>2, <3>3, <1>1
    <3>5. /\ SubSeq(Contents, rdLen + 1, dataSize) \in Seq(Byte)
          /\ Len(SubSeq(Contents, rdLen + 1, dataSize)) = dataSize - (rdLen + 1) + 1
          /\ \A i \in 1..dataSize - (rdLen + 1) + 1 :
               SubSeq(Contents, rdLen + 1, dataSize)[i] = Contents[(rdLen + 1) + i - 1]
      <4>1. rdLen + 1 \in 1..Len(Contents) + 1 /\ dataSize \in 0..Len(Contents)
            /\ rdLen + 1 <= dataSize + 1
        BY <1>1, <1>2
      <4> QED
        BY ONLY ZenonT(30), <4>1, <1>1, Part
    <3>6. /\ dataSize - (rdLen + 1) + 1 = dataSize - rdLen
          /\ \A i \in 1..dataSize - rdLen : (rdLen + 1) + i - 1 = rdLen + i
      BY <1>2
    <3>7. Contents' = SubSeq(Contents, rdLen + 1, dataSize)
      BY SMTT(30), <3>4, <3>5, <3>6
    <3>8. Len(dataOut') = rdLen
      BY <2>4, <1>5
    <3> QED
      BY ZenonT(30), <3>7, <3>8, <2>4, <2>6, <1>1, <1>4
  <2> QED
    BY <2>5, <2>6
<1> QED
    BY <1>6, <1>7

LEMMA InitImplements == Init => Queue!QInit
<1> SUFFICES ASSUME Init PROVE Queue!QInit
    OBVIOUS
<1>1. dataSize = 0 /\ dataOut = <<>>
    BY DEF Init
<1>2. Contents = <<>>
    BY <1>1 DEF Contents
<1> QED
    BY <1>1, <1>2 DEF Queue!QInit

LEMMA StepImplements ==
    IInv /\ IInv' /\ [Next]_vars => [Queue!QNext]_<<Contents, dataOut>>
<1> SUFFICES ASSUME IInv, IInv', [Next]_vars
             PROVE  [Queue!QNext]_<<Contents, dataOut>>
    OBVIOUS
<1>1. CASE CircularBufferReset
  <2>1. dataSize' = 0 /\ dataOut' = dataOut
    BY <1>1 DEF CircularBufferReset
  <2>2. Contents' = <<>>
    BY <2>1 DEF Contents
  <2> QED
    BY <2>1, <2>2 DEF Queue!QNext, Queue!QReset
<1>2. ASSUME NEW s \in Inputs, CircularBufferPush(s) PROVE Queue!QNext
  <2>1. dataOut' = dataOut
    BY <1>2 DEF CircularBufferPush
  <2>2. Queue!QPush(s)
    BY <1>2, <2>1, PushImplements DEF Queue!QPush
  <2>3. s \in Queue!Inputs
    BY DEF Inputs, Queue!Inputs
  <2> QED
    BY <2>2, <2>3 DEF Queue!QNext
<1>3. ASSUME NEW n \in 0..MaxLen, CircularBufferRead(n) PROVE Queue!QNext
  <2>0. n \in Nat
    BY SizeAssumption
  <2>1. inter_circularBuffer_read(n, FALSE)
    BY ZenonT(30), <1>3 DEF CircularBufferRead
  <2>2. dataOut' = Queue!Oldest(Contents, n) /\ Contents' = Contents
    BY ZenonT(30), <2>0, <2>1, ReadImplements
  <2>3. Queue!QRead(n)
    BY <2>2 DEF Queue!QRead
  <2> QED
    BY <2>3 DEF Queue!QNext
<1>4. ASSUME NEW n \in 0..MaxLen, CircularBufferPop(n) PROVE Queue!QNext
  <2>0. n \in Nat
    BY SizeAssumption
  <2>1. inter_circularBuffer_read(n, TRUE)
    BY ZenonT(30), <1>4 DEF CircularBufferPop
  <2>2. /\ dataOut' = Queue!Oldest(Contents, n)
        /\ Contents' = SubSeq(Contents, Len(dataOut') + 1, Len(Contents))
    BY ZenonT(30), <2>0, <2>1, ReadImplements
  <2>3. Queue!QPop(n)
    BY <2>2 DEF Queue!QPop
  <2> QED
    BY <2>3 DEF Queue!QNext
<1>5. CASE UNCHANGED vars
  <2>1. Contents' = Contents /\ dataOut' = dataOut
    BY <1>5 DEF vars, Contents, Wrap
  <2> QED
    BY <2>1
<1> QED
    BY <1>1, <1>2, <1>3, <1>4, <1>5 DEF Next

\* For every capacity, the circular buffer implements the queue that keeps the
\* newest bytes: push, pop and read of util/lists.c lose, duplicate and reorder
\* nothing but the oldest bytes a full buffer has no room for.
THEOREM RingImplementsQueue == Spec => Implements
<1>1. Init /\ [][Next]_vars /\ []IInv => Queue!QInit /\ [][Queue!QNext]_<<Contents, dataOut>>
    BY InitImplements, StepImplements, PTL
<1> QED
    BY <1>1, Invariant, PTL DEF Spec, Implements, Queue!QSpec
=============================================================================
