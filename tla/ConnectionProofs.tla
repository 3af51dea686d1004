-------------------------- MODULE ConnectionProofs --------------------------
(***************************************************************************)
(* Theorems of what holds connections: the two sides of a socket, for any  *)
(* sizes of the buffers and any messages, and the client of a cluster, for *)
(* any number of nodes.                                                    *)
(***************************************************************************)
EXTENDS SocketSender, SocketReceiver, RedisCluster, SequenceTheorems, FiniteSetTheorems,
        WellFoundedInduction, TLAPS

\* A ring of a size, whatever its cells hold.
Fields == {"m_size", "pBufHead", "pBufTail", "m_filledLength", "m_freeLength", "cells"}
Ring(b, size) == /\ DOMAIN b = Fields /\ b = [x \in Fields |-> b[x]]
                 /\ b.m_size = size
                 /\ b.pBufHead \in 0..size /\ b.pBufTail \in 0..size
                 /\ b.m_filledLength \in 0..size
                 /\ b.m_freeLength = size - b.m_filledLength

\* The smaller of two numbers.
LEMMA MinOfTwo == \A a, b \in Int : Min({a, b}) = IF a <= b THEN a ELSE b
<1> SUFFICES ASSUME NEW a \in Int, NEW b \in Int PROVE Min({a, b}) = IF a <= b THEN a ELSE b
  OBVIOUS
<1>1. \E x \in {a, b} : \A y \in {a, b} : x <= y
  OBVIOUS
<1> QED BY <1>1 DEF Min

\* The larger of two numbers.
LEMMA MaxOfTwo == \A a, b \in Int : Max({a, b}) = IF a <= b THEN b ELSE a
<1> SUFFICES ASSUME NEW a \in Int, NEW b \in Int PROVE Max({a, b}) = IF a <= b THEN b ELSE a
  OBVIOUS
<1>1. \E x \in {a, b} : \A y \in {a, b} : x >= y
  OBVIOUS
<1> QED BY <1>1 DEF Max

\* reset() leaves a ring.
LEMMA EmptyIsRing == \A size \in Nat : Ring(EmptyRing(size), size)
  BY DEF Ring, Fields, EmptyRing

-----------------------------------------------------------------------------
(***************************************************************************)
(* The receiving side: its ring never wraps.                               *)
(***************************************************************************)
\* What is read goes from the front on to the end of what is there: these bytes.
InLine(b, c) == /\ Ring(b, RecvSize)
                /\ b.pBufTail = b.pBufHead + b.m_filledLength
                /\ DOMAIN b.cells = 0..RecvSize - 1
                /\ c \in Seq(Byte) /\ Len(c) = b.m_filledLength
                /\ \A i \in 1..Len(c) : b.cells[b.pBufHead + i - 1] = c[i]

\* A part of a sequence, byte by byte.
LEMMA PartIs ==
    ASSUME NEW S, NEW c \in Seq(S), NEW d \in 0..Len(c)
    PROVE  LET r == SubSeq(c, d + 1, Len(c)) IN
           r \in Seq(S) /\ Len(r) = Len(c) - d /\ \A i \in 1..Len(c) - d : r[i] = c[d + i]
<1>1. Len(c) \in Nat /\ d \in Nat /\ d <= Len(c)
  BY LenProperties
<1> QED BY <1>1, SubSeqProperties

\* The numbers of a ring in line.
LEMMA LineFacts ==
    ASSUME NEW b, NEW c, InLine(b, c)
    PROVE  /\ RecvSize \in Nat /\ RecvSize > 0 /\ b.m_size = RecvSize
           /\ b.pBufHead \in Nat /\ b.pBufTail \in Nat /\ b.m_filledLength \in Nat
           /\ b.pBufTail = b.pBufHead + b.m_filledLength /\ b.pBufTail <= RecvSize
           /\ b.m_freeLength = RecvSize - b.m_filledLength
           /\ c \in Seq(Byte) /\ Len(c) = b.m_filledLength
           /\ DOMAIN b.cells = 0..RecvSize - 1
           /\ DOMAIN b = Fields /\ b = [x \in Fields |-> b[x]]
           /\ \A i \in 1..Len(c) : b.cells[b.pBufHead + i - 1] = c[i]
<1>1. RecvSize \in Nat /\ RecvSize > 0
  BY ReceiverAssumption DEF HeadLength, COM_MSG_LENGTH
<1>2. /\ b.m_size = RecvSize /\ b.pBufHead \in 0..RecvSize /\ b.pBufTail \in 0..RecvSize
      /\ b.m_filledLength \in 0..RecvSize /\ b.m_freeLength = RecvSize - b.m_filledLength
      /\ DOMAIN b = Fields /\ b = [x \in Fields |-> b[x]]
  BY DEF InLine, Ring
<1>3. /\ b.pBufTail = b.pBufHead + b.m_filledLength /\ c \in Seq(Byte) /\ Len(c) = b.m_filledLength
      /\ DOMAIN b.cells = 0..RecvSize - 1
      /\ \A i \in 1..Len(c) : b.cells[b.pBufHead + i - 1] = c[i]
  BY DEF InLine
<1>4. b.pBufHead \in Nat /\ b.pBufTail \in Nat /\ b.m_filledLength \in Nat /\ b.pBufTail <= RecvSize
  BY <1>1, <1>2
<1> QED BY <1>1, <1>2, <1>3, <1>4

\* Those of them that are numbers.
LEMMA LineNumbers ==
    ASSUME NEW b, NEW c, InLine(b, c)
    PROVE  /\ RecvSize \in Nat /\ RecvSize > 0 /\ b.m_size = RecvSize
           /\ b.pBufHead \in Nat /\ b.pBufTail \in Nat /\ b.m_filledLength \in Nat
           /\ b.pBufTail = b.pBufHead + b.m_filledLength /\ b.pBufTail <= RecvSize
           /\ b.m_freeLength = RecvSize - b.m_filledLength
           /\ c \in Seq(Byte) /\ Len(c) = b.m_filledLength
  BY LineFacts

\* What it holds is its content.
LEMMA LineContent == ASSUME NEW b, NEW c, InLine(b, c) PROVE Content(b) = c
<1> DEFINE h == b.pBufHead
           n == b.m_filledLength
<1>1. /\ RecvSize \in Nat /\ b.m_size = RecvSize /\ h \in Nat /\ n \in Nat /\ h + n <= RecvSize
      /\ c \in Seq(Byte) /\ Len(c) = n /\ \A i \in 1..n : b.cells[h + i - 1] = c[i]
  BY LineFacts
<1>2. \A i \in 1..n : (h + i - 1) % RecvSize = h + i - 1
  <2>1. \A x, m \in Nat : x < m => x % m = x
    OBVIOUS
  <2>2. \A i \in 1..n : h + i - 1 \in Nat /\ h + i - 1 < RecvSize
    BY <1>1
  <2> QED BY <1>1, <2>1, <2>2
<1>3. Content(b) = [i \in 1..n |-> b.cells[(h + i - 1) % RecvSize]]
  BY <1>1 DEF Content
<1> HIDE DEF h, n
<1>4. Content(b) = [i \in 1..n |-> c[i]]
  BY <1>1, <1>2, <1>3
<1>5. c = [i \in 1..n |-> c[i]]
  BY <1>1
<1> QED BY <1>4, <1>5

\* reset().
LEMMA EmptyLine == InLine(EmptyRing(RecvSize), <<>>) /\ EmptyRing(RecvSize).pBufHead = 0
<1>1. RecvSize \in Nat
  BY ReceiverAssumption
<1>2. <<>> \in Seq(Byte) /\ Len(<<>>) = 0
  OBVIOUS
<1>3. Ring(EmptyRing(RecvSize), RecvSize)
  BY <1>1, EmptyIsRing
<1> QED BY <1>1, <1>2, <1>3 DEF InLine, EmptyRing

\* read() of all there is takes the first n bytes, or none if there are not so many;
\* a ring that becomes empty starts over.
LEMMA ReadLine ==
    ASSUME NEW b, NEW c, InLine(b, c), Len(c) > 0, NEW n
    PROVE  LET r == ReadFromBuffer(b, b.m_filledLength, n, 0)
               m == IF n \in 1..Len(c) THEN n ELSE 0
           IN /\ r.ret = n /\ InLine(r.ring, SubSeq(c, m + 1, Len(c)))
              /\ r.ring.m_filledLength = Len(c) - m
              /\ r.ring.m_filledLength = 0 => r.ring.pBufHead = 0
<1> DEFINE f == b.m_filledLength
           len == ReadLength(b, f)
           t == Transfer(b, b.pBufHead, ReadStraight(b), len, n, 0)
           rr == ReadFromBuffer(b, f, n, 0)
           r == rr.ring
           m == IF n \in 1..Len(c) THEN n ELSE 0
           rest == SubSeq(c, m + 1, Len(c))
<1>0. /\ RecvSize \in Nat /\ RecvSize > 0 /\ b.m_size = RecvSize
      /\ b.pBufHead \in Nat /\ b.pBufTail \in Nat /\ f \in Nat
      /\ b.pBufTail = b.pBufHead + f /\ b.pBufTail <= RecvSize
      /\ b.m_freeLength = RecvSize - f
      /\ c \in Seq(Byte) /\ Len(c) = f /\ f > 0
      /\ DOMAIN b.cells = 0..RecvSize - 1
      /\ DOMAIN b = Fields /\ b = [x \in Fields |-> b[x]]
      /\ \A i \in 1..f : b.cells[b.pBufHead + i - 1] = c[i]
  BY LineFacts
<1>1. len = f /\ FirstPart(b, b.pBufHead, ReadStraight(b), len) = f
  <2>1. f \in Int /\ RecvSize - b.pBufHead \in Int /\ f <= RecvSize - b.pBufHead
    BY LineNumbers
  <2>2. Min({f, f}) = f /\ Min({f, RecvSize - b.pBufHead}) = f
    BY <2>1, MinOfTwo
  <2>3. len = f
    BY <2>2 DEF ReadLength
  <2> QED BY <1>0, <2>2, <2>3 DEF FirstPart
<1>2. m \in 0..f
  BY <1>0
<1>3. t.moved = m /\ t.pointer = b.pBufHead + m /\ t.ret = n
  BY <1>0, <1>1 DEF Transfer
<1>4. rest \in Seq(Byte) /\ Len(rest) = f - m /\ \A i \in 1..f - m : rest[i] = c[m + i]
  <2>1. m \in 0..Len(c) /\ c \in Seq(Byte) /\ Len(c) = f
    BY <1>0, <1>2
  <2> QED BY <2>1, PartIs
<1> HIDE DEF f, m, rest, len
<1> DEFINE taken == {(b.pBufHead + i) % b.m_size : i \in 0..m - 1}
           kept == [b EXCEPT !.pBufHead = b.pBufHead + m,
                             !.m_filledLength = f - m, !.m_freeLength = RecvSize - f + m,
                             !.cells = [i \in DOMAIN @ |-> IF i \in taken THEN NoByte ELSE @[i]]]
<1>5. rr.ret = n /\ r = IF kept.m_filledLength = 0 THEN EmptyRing(RecvSize) ELSE kept
  BY <1>0, <1>1, <1>3 DEF ReadFromBuffer, f, len
<1>6. /\ DOMAIN kept = Fields /\ kept = [x \in Fields |-> kept[x]] /\ kept.m_size = RecvSize
      /\ kept.pBufHead = b.pBufHead + m /\ kept.pBufTail = b.pBufTail
      /\ kept.m_filledLength = f - m /\ kept.m_freeLength = RecvSize - (f - m)
      /\ kept.cells = [i \in 0..RecvSize - 1 |-> IF i \in taken THEN NoByte ELSE b.cells[i]]
  <2> HIDE DEF taken
  <2>1. RecvSize - f + m = RecvSize - (f - m)
    BY <1>2, LineNumbers DEF f
  <2> QED BY <1>0, <2>1 DEF Fields
<1> HIDE DEF kept, rr
<1>7. CASE f - m = 0
  <2>1. r = EmptyRing(RecvSize)
    BY <1>5, <1>6, <1>7
  <2>2. rest = <<>>
    BY <1>4, <1>7
  <2>3. EmptyRing(RecvSize).m_filledLength = 0
    BY DEF EmptyRing
  <2> QED BY <1>0, <1>5, <1>7, <2>1, <2>2, <2>3, EmptyLine DEF rr, f, m, rest
<1>8. CASE f - m # 0
  <2>1. r = kept
    BY <1>5, <1>6, <1>8
  <2>2. Ring(kept, RecvSize)
    BY <1>0, <1>2, <1>6 DEF Ring
  <2>3. \A i \in 1..f - m : kept.cells[kept.pBufHead + i - 1] = rest[i]
    <3> TAKE i \in 1..f - m
    <3>1. m + i \in 1..f /\ b.pBufHead + (m + i) - 1 \in 0..RecvSize - 1
          /\ kept.pBufHead + i - 1 = b.pBufHead + (m + i) - 1
      <4>1. /\ f \in Nat /\ m \in Nat /\ m <= f /\ b.pBufHead \in Nat /\ RecvSize \in Nat
            /\ b.pBufHead + f <= RecvSize /\ kept.pBufHead = b.pBufHead + m
        BY <1>2, <1>6, LineNumbers DEF f
      <4> QED BY <4>1
    <3>2. b.pBufHead + (m + i) - 1 \notin taken
      <4>1. \A x, y \in Nat : x < y => x % y = x
        OBVIOUS
      <4>2. \A j \in 0..m - 1 : b.pBufHead + j \in Nat /\ b.pBufHead + j < RecvSize
                                /\ b.pBufHead + j # b.pBufHead + (m + i) - 1
        BY <1>0, <1>2
      <4>3. \A j \in 0..m - 1 : (b.pBufHead + j) % b.m_size = b.pBufHead + j
        BY <1>0, <4>1, <4>2
      <4> QED BY <4>2, <4>3
    <3>3. kept.cells[kept.pBufHead + i - 1] = b.cells[b.pBufHead + (m + i) - 1]
      BY <1>6, <3>1, <3>2
    <3> QED BY <1>0, <1>4, <3>1, <3>3
  <2>4. DOMAIN kept.cells = 0..RecvSize - 1
    BY <1>6
  <2>5. kept.pBufTail = kept.pBufHead + kept.m_filledLength
    BY <1>0, <1>2, <1>6
  <2>6. InLine(kept, rest)
    BY <1>4, <1>6, <2>2, <2>3, <2>4, <2>5 DEF InLine
  <2> QED BY <1>0, <1>5, <1>6, <1>8, <2>1, <2>6 DEF rr, f, m, rest
<1> QED BY <1>7, <1>8

\* write() into a ring that starts at the front goes behind what is there.
LEMMA WriteLine ==
    ASSUME NEW b, NEW c, InLine(b, c), b.pBufHead = 0,
           NEW src \in Seq(Byte), NEW n \in 1..b.m_freeLength, n <= Len(src)
    PROVE  LET r == WriteIntoBuffer(b, src, RecvSize, n, 0).ring IN
           InLine(r, c \o SubSeq(src, 1, n)) /\ r.pBufHead = 0
<1> DEFINE f == b.m_filledLength
           len == WriteLength(b, RecvSize)
           t == Transfer(b, b.pBufTail, WriteStraight(b), len, n, 0)
           r == WriteIntoBuffer(b, src, RecvSize, n, 0).ring
           new == SubSeq(src, 1, n)
           d == c \o new
           at == [i \in 0..RecvSize - 1 |-> ((i - b.pBufTail) % b.m_size) + 1]
<1> HIDE DEF len, t, r, new, d, at
<1>0. /\ RecvSize \in Nat /\ RecvSize > 0 /\ b.m_size = RecvSize
      /\ b.pBufTail = f /\ f \in Nat /\ f <= RecvSize
      /\ b.m_freeLength = RecvSize - f
      /\ c \in Seq(Byte) /\ Len(c) = f
  BY LineNumbers
<1>a. /\ DOMAIN b.cells = 0..RecvSize - 1
      /\ DOMAIN b = Fields /\ b = [x \in Fields |-> b[x]]
  BY LineFacts
<1>b. ASSUME NEW i \in 1..f PROVE b.cells[i - 1] = c[i]
  <2>1. b.pBufHead + i - 1 = i - 1 /\ i \in 1..Len(c)
    BY <1>0
  <2> QED BY <2>1, LineFacts
<1> HIDE DEF f
<1>c. n \in Nat /\ n >= 1 /\ n <= RecvSize - f
  BY <1>0
<1>1. len = RecvSize - f /\ n \in 1..len /\ ~WriteStraight(b)
  <2>1. len = RecvSize - f
    BY <1>0, MinOfTwo DEF WriteLength, len
  <2>2. ~WriteStraight(b)
    BY <1>0 DEF WriteStraight
  <2> QED BY <1>0, <1>c, <2>1, <2>2
<1>2. FirstPart(b, b.pBufTail, WriteStraight(b), len) = len
  <2>1. len \in Int /\ b.m_size - b.pBufTail = len
    BY <1>0, <1>1
  <2>2. Min({len, len}) = len
    BY <2>1, MinOfTwo
  <2> QED BY <1>1, <2>1, <2>2 DEF FirstPart
<1>3. t.moved = n /\ t.pointer = f + n
  BY <1>0, <1>1, <1>2 DEF Transfer, t
<1>4. /\ new \in Seq(Byte) /\ Len(new) = n /\ \A i \in 1..n : new[i] = src[i]
  <2>1. n \in Nat /\ n <= Len(src)
    BY <1>c
  <2> QED BY <2>1, SubSeqProperties DEF new
<1>5. /\ d \in Seq(Byte) /\ Len(d) = f + n
      /\ \A i \in 1..f + n : d[i] = IF i <= f THEN c[i] ELSE new[i - f]
  <2>1. c \o new \in Seq(Byte) /\ Len(c \o new) = Len(c) + Len(new)
        /\ \A i \in 1..Len(c) + Len(new) : (c \o new)[i] = IF i <= Len(c) THEN c[i]
                                                           ELSE new[i - Len(c)]
    BY <1>0, <1>4, ConcatProperties
  <2> QED BY <1>0, <1>4, <2>1 DEF d
<1>6. /\ DOMAIN r = Fields /\ r = [x \in Fields |-> r[x]] /\ r.m_size = RecvSize
      /\ r.pBufHead = 0 /\ r.pBufTail = t.pointer
      /\ r.m_filledLength = b.m_filledLength + t.moved
      /\ r.m_freeLength = b.m_freeLength - t.moved
      /\ r.cells = [i \in 0..RecvSize - 1 |-> IF at[i] <= t.moved THEN src[at[i]] ELSE b.cells[i]]
  <2>1. r = [b EXCEPT !.pBufTail = t.pointer,
                      !.m_filledLength = @ + t.moved, !.m_freeLength = @ - t.moved,
                      !.cells = [i \in DOMAIN @ |-> IF ((i - b.pBufTail) % b.m_size) + 1 <= t.moved
                                      THEN src[((i - b.pBufTail) % b.m_size) + 1] ELSE @[i]]]
    BY DEF WriteIntoBuffer, t, len, r
  <2> DEFINE w == [i \in 0..RecvSize - 1 |-> IF ((i - b.pBufTail) % b.m_size) + 1 <= t.moved
                                      THEN src[((i - b.pBufTail) % b.m_size) + 1] ELSE b.cells[i]]
  <2>2. r = [b EXCEPT !.pBufTail = t.pointer,
                      !.m_filledLength = @ + t.moved, !.m_freeLength = @ - t.moved, !.cells = w]
    BY <1>a, <2>1
  <2>3. w = [i \in 0..RecvSize - 1 |-> IF at[i] <= t.moved THEN src[at[i]] ELSE b.cells[i]]
    BY DEF at
  <2> HIDE DEF w
  <2> QED BY <1>0, <1>a, <2>2, <2>3 DEF Fields
<1>7. /\ DOMAIN r = Fields /\ r = [x \in Fields |-> r[x]] /\ r.m_size = RecvSize
      /\ r.pBufHead = 0 /\ r.pBufTail = f + n
      /\ r.m_filledLength = f + n /\ r.m_freeLength = RecvSize - (f + n)
      /\ r.cells = [i \in 0..RecvSize - 1 |-> IF at[i] <= n THEN src[at[i]] ELSE b.cells[i]]
  <2>1. RecvSize - f - n = RecvSize - (f + n) /\ b.m_filledLength = f
    BY <1>0, <1>c DEF f
  <2>2. r.cells = [i \in 0..RecvSize - 1 |-> IF at[i] <= n THEN src[at[i]] ELSE b.cells[i]]
    BY <1>3, <1>6
  <2> QED BY <1>0, <1>3, <1>6, <2>1, <2>2
<1>8. \A x, y \in Nat : x < y => x % y = x /\ (x - y) % y = x
  OBVIOUS
<1>9. ASSUME NEW i \in 1..f + n PROVE r.cells[i - 1] = d[i]
  <2>1. i - 1 \in 0..RecvSize - 1
    BY <1>0, <1>c
  <2>2. CASE i <= f
    <3>5. i \in 1..f /\ d[i] = c[i] /\ b.cells[i - 1] = c[i]
      <4>1. i \in 1..f
        BY <1>0, <2>2
      <4> QED BY <1>0, <1>b, <1>5, <2>2, <4>1
    <3>1. i - 1 - f + RecvSize \in Nat /\ i - 1 - f + RecvSize < RecvSize
          /\ i - 1 - f = (i - 1 - f + RecvSize) - RecvSize
      BY <1>0, <2>2
    <3>2. (i - 1 - f) % RecvSize = i - 1 - f + RecvSize
      BY <1>0, <1>8, <3>1
    <3>3. at[i - 1] = i - f + RecvSize /\ ~(i - f + RecvSize <= n)
      BY <1>0, <1>c, <2>1, <2>2, <3>2 DEF at
    <3>4. r.cells[i - 1] = b.cells[i - 1]
      BY <1>7, <2>1, <3>3
    <3> QED BY <3>4, <3>5
  <2>3. CASE ~(i <= f)
    <3>1. i - 1 - f \in Nat /\ i - 1 - f < RecvSize
      BY <1>0, <1>c, <2>3
    <3>2. (i - 1 - f) % RecvSize = i - 1 - f
      BY <1>0, <1>8, <3>1
    <3>3. at[i - 1] = i - f /\ i - f \in 1..n
      BY <1>0, <1>c, <2>1, <2>3, <3>2 DEF at
    <3>4. r.cells[i - 1] = src[i - f]
      <4>1. at[i - 1] <= n
        BY <1>c, <3>3
      <4> QED BY <1>7, <2>1, <3>3, <4>1
    <3> QED BY <1>4, <1>5, <2>3, <3>3, <3>4
  <2> QED BY <2>2, <2>3
<1>10. Ring(r, RecvSize)
  BY <1>0, <1>c, <1>7 DEF Ring
<1>11. \A i \in 1..Len(d) : r.cells[r.pBufHead + i - 1] = d[i]
  <2> TAKE i \in 1..Len(d)
  <2>1. i \in 1..f + n /\ r.pBufHead + i - 1 = i - 1
    BY <1>5, <1>7
  <2> QED BY <1>9, <2>1
<1>12. InLine(r, d)
  BY <1>0, <1>c, <1>5, <1>7, <1>10, <1>11 DEF InLine
<1> QED BY <1>7, <1>12 DEF r, d, new

\* rearrange() moves what is there to the front.
LEMMA RearrangeLine ==
    ASSUME NEW b, NEW c, InLine(b, c)
    PROVE  InLine(Rearrange(b), c) /\ Rearrange(b).pBufHead = 0
<1> DEFINE r == Rearrange(b)
           f == b.m_filledLength
<1>0. /\ RecvSize \in Nat /\ b.m_size = RecvSize /\ f \in Nat /\ f <= RecvSize
      /\ b.m_freeLength = RecvSize - f
      /\ c \in Seq(Byte) /\ Len(c) = f
      /\ DOMAIN b.cells = 0..RecvSize - 1
      /\ DOMAIN b = Fields /\ b = [x \in Fields |-> b[x]]
  BY LineFacts
<1>1. Content(b) = c
  BY LineContent
<1>2. r = [b EXCEPT !.pBufHead = 0, !.pBufTail = f,
                    !.cells = [i \in DOMAIN @ |-> IF i < f THEN c[i + 1] ELSE NoByte]]
  BY <1>1 DEF Rearrange
<1> HIDE DEF r, f
<1>3. /\ DOMAIN r = Fields /\ r = [x \in Fields |-> r[x]] /\ r.m_size = RecvSize
      /\ r.pBufHead = 0 /\ r.pBufTail = f
      /\ r.m_filledLength = f /\ r.m_freeLength = RecvSize - f
      /\ r.cells = [i \in 0..RecvSize - 1 |-> IF i < f THEN c[i + 1] ELSE NoByte]
  BY <1>0, <1>2 DEF Fields, f
<1>4. Ring(r, RecvSize)
  BY <1>0, <1>3 DEF Ring
<1>5. \A i \in 1..Len(c) : r.cells[r.pBufHead + i - 1] = c[i]
  <2> TAKE i \in 1..Len(c)
  <2>1. r.pBufHead + i - 1 = i - 1 /\ i - 1 \in 0..RecvSize - 1 /\ i - 1 < f /\ i - 1 + 1 = i
    BY <1>0, <1>3
  <2> QED BY <1>3, <2>1
<1>6. InLine(r, c)
  BY <1>0, <1>3, <1>4, <1>5 DEF InLine
<1> QED BY <1>3, <1>6 DEF r

-----------------------------------------------------------------------------
(***************************************************************************)
(* The search of the buffer finds the next message when all of it is there. *)
(***************************************************************************)
\* The delimiter, byte by byte.
LEMMA DelimiterIs ==
    /\ Delimiter \in Seq(Byte) /\ Len(Delimiter) = Ones + 2
    /\ Delimiter[1] = ZERO /\ Delimiter[Ones + 2] = ZERO
    /\ \A x \in 2..Ones + 1 : Delimiter[x] = ONE
<1>1. Ones \in Nat /\ Ones > 1
  BY ReceiverAssumption
<1>2. Delimiter \in [1..Ones + 2 -> Byte]
  BY DEF Delimiter, Byte, ZERO, ONE
<1>3. Ones + 2 \in Nat /\ 1 \in 1..Ones + 2 /\ Ones + 2 \in 1..Ones + 2
  BY <1>1
<1>4. Delimiter \in Seq(Byte) /\ Len(Delimiter) = Ones + 2
  BY <1>2, <1>3, SeqDef, LenProperties
<1>5. Delimiter[1] = ZERO /\ Delimiter[Ones + 2] = ZERO
  BY <1>3 DEF Delimiter
<1>6. ASSUME NEW x \in 2..Ones + 1 PROVE Delimiter[x] = ONE
  <2>1. x \in 1..Ones + 2 /\ x \notin {1, Ones + 2}
    BY <1>1
  <2> QED BY <2>1 DEF Delimiter
<1> QED BY <1>4, <1>5, <1>6

\* The bytes of a message on its way.
LEMMA PackIs ==
    ASSUME NEW p \in Payloads
    PROVE  /\ p \in Seq(Byte) /\ Len(p) \in Nat /\ Len(p) >= 1 /\ Len(p) <= CodeMax
           /\ Pack(p) \in Seq(Byte) /\ Len(Pack(p)) = HeadLength + Len(p)
           /\ HeadLength = Ones + 3 /\ Ones \in Nat
           /\ \A x \in 1..Ones + 2 : Pack(p)[x] = Delimiter[x]
           /\ Pack(p)[Ones + 3] = Len(p)
           /\ \A x \in 1..Len(p) : Pack(p)[Ones + 3 + x] = p[x]
<1> DEFINE d == Delimiter
           l == <<Len(p)>>
           e == d \o l
           n == Len(p)
<1>1. p \in Seq(Byte) /\ n \in 1..CodeMax /\ CodeMax \in 1..254 /\ Ones \in Nat
  BY ReceiverAssumption
<1>2. n \in Nat /\ n >= 1 /\ n <= CodeMax /\ n \in Byte
  <2>1. n \in Int /\ CodeMax \in Int /\ 1 <= n /\ n <= CodeMax /\ CodeMax <= 254
    BY <1>1
  <2> HIDE DEF n
  <2>2. n \in Nat /\ n \in 0..255
    BY <2>1
  <2> QED BY <2>1, <2>2 DEF Byte
<1> HIDE DEF n
<1>3. l \in Seq(Byte) /\ Len(l) = 1 /\ l[1] = n
  BY <1>2 DEF n
<1>4. d \in Seq(Byte) /\ Len(d) = Ones + 2
  BY DelimiterIs
<1> HIDE DEF d, l
<1>5. /\ e \in Seq(Byte) /\ Len(e) = Ones + 3
      /\ \A x \in 1..Ones + 3 : e[x] = IF x <= Ones + 2 THEN d[x] ELSE l[x - (Ones + 2)]
  <2>1. /\ d \o l \in Seq(Byte) /\ Len(d \o l) = Len(d) + Len(l)
        /\ \A x \in 1..Len(d) + Len(l) : (d \o l)[x] = IF x <= Len(d) THEN d[x] ELSE l[x - Len(d)]
    BY <1>3, <1>4, ConcatProperties
  <2>2. Ones + 2 + 1 = Ones + 3
    BY <1>1
  <2> QED BY <1>3, <1>4, <2>1, <2>2
<1> HIDE DEF e
<1>6. /\ e \o p \in Seq(Byte) /\ Len(e \o p) = Ones + 3 + n
      /\ \A x \in 1..Ones + 3 + n : (e \o p)[x] = IF x <= Ones + 3 THEN e[x] ELSE p[x - (Ones + 3)]
  <2>1. /\ e \o p \in Seq(Byte) /\ Len(e \o p) = Len(e) + Len(p)
        /\ \A x \in 1..Len(e) + Len(p) : (e \o p)[x] = IF x <= Len(e) THEN e[x] ELSE p[x - Len(e)]
    BY <1>1, <1>5, ConcatProperties
  <2> QED BY <1>5, <2>1 DEF n
<1>7. Pack(p) = e \o p
  BY DEF Pack, e, d, l
<1>8. HeadLength = Ones + 3
  BY <1>1 DEF HeadLength, COM_MSG_LENGTH
<1>9. ASSUME NEW x \in 1..Ones + 2 PROVE Pack(p)[x] = Delimiter[x]
  <2>1. x \in 1..Ones + 3 /\ x \in 1..Ones + 3 + n /\ x <= Ones + 3 /\ x <= Ones + 2
    BY <1>1, <1>2
  <2> QED BY <1>5, <1>6, <1>7, <2>1 DEF d
<1>10. Pack(p)[Ones + 3] = n
  <2>1. PICK y \in Int : y = Ones + 3
    BY <1>1
  <2>2. y \in 1..Ones + 3 /\ y \in 1..Ones + 3 + n /\ ~(y <= Ones + 2) /\ y <= Ones + 3
    BY <1>1, <1>2, <2>1
  <2>3. y - (Ones + 2) = 1
    BY <1>1, <2>1
  <2>4. (e \o p)[y] = e[y] /\ e[y] = l[y - (Ones + 2)]
    BY <1>5, <1>6, <2>2
  <2> QED BY <1>3, <1>7, <2>1, <2>3, <2>4
<1>11. ASSUME NEW x \in 1..n PROVE Pack(p)[Ones + 3 + x] = p[x]
  <2>1. PICK y \in Int : y = Ones + 3 + x
    BY <1>1
  <2>2. y \in 1..Ones + 3 + n /\ ~(y <= Ones + 3)
    BY <1>1, <1>2, <2>1
  <2>3. y - (Ones + 3) = x
    BY <1>1, <2>1
  <2>4. (e \o p)[y] = p[y - (Ones + 3)]
    BY <1>6, <2>2
  <2> QED BY <1>7, <2>1, <2>3, <2>4
<1> QED BY <1>1, <1>2, <1>6, <1>7, <1>8, <1>9, <1>10, <1>11 DEF n

\* How much of a delimiter the search has seen decides its state.
StateOf(j) == IF j = 0 THEN "Wait" ELSE IF j = 1 THEN "Begin"
              ELSE IF j <= Ones THEN "Appear" ELSE "Prepare"
SearchState == [state : {"Wait", "Begin", "Appear", "Prepare", "Found"}, need : Int,
                ret : Int, message : Int, left : Int, over : BOOLEAN, code : Seq(Byte)]
Seen(j, byte) == IF j > Ones THEN 0
                 ELSE IF byte = ZERO THEN 1 ELSE IF byte = ONE /\ j >= 1 THEN j + 1 ELSE 0

\* One byte: another of the delimiter, the first of one, or none.
LEMMA ScanIs ==
    ASSUME NEW s \in SearchState, NEW j \in 0..Ones + 1, NEW byte \in Byte,
           s.state = StateOf(j), s.need = HeadLength - j, j <= Ones \/ byte # ZERO
    PROVE  Scan(s, byte) = [s EXCEPT !.state = StateOf(Seen(j, byte)),
                                     !.need = HeadLength - Seen(j, byte)]
<1>1. Ones \in Nat /\ Ones > 1 /\ HeadLength = Ones + 3
  BY ReceiverAssumption DEF HeadLength, COM_MSG_LENGTH
<1>2. ZERO # ONE
  BY DEF ZERO, ONE
<1>3. CASE j = 0
  <2>1. s.state = "Wait" /\ s.need = HeadLength
    BY <1>1, <1>3 DEF StateOf
  <2>2. CASE byte = ZERO
    <3>1. Scan(s, byte) = [s EXCEPT !.state = "Begin", !.need = s.need - 1]
      BY <2>1, <2>2 DEF Scan
    <3>2. Seen(j, byte) = 1 /\ StateOf(1) = "Begin" /\ HeadLength - 1 = s.need - 1
      BY <1>1, <1>3, <2>1, <2>2 DEF Seen, StateOf
    <3> QED BY <3>1, <3>2
  <2>3. CASE byte # ZERO
    <3>1. Scan(s, byte) = s
      BY <2>1, <2>3 DEF Scan
    <3>2. Seen(j, byte) = 0 /\ StateOf(0) = s.state /\ HeadLength - 0 = s.need
      BY <1>1, <1>3, <2>1, <2>3 DEF Seen, StateOf
    <3>3. s = [s EXCEPT !.state = s.state, !.need = s.need]
      BY DEF SearchState
    <3> QED BY <3>1, <3>2, <3>3
  <2> QED BY <2>2, <2>3
<1>4. CASE j = 1
  <2>1. s.state = "Begin" /\ s.need = HeadLength - 1
    BY <1>1, <1>4 DEF StateOf
  <2>2. CASE byte = ZERO
    <3>1. Scan(s, byte) = s
      BY <1>2, <2>1, <2>2 DEF Scan
    <3>2. Seen(j, byte) = 1 /\ StateOf(1) = s.state
      BY <1>1, <1>4, <2>1, <2>2 DEF Seen, StateOf
    <3>3. s = [s EXCEPT !.state = s.state, !.need = s.need]
      BY DEF SearchState
    <3>4. StateOf(Seen(j, byte)) = s.state /\ HeadLength - Seen(j, byte) = s.need
      BY <2>1, <3>2
    <3> QED BY <3>1, <3>3, <3>4
  <2>3. CASE byte = ONE
    <3>1. Scan(s, byte) = [s EXCEPT !.state = "Appear", !.need = s.need - 1]
      BY <1>2, <2>1, <2>3 DEF Scan
    <3>2. Seen(j, byte) = 2 /\ StateOf(2) = "Appear" /\ HeadLength - 2 = s.need - 1
      BY <1>1, <1>2, <1>4, <2>1, <2>3 DEF Seen, StateOf
    <3> QED BY <3>1, <3>2
  <2>4. CASE byte # ZERO /\ byte # ONE
    <3>1. Scan(s, byte) = [s EXCEPT !.state = "Wait", !.need = HeadLength]
      BY <2>1, <2>4 DEF Scan, WaitForHead
    <3>2. Seen(j, byte) = 0 /\ StateOf(0) = "Wait" /\ HeadLength - 0 = HeadLength
      BY <1>1, <1>4, <2>4 DEF Seen, StateOf
    <3> QED BY <3>1, <3>2
  <2> QED BY <2>2, <2>3, <2>4
<1>5. CASE j \in 2..Ones
  <2>1. s.state = "Appear" /\ s.need = HeadLength - j
    BY <1>1, <1>5 DEF StateOf
  <2>2. CASE byte = ZERO
    <3>1. Scan(s, byte) = [s EXCEPT !.state = "Begin", !.need = HeadLength - 1]
      BY <1>2, <2>1, <2>2 DEF Scan
    <3>2. Seen(j, byte) = 1 /\ StateOf(1) = "Begin"
      BY <1>1, <1>5, <2>2 DEF Seen, StateOf
    <3> QED BY <3>1, <3>2
  <2>3. CASE byte = ONE
    <3>1. Scan(s, byte) = [s EXCEPT !.need = s.need - 1,
                     !.state = IF s.need - 1 = 1 + COM_MSG_LENGTH THEN "Prepare" ELSE s.state]
      BY <1>2, <2>1, <2>3 DEF Scan
    <3>2. Seen(j, byte) = j + 1 /\ HeadLength - (j + 1) = s.need - 1
      BY <1>1, <1>2, <1>5, <2>1, <2>3 DEF Seen
    <3>3. (IF s.need - 1 = 1 + COM_MSG_LENGTH THEN "Prepare" ELSE s.state) = StateOf(j + 1)
      BY <1>1, <1>5, <2>1 DEF StateOf, COM_MSG_LENGTH
    <3>4. Scan(s, byte) = [s EXCEPT !.need = s.need - 1, !.state = StateOf(j + 1)]
      BY <3>1, <3>3
    <3>5. [s EXCEPT !.need = s.need - 1, !.state = StateOf(j + 1)]
          = [s EXCEPT !.state = StateOf(j + 1), !.need = s.need - 1]
      BY DEF SearchState
    <3> QED BY <3>2, <3>4, <3>5
  <2>4. CASE byte # ZERO /\ byte # ONE
    <3>1. Scan(s, byte) = [s EXCEPT !.state = "Wait", !.need = HeadLength]
      BY <2>1, <2>4 DEF Scan, WaitForHead
    <3>2. Seen(j, byte) = 0 /\ StateOf(0) = "Wait" /\ HeadLength - 0 = HeadLength
      BY <1>1, <1>5, <2>4 DEF Seen, StateOf
    <3> QED BY <3>1, <3>2
  <2> QED BY <2>2, <2>3, <2>4
<1>6. CASE j = Ones + 1
  <2>1. s.state = "Prepare" /\ byte # ZERO
    BY <1>1, <1>6 DEF StateOf
  <2>2. Scan(s, byte) = [s EXCEPT !.state = "Wait", !.need = HeadLength]
    BY <2>1 DEF Scan, WaitForHead
  <2>3. Seen(j, byte) = 0 /\ StateOf(0) = "Wait" /\ HeadLength - 0 = HeadLength
    BY <1>1, <1>6 DEF Seen, StateOf
  <2> QED BY <2>2, <2>3
<1>7. j = 0 \/ j = 1 \/ j \in 2..Ones \/ j = Ones + 1
  BY <1>1
<1> QED BY <1>3, <1>4, <1>5, <1>6, <1>7

\* The last byte of a delimiter.
LEMMA ScanFinds ==
    ASSUME NEW s, s.state = StateOf(Ones + 1)
    PROVE  Scan(s, ZERO) = [s EXCEPT !.state = "Found"]
<1>1. StateOf(Ones + 1) = "Prepare"
  BY ReceiverAssumption DEF StateOf
<1> QED BY <1>1 DEF Scan

\* A delimiter is not to be seen among the first g bytes, nor will the next byte, if
\* it is a zero, complete one.
Clean(c, g) == /\ \A e \in Ones + 2..g : e <= Len(c)
                     => \E x \in 1..Ones + 2 : c[e - (Ones + 2) + x] # Delimiter[x]
               /\ Ones + 1 <= g /\ g <= Len(c)
                     => \E x \in 1..Ones + 1 : c[g - (Ones + 1) + x] # Delimiter[x]

\* What the buffer has: first g bytes that belong to no message, then message m as far
\* as it has arrived.  There may be no message yet.
Before(c, g, m) ==
    /\ c \in Seq(Byte) /\ g \in Nat /\ Clean(c, g)
    /\ \/ m = <<>> /\ Len(c) <= g
       \/ m \in Payloads /\ \A x \in 1..HeadLength + Len(m) : g + x <= Len(c) => c[g + x] = Pack(m)[x]

\* What the search finds: the message, or nothing as it is not all there; then only
\* bytes in front of the message may be dropped.
Outcome(s, c, g, m) ==
    \/ /\ s.code = <<>> /\ s.ret \in 0..Len(c) /\ s.ret <= g
       /\ m # <<>> => Len(c) < g + HeadLength + Len(m)
    \/ m # <<>> /\ s.code = m /\ s.ret = g + HeadLength + Len(m) /\ s.ret <= Len(c)

\* The search after i bytes, of which the last j are as in a delimiter.
Matches(s, c, g, i, j) ==
    /\ s.state = StateOf(j) /\ s.need = HeadLength - j
    /\ j <= i /\ \A x \in 1..j : c[i - j + x] = Delimiter[x]
    /\ i > g => j = i - g
Going(s, c, g, i) ==
    /\ s \in SearchState /\ ~s.over /\ i \in 0..Len(c)
    /\ s.ret = i /\ s.message = i /\ s.left = Len(c) - i /\ s.code = <<>>
    /\ \E j \in 0..Ones + 1 : Matches(s, c, g, i, j)

\* One more byte is one of the delimiter, or not.
LEMMA SeenIs ==
    ASSUME NEW c, NEW g, NEW m, Before(c, g, m), NEW i \in 0..Len(c) - 1, NEW j \in 0..Ones + 1,
           j <= i, \A x \in 1..j : c[i - j + x] = Delimiter[x], i > g => j = i - g,
           ~(j = Ones + 1 /\ c[i + 1] = ZERO)
    PROVE  LET k == Seen(j, c[i + 1]) IN
           /\ k \in 0..Ones + 1 /\ k <= i + 1
           /\ \A x \in 1..k : c[i + 1 - k + x] = Delimiter[x]
           /\ i + 1 > g => k = i + 1 - g
<1> DEFINE v == c[i + 1]
           k == Seen(j, v)
<1>1. Ones \in Nat /\ Ones > 1 /\ ZERO # ONE /\ HeadLength = Ones + 3
  BY ReceiverAssumption DEF ZERO, ONE, HeadLength, COM_MSG_LENGTH
<1>2. Len(c) \in Nat /\ g \in Nat /\ i + 1 \in 1..Len(c) /\ i \in Nat
  BY LenProperties DEF Before
<1>3. k \in 0..Ones + 1 /\ k <= j + 1 /\ k <= i + 1
  BY <1>1, <1>2 DEF Seen
<1>4. ASSUME NEW x \in 1..k PROVE c[i + 1 - k + x] = Delimiter[x]
  <2>1. CASE k = 1
    <3>1. x = 1 /\ i + 1 - k + x = i + 1
      BY <1>2, <2>1
    <3>2. v = ZERO
      BY <1>1, <2>1 DEF Seen
    <3> QED BY <3>1, <3>2, DelimiterIs
  <2>2. CASE k # 1
    <3>1. k = j + 1 /\ v = ONE /\ j >= 1 /\ j <= Ones
      BY <1>1, <2>2 DEF Seen
    <3>2. CASE x \in 1..j
      <4>1. i + 1 - k + x = i - j + x
        BY <1>2, <3>1
      <4> QED BY <3>2, <4>1
    <3>3. CASE x = j + 1
      <4>1. i + 1 - k + x = i + 1 /\ x \in 2..Ones + 1
        BY <1>1, <1>2, <3>1, <3>3
      <4> QED BY <3>1, <4>1, DelimiterIs
    <3> QED BY <1>3, <3>1, <3>2, <3>3
  <2> QED BY <2>1, <2>2
<1>5. ASSUME i + 1 > g PROVE k = i + 1 - g
  <2>1. g < Len(c) /\ i >= g
    BY <1>2, <1>5
  <2>2. m \in Payloads /\ \A x \in 1..HeadLength + Len(m) : g + x <= Len(c) => c[g + x] = Pack(m)[x]
    BY <1>2, <2>1 DEF Before
  <2>3. /\ Len(m) \in Nat /\ \A x \in 1..Ones + 2 : Pack(m)[x] = Delimiter[x]
    BY <2>2, PackIs
  <2>4. \A x \in 1..Ones + 2 : g + x <= Len(c) => c[g + x] = Delimiter[x]
    <3>1. \A x \in 1..Ones + 2 : x \in 1..HeadLength + Len(m)
      BY <1>1, <2>3
    <3> QED BY <2>2, <2>3, <3>1
  <2>5. CASE i = g
    <3>1. 1 \in 1..Ones + 2 /\ g + 1 <= Len(c) /\ g + 1 = i + 1
      BY <1>1, <1>2, <2>1, <2>5
    <3>2. v = ZERO
      BY <2>4, <3>1, DelimiterIs
    <3>3. j <= Ones
      BY <1>1, <3>2
    <3>4. k = 1
      BY <1>1, <3>2, <3>3 DEF Seen
    <3> QED BY <1>2, <2>5, <3>4
  <2>6. CASE i > g
    <3>1. j = i - g /\ j >= 1
      BY <1>2, <2>6
    <3>2. j + 1 \in 1..Ones + 2 /\ g + (j + 1) <= Len(c) /\ g + (j + 1) = i + 1
      BY <1>1, <1>2, <3>1
    <3>3. v = Delimiter[j + 1]
      BY <2>4, <3>2
    <3>4. j # Ones + 1
      <4>1. j = Ones + 1 => j + 1 = Ones + 2
        BY <1>1
      <4> QED BY <3>3, <4>1, DelimiterIs
    <3>5. j <= Ones /\ j + 1 \in 2..Ones + 1
      BY <1>1, <3>1, <3>4
    <3>6. v = ONE
      BY <3>3, <3>5, DelimiterIs
    <3>7. k = j + 1
      BY <1>1, <3>1, <3>5, <3>6 DEF Seen
    <3> QED BY <1>2, <3>1, <3>7
  <2> QED BY <1>2, <2>1, <2>5, <2>6
<1> QED BY <1>3, <1>4, <1>5

\* The delimiter that is found is that of the message.
LEMMA FoundIs ==
    ASSUME NEW c, NEW g, NEW m, Before(c, g, m), NEW i \in 0..Len(c) - 1,
           Ones + 1 <= i, \A x \in 1..Ones + 1 : c[i - (Ones + 1) + x] = Delimiter[x],
           i > g => Ones + 1 = i - g, c[i + 1] = ZERO
    PROVE  i = g + Ones + 1 /\ m \in Payloads
<1>1. Ones \in Nat /\ Len(c) \in Nat /\ g \in Nat /\ i + 1 \in 1..Len(c) /\ i \in Nat
  BY LenProperties, ReceiverAssumption DEF Before
<1>2. ASSUME i < g PROVE FALSE
  <2> DEFINE e == i + 1
  <2>1. e \in Ones + 2..g /\ e <= Len(c)
    BY <1>1, <1>2
  <2>2. PICK x \in 1..Ones + 2 : c[e - (Ones + 2) + x] # Delimiter[x]
    <3> HIDE DEF e
    <3> QED BY <2>1 DEF Before, Clean
  <2>3. CASE x \in 1..Ones + 1
    <3>1. e - (Ones + 2) + x = i - (Ones + 1) + x
      BY <1>1
    <3> QED BY <2>2, <2>3, <3>1
  <2>4. CASE x = Ones + 2
    <3>1. e - (Ones + 2) + x = i + 1
      BY <1>1, <2>4
    <3> QED BY <2>2, <2>4, <3>1, DelimiterIs
  <2> QED BY <1>1, <2>3, <2>4
<1>3. ASSUME i = g PROVE FALSE
  <2>1. Ones + 1 <= g /\ g <= Len(c)
    BY <1>1, <1>3
  <2>2. PICK x \in 1..Ones + 1 : c[g - (Ones + 1) + x] # Delimiter[x]
    BY <2>1 DEF Before, Clean
  <2> QED BY <1>3, <2>2
<1>4. i > g /\ i = g + Ones + 1
  BY <1>1, <1>2, <1>3
<1>5. ~(Len(c) <= g)
  BY <1>1, <1>4
<1> QED BY <1>4, <1>5 DEF Before

\* What makes a match.
LEMMA MatchesIs ==
    ASSUME NEW s, NEW c, NEW g, NEW i, NEW j,
           s.state = StateOf(j), s.need = HeadLength - j,
           j <= i, \A x \in 1..j : c[i - j + x] = Delimiter[x],
           i > g => j = i - g
    PROVE  Matches(s, c, g, i, j)
  BY DEF Matches

\* The search goes on by a byte, or ends.
LEMMA SearchStepIs ==
    ASSUME NEW c, NEW g, NEW m, Before(c, g, m), NEW i, NEW s, Going(s, c, g, i)
    PROVE  LET t == SearchStep(s, c) IN
           (t.over /\ Outcome(t, c, g, m)) \/ Going(t, c, g, i + 1)
<1> DEFINE t == SearchStep(s, c)
<1>1. /\ s \in SearchState /\ ~s.over /\ i \in 0..Len(c)
      /\ s.ret = i /\ s.message = i /\ s.left = Len(c) - i /\ s.code = <<>>
  BY DEF Going
<1>2. PICK j \in 0..Ones + 1 : Matches(s, c, g, i, j)
  BY DEF Going
<1>3. /\ Ones \in Nat /\ HeadLength = Ones + 3 /\ g \in Nat /\ Len(c) \in Nat /\ i \in Nat
      /\ i <= Len(c) /\ j \in Nat /\ j <= Ones + 1 /\ c \in Seq(Byte)
  BY <1>1, LenProperties, ReceiverAssumption DEF HeadLength, COM_MSG_LENGTH, Before
<1>4. /\ s.state = StateOf(j) /\ s.need = HeadLength - j /\ j <= i
      /\ \A x \in 1..j : c[i - j + x] = Delimiter[x]
      /\ i > g => j = i - g
  BY <1>2 DEF Matches
<1>5. CASE s.left <= s.need
  <2>1. t = [s EXCEPT !.over = TRUE, !.ret = i - j]
    <3>1. s.ret - (HeadLength - s.need) = i - j
      BY <1>1, <1>3, <1>4
    <3> QED BY <1>1, <1>5, <3>1 DEF SearchStep
  <2> HIDE DEF t
  <2>2. t.over /\ t.code = <<>> /\ t.ret = i - j
    BY <1>1, <2>1 DEF SearchState
  <2>3. i - j \in 0..Len(c) /\ i - j <= g
    BY <1>3, <1>4
  <2>4. ASSUME m # <<>> PROVE Len(c) < g + HeadLength + Len(m)
    <3>1. m \in Payloads
      BY <2>4 DEF Before
    <3>2. Len(m) \in Nat /\ Len(m) >= 1
      BY <3>1, PackIs
    <3>3. Len(c) - i <= HeadLength - j
      BY <1>1, <1>4, <1>5
    <3> QED BY <1>3, <2>3, <3>2, <3>3
  <2> QED BY <2>2, <2>3, <2>4 DEF t, Outcome
<1>6. CASE ~(s.left <= s.need)
  <2> DEFINE v == c[i + 1]
             u == [Scan(s, v) EXCEPT !.ret = @ + 1, !.message = @ + 1, !.left = @ - 1]
  <2>1. i \in 0..Len(c) - 1 /\ i + 1 \in 1..Len(c) /\ Len(c) - i > HeadLength - j
    BY <1>1, <1>3, <1>4, <1>6
  <2>2. v \in Byte
    BY <1>3, <2>1
  <2>3. t = IF u.state = "Found" THEN AtLength(u, c) ELSE u
    BY <1>1, <1>6 DEF SearchStep
  <2> HIDE DEF t
  <2>4. CASE ~(j = Ones + 1 /\ v = ZERO)
    <3> DEFINE k == Seen(j, v)
    <3>1. /\ k \in 0..Ones + 1 /\ k <= i + 1
          /\ \A x \in 1..k : c[i + 1 - k + x] = Delimiter[x]
          /\ i + 1 > g => k = i + 1 - g
      BY <1>4, <2>1, <2>4, SeenIs
    <3>2. Scan(s, v) = [s EXCEPT !.state = StateOf(k), !.need = HeadLength - k]
      <4>1. j <= Ones \/ v # ZERO
        BY <1>3, <2>4
      <4> QED BY <1>1, <1>4, <2>2, <4>1, ScanIs
    <3> HIDE DEF k, v
    <3>3. u = [s EXCEPT !.state = StateOf(k), !.need = HeadLength - k,
                        !.ret = i + 1, !.message = i + 1, !.left = Len(c) - i - 1]
      BY <1>1, <3>2 DEF SearchState
    <3>4. StateOf(k) \in {"Wait", "Begin", "Appear", "Prepare"} /\ HeadLength - k \in Int
      BY <1>3, <3>1 DEF StateOf
    <3> HIDE DEF u
    <3>5. /\ u.state = StateOf(k) /\ u.need = HeadLength - k /\ u.ret = i + 1
          /\ u.message = i + 1 /\ u.left = Len(c) - (i + 1) /\ u.code = <<>> /\ ~u.over
          /\ u \in SearchState
      <4>1. Len(c) - i - 1 = Len(c) - (i + 1) /\ i + 1 \in Int /\ Len(c) - i - 1 \in Int
        BY <1>3
      <4> QED BY <1>1, <3>3, <3>4, <4>1 DEF SearchState
    <3>6. t = u
      <4>1. u.state # "Found"
        BY <3>4, <3>5
      <4> QED BY <2>3, <4>1
    <3>7. Matches(u, c, g, i + 1, k)
      <4>1. \A x \in 1..k : c[i + 1 - k + x] = Delimiter[x]
        BY <3>1
      <4>2. k <= i + 1 /\ (i + 1 > g => k = i + 1 - g)
        BY <3>1
      <4>3. u.state = StateOf(k) /\ u.need = HeadLength - k
        BY <3>5
      <4>4. PICK q \in Int : q = i + 1
        BY <1>3
      <4>5. \A x \in 1..k : c[q - k + x] = Delimiter[x]
        BY <1>3, <3>1, <4>1, <4>4
      <4>6. k <= q /\ (q > g => k = q - g)
        BY <1>3, <3>1, <4>2, <4>4
      <4>7. Matches(u, c, g, q, k)
        BY <4>3, <4>5, <4>6 DEF Matches
      <4> QED BY <4>4, <4>7
    <3>8. i + 1 \in 0..Len(c)
      BY <2>1
    <3>9. Going(u, c, g, i + 1)
      BY <3>1, <3>5, <3>7, <3>8 DEF Going
    <3> QED BY <3>6, <3>9 DEF t
  <2>5. CASE j = Ones + 1 /\ v = ZERO
    <3>1. i = g + Ones + 1 /\ m \in Payloads
      <4>1. /\ Ones + 1 <= i /\ \A x \in 1..Ones + 1 : c[i - (Ones + 1) + x] = Delimiter[x]
            /\ i > g => Ones + 1 = i - g
        BY <1>4, <2>5
      <4> QED BY <2>1, <2>5, <4>1, FoundIs
    <3> DEFINE n == Len(m)
    <3>2. /\ m \in Seq(Byte) /\ n \in Nat /\ n >= 1 /\ n <= CodeMax
          /\ Pack(m)[Ones + 3] = n /\ \A x \in 1..n : Pack(m)[Ones + 3 + x] = m[x]
      BY <3>1, PackIs
    <3>3. \A x \in 1..HeadLength + n : g + x <= Len(c) => c[g + x] = Pack(m)[x]
      <4>1. m # <<>>
        BY <3>2
      <4> QED BY <4>1 DEF Before
    <3> HIDE DEF n
    <3>4. Len(c) - i > 2
      BY <1>3, <2>1, <2>5
    <3>5. c[i + 2] = n
      <4>1. Ones + 3 \in 1..HeadLength + n /\ g + (Ones + 3) <= Len(c) /\ g + (Ones + 3) = i + 2
        BY <1>3, <3>1, <3>2, <3>4
      <4> QED BY <3>2, <3>3, <4>1
    <3>6. u = [s EXCEPT !.state = "Found", !.ret = i + 1, !.message = i + 1, !.left = Len(c) - i - 1]
      <4>1. Scan(s, v) = [s EXCEPT !.state = "Found"]
        BY <1>4, <2>5, ScanFinds
      <4> HIDE DEF v
      <4> QED BY <1>1, <4>1 DEF SearchState
    <3> HIDE DEF u
    <3>7. /\ u.state = "Found" /\ u.ret = i + 1 /\ u.message = i + 1 /\ u.left = Len(c) - i - 1
          /\ u.code = <<>> /\ u \in SearchState
      <4>1. i + 1 \in Int /\ Len(c) - i - 1 \in Int
        BY <1>3
      <4> QED BY <1>1, <3>6, <4>1 DEF SearchState
    <3>8. t = AtLength(u, c)
      BY <2>3, <3>7
    <3> DEFINE w == [u EXCEPT !.ret = @ + COM_MSG_LENGTH, !.left = @ - COM_MSG_LENGTH, !.need = n]
    <3>9. ~(n > CodeMax)
      BY <3>2, ReceiverAssumption
    <3>10. c[u.message + 1] = n
      <4>1. u.message + 1 = i + 2
        BY <1>3, <3>7
      <4> QED BY <3>5, <4>1
    <3>11. t = IF n > w.left THEN [w EXCEPT !.over = TRUE, !.ret = @ - HeadLength]
               ELSE [w EXCEPT !.over = TRUE, !.ret = @ + n,
                              !.code = SubSeq(c, u.message + COM_MSG_LENGTH + 1,
                                              u.message + COM_MSG_LENGTH + n)]
      <4>1. n # 0
        BY <3>2
      <4> HIDE DEF w
      <4>2. t = IF n = 0 THEN w ELSE IF n > CodeMax
                THEN [w EXCEPT !.need = HeadLength, !.message = @ + COM_MSG_LENGTH]
                ELSE IF n > w.left THEN [w EXCEPT !.over = TRUE, !.ret = @ - HeadLength]
                ELSE [w EXCEPT !.over = TRUE, !.ret = @ + n,
                               !.code = SubSeq(c, u.message + COM_MSG_LENGTH + 1,
                                               u.message + COM_MSG_LENGTH + n)]
        BY <3>8, <3>10 DEF AtLength, w
      <4> QED BY <3>9, <4>1, <4>2
    <3>12. w.ret = i + 2 /\ w.left = Len(c) - (i + 2) /\ w.code = <<>> /\ w \in SearchState
      <4>1. /\ i + 1 + COM_MSG_LENGTH = i + 2
            /\ Len(c) - i - 1 - COM_MSG_LENGTH = Len(c) - (i + 2)
            /\ i + 2 \in Int /\ Len(c) - (i + 2) \in Int /\ n \in Int
        BY <1>3, <3>2 DEF COM_MSG_LENGTH
      <4> QED BY <3>7, <4>1 DEF SearchState
    <3> HIDE DEF w
    <3>13. CASE n > w.left
      <4>1. t = [w EXCEPT !.over = TRUE, !.ret = g]
        <5>1. w.ret - HeadLength = g
          BY <1>3, <3>1, <3>12
        <5> QED BY <3>11, <3>13, <5>1
      <4>2. t.over /\ t.ret = g /\ t.code = <<>>
        BY <3>12, <4>1 DEF SearchState
      <4>3. Len(c) < g + HeadLength + n /\ g \in 0..Len(c)
        BY <1>3, <3>1, <3>2, <3>12, <3>13
      <4> QED BY <1>3, <4>2, <4>3 DEF Outcome, t, n
    <3>14. CASE ~(n > w.left)
      <4> DEFINE found == SubSeq(c, u.message + COM_MSG_LENGTH + 1, u.message + COM_MSG_LENGTH + n)
      <4>1. t = [w EXCEPT !.over = TRUE, !.ret = i + 2 + n, !.code = found]
        BY <3>11, <3>12, <3>14
      <4>2. found = SubSeq(c, i + 3, i + 2 + n)
        <5>1. u.message + COM_MSG_LENGTH + 1 = i + 3 /\ u.message + COM_MSG_LENGTH + n = i + 2 + n
          BY <1>3, <3>2, <3>7 DEF COM_MSG_LENGTH
        <5> QED BY <5>1
      <4> HIDE DEF found
      <4>3. t.over /\ t.ret = i + 2 + n /\ t.code = found
        BY <3>12, <4>1 DEF SearchState
      <4>4. i + 2 + n <= Len(c) /\ i + 2 + n = g + HeadLength + n
        BY <1>3, <3>1, <3>2, <3>12, <3>14
      <4>5. found = m
        <5>1. i + 3 \in Nat /\ i + 2 + n \in Nat /\ i + 3 >= 1 /\ i + 2 + n - (i + 3) + 1 = n
          BY <1>3, <3>2
        <5>2. /\ SubSeq(c, i + 3, i + 2 + n) \in Seq(Byte)
              /\ Len(SubSeq(c, i + 3, i + 2 + n)) = n
              /\ \A x \in 1..n : SubSeq(c, i + 3, i + 2 + n)[x] = c[i + 2 + x]
          <6>1. \A x \in 1..n : i + 3 + x - 1 = i + 2 + x
            BY <1>3, <3>2
          <6> QED BY <1>3, <3>2, <4>4, <5>1, <6>1, SubSeqProperties
        <5>3. ASSUME NEW x \in 1..n PROVE c[i + 2 + x] = m[x]
          <6>1. /\ Ones + 3 + x \in 1..HeadLength + n /\ g + (Ones + 3 + x) <= Len(c)
                /\ g + (Ones + 3 + x) = i + 2 + x
            BY <1>3, <3>1, <3>2, <4>4
          <6>2. c[g + (Ones + 3 + x)] = Pack(m)[Ones + 3 + x]
            BY <3>3, <6>1
          <6> QED BY <3>2, <6>1, <6>2
        <5>4. Len(m) = n
          BY DEF n
        <5>5. found \in Seq(Byte) /\ m \in Seq(Byte) /\ Len(found) = Len(m)
          BY <3>2, <4>2, <5>2, <5>4
        <5>6. \A x \in 1..Len(m) : found[x] = m[x]
          BY <4>2, <5>2, <5>3, <5>4
        <5> QED BY <5>5, <5>6, SeqEqual
      <4>6. m # <<>>
        BY <3>2 DEF n
      <4> QED BY <4>3, <4>4, <4>5, <4>6 DEF Outcome, t, n
    <3>15. w.left \in Int /\ n \in Int
      BY <1>3, <3>2, <3>12
    <3> QED BY <3>13, <3>14
  <2> QED BY <2>4, <2>5
<1> QED BY <1>5, <1>6

\* Whoever has 0, and with each number the next, has all.
LEMMA UpTo ==
    ASSUME NEW n \in Nat, NEW G, 0 \in G, \A i \in 1..n : i - 1 \in G => i \in G
    PROVE  \A i \in 0..n : i \in G
<1> SUFFICES ASSUME NEW k \in 0..n, k \notin G PROVE FALSE
  OBVIOUS
<1> DEFINE L == {i \in 0..n : i \notin G}
           R == OpToRel(<, Nat)
<1>1. L \subseteq Nat /\ L # {}
  OBVIOUS
<1>2. \A i, j \in Nat : j < i => <<j, i>> \in R
  BY DEF OpToRel
<1> HIDE DEF R
<1>3. IsWellFoundedOn(R, Nat)
  BY NatLessThanWellFounded DEF R
<1>4. PICK i \in L : \A j \in L : ~(<<j, i>> \in R)
  <2> HIDE DEF L
  <2> QED BY <1>1, <1>3, WFMin
<1>5. i \in 1..n /\ i - 1 \in 0..n /\ i \in Nat /\ i - 1 \in Nat /\ i - 1 < i
  OBVIOUS
<1>6. i - 1 \in G
  BY <1>2, <1>4, <1>5
<1> QED BY <1>5, <1>6

\* A search of n bytes of c: where it is after each.
Searched(f, c, n) == f = [i \in 0..n |-> IF i = 0 THEN Searching(c) ELSE SearchStep(f[i - 1], c)]

\* A search of n bytes is somewhere after each.
LEMMA SearchIsThere == ASSUME NEW c, NEW n \in Nat PROVE \E f : Searched(f, c, n)
<1> DEFINE G == {m \in 0..n : \E f : Searched(f, c, m)}
<1>1. 0 \in G
  <2> DEFINE f == [i \in 0..0 |-> Searching(c)]
  <2>1. Searched(f, c, 0)
    BY DEF Searched
  <2> QED BY <2>1
<1>2. ASSUME NEW m \in 1..n, m - 1 \in G PROVE m \in G
  <2>1. PICK g : Searched(g, c, m - 1)
    BY <1>2
  <2> DEFINE f == [i \in 0..m |-> IF i = m THEN SearchStep(g[m - 1], c) ELSE g[i]]
  <2>2. ASSUME NEW i \in 0..m PROVE f[i] = IF i = 0 THEN Searching(c) ELSE SearchStep(f[i - 1], c)
    <3>1. i # 0 => i - 1 \in 0..m /\ i - 1 # m
      OBVIOUS
    <3>2. i # 0 => f[i - 1] = g[i - 1]
      BY <3>1
    <3>3. CASE i = m
      BY <3>2, <3>3
    <3>4. CASE i # m
      <4>1. i \in 0..m - 1 /\ f[i] = g[i]
        BY <3>4
      <4> QED BY <2>1, <3>2, <4>1 DEF Searched
    <3> QED BY <3>3, <3>4
  <2>3. f = [i \in 0..m |-> f[i]]
    OBVIOUS
  <2>4. Searched(f, c, m)
    <3> HIDE DEF f
    <3> QED BY <2>2, <2>3 DEF Searched
  <2>5. m \in 0..n
    OBVIOUS
  <2> QED BY <2>4, <2>5
<1>3. n \in G
  <2>1. n \in 0..n
    OBVIOUS
  <2> HIDE DEF G
  <2> QED BY <1>1, <1>2, <2>1, UpTo
<1> QED BY <1>3

\* The search finds the message when it is all there, and nothing else ever.
LEMMA ReadFromBuffIs ==
    ASSUME NEW c, NEW g, NEW m, Before(c, g, m)
    PROVE  Outcome(ReadFromBuff(c), c, g, m)
<1> DEFINE n == Len(c) + 1
           seek[i \in 0..Len(c) + 1] ==
               IF i = 0 THEN Searching(c) ELSE SearchStep(seek[i - 1], c)
           Over(s) == s.over /\ Outcome(s, c, g, m)
           G == {i \in 0..n : Over(seek[i]) \/ Going(seek[i], c, g, i)}
<1>1. Len(c) \in Nat /\ n \in Nat /\ g \in Nat /\ c \in Seq(Byte)
  BY LenProperties DEF Before
<1>2. ReadFromBuff(c) = seek[n]
  BY DEF ReadFromBuff
<1>3. Searched(seek, c, n)
  <2>1. PICK f : Searched(f, c, n)
    BY <1>1, SearchIsThere
  <2>2. seek = CHOOSE h : h = [i \in 0..n |-> IF i = 0 THEN Searching(c) ELSE SearchStep(h[i - 1], c)]
    BY DEF seek
  <2> HIDE DEF seek, n
  <2>3. \A h : Searched(h, c, n)
               <=> h = [i \in 0..n |-> IF i = 0 THEN Searching(c) ELSE SearchStep(h[i - 1], c)]
    BY DEF Searched
  <2> QED BY <2>1, <2>2, <2>3
<1> HIDE DEF seek
<1>4. 0 \in G
  <2>1. 0 \in 0..n
    BY <1>1
  <2>2. seek[0] = Searching(c)
    BY <1>3, <2>1 DEF Searched
  <2>3. /\ Ones \in Nat /\ HeadLength \in Int /\ StateOf(0) = "Wait"
    BY <1>1, ReceiverAssumption DEF HeadLength, COM_MSG_LENGTH, StateOf
  <2>4. <<>> \in Seq(Byte)
    OBVIOUS
  <2> DEFINE s == Searching(c)
  <2>5. s \in SearchState
    BY <1>1, <2>3, <2>4 DEF Searching, SearchState
  <2>6. /\ ~s.over /\ s.ret = 0 /\ s.message = 0 /\ s.left = Len(c) - 0 /\ s.code = <<>>
        /\ s.state = StateOf(0) /\ s.need = HeadLength - 0
    BY <1>1, <2>3 DEF Searching
  <2> HIDE DEF s
  <2>7. Matches(s, c, g, 0, 0)
    BY <1>1, <2>6 DEF Matches
  <2>8. Going(s, c, g, 0)
    BY <1>1, <2>3, <2>5, <2>6, <2>7 DEF Going
  <2> QED BY <2>1, <2>2, <2>8 DEF s
<1>5. ASSUME NEW i \in 1..n, i - 1 \in G PROVE i \in G
  <2> DEFINE s == seek[i - 1]
             t == SearchStep(s, c)
  <2>1. i \in 0..n /\ i # 0 /\ i - 1 + 1 = i
    BY <1>1
  <2>2. seek[i] = t
    BY <1>3, <2>1 DEF Searched
  <2>3. CASE Over(s)
    <3>1. t = s
      BY <2>3 DEF SearchStep
    <3> QED BY <2>1, <2>2, <2>3, <3>1
  <2>4. CASE Going(s, c, g, i - 1)
    <3>1. Over(t) \/ Going(t, c, g, i - 1 + 1)
      <4> HIDE DEF s
      <4> QED BY <2>4, SearchStepIs
    <3> HIDE DEF t
    <3>2. Over(t) \/ Going(t, c, g, i)
      BY <2>1, <3>1
    <3> QED BY <2>1, <2>2, <3>2
  <2> QED BY <1>5, <2>3, <2>4
<1>6. n \in G
  <2>1. n \in 0..n
    BY <1>1
  <2> HIDE DEF G, n
  <2> QED BY <1>1, <1>4, <1>5, <2>1, UpTo
<1>7. ~Going(seek[n], c, g, n)
  BY <1>1 DEF Going
<1> QED BY <1>2, <1>6, <1>7

-----------------------------------------------------------------------------
(***************************************************************************)
(* The bytes still to be searched are the messages still to be received.   *)
(***************************************************************************)
\* Message m takes the bytes behind the first a, to the b-th.
Stands(o, m, a, b) == /\ b = a + HeadLength + Len(m)
                      /\ \A x \in 1..HeadLength + Len(m) : o[a + x] = Pack(m)[x]

\* How the bytes that are not yet searched consist of the messages ms that follow the first
\* k: message i begins behind at[i] bytes, and in front of the first is no delimiter.
Laid(o, ms, k, at) ==
    /\ o \in Seq(Byte) /\ ms \in Seq(Payloads) /\ k \in 0..Len(ms)
    /\ \A i \in k + 1..Len(ms) + 1 : at[i] \in 0..Len(o)
    /\ \A i, j \in k + 1..Len(ms) + 1 : i <= j => at[i] <= at[j]
    /\ at[Len(ms) + 1] = Len(o)
    /\ \A i \in k + 1..Len(ms) : Stands(o, ms[i], at[i], at[i + 1])
    /\ Clean(o, at[k + 1])

\* What may come before the first message.
LEMMA LeftoverIs == ASSUME NEW o \in Leftovers PROVE o \in Seq(Byte) /\ Clean(o, Len(o))
<1> DEFINE z == Append(o, ZERO)
<1>1. /\ o \in Seq(Byte) /\ Ones \in Nat /\ Len(o) \in Nat /\ ~HasHead(z)
      /\ Len(Delimiter) = Ones + 2 /\ Delimiter[Ones + 2] = ZERO
  BY ReceiverAssumption, DelimiterIs, LenProperties
<1>2. /\ Len(z) = Len(o) + 1 /\ z[Len(o) + 1] = ZERO
      /\ \A y \in 1..Len(o) : z[y] = o[y]
  <2>1. ZERO \in Byte
    BY DEF ZERO, Byte
  <2> QED BY <1>1, <2>1, AppendProperties
<1> HIDE DEF z
<1>3. \A i \in 0..Len(o) - (Ones + 1) : \E x \in 1..Ones + 2 : z[i + x] # Delimiter[x]
  <2>1. Len(z) - Len(Delimiter) = Len(o) - (Ones + 1)
    BY <1>1, <1>2
  <2> QED BY <1>1, <2>1 DEF HasHead
<1>4. ASSUME NEW e \in Ones + 2..Len(o)
      PROVE  \E x \in 1..Ones + 2 : o[e - (Ones + 2) + x] # Delimiter[x]
  <2>1. e - (Ones + 2) \in 0..Len(o) - (Ones + 1)
    BY <1>1
  <2>2. PICK x \in 1..Ones + 2 : z[e - (Ones + 2) + x] # Delimiter[x]
    BY <1>3, <2>1
  <2>3. e - (Ones + 2) + x \in 1..Len(o)
    BY <1>1
  <2> QED BY <1>2, <2>2, <2>3
<1>5. ASSUME Ones + 1 <= Len(o)
      PROVE  \E x \in 1..Ones + 1 : o[Len(o) - (Ones + 1) + x] # Delimiter[x]
  <2> DEFINE i == Len(o) - (Ones + 1)
  <2>1. i \in 0..Len(o) - (Ones + 1)
    BY <1>1, <1>5
  <2>2. PICK x \in 1..Ones + 2 : z[i + x] # Delimiter[x]
    BY <1>3, <2>1
  <2>3. x # Ones + 2
    <3>1. i + (Ones + 2) = Len(o) + 1
      BY <1>1
    <3> QED BY <1>1, <1>2, <2>2, <3>1
  <2>4. x \in 1..Ones + 1 /\ i + x \in 1..Len(o)
    BY <1>1, <1>5, <2>3
  <2> QED BY <1>2, <2>2, <2>4
<1> QED BY <1>1, <1>4, <1>5 DEF Clean

\* A connection is opened.
LEMMA LaidStarts == ASSUME NEW o \in Leftovers PROVE Laid(o, <<>>, 0, [i \in {1} |-> Len(o)])
<1> DEFINE at == [i \in {1} |-> Len(o)]
<1>1. o \in Seq(Byte) /\ Clean(o, Len(o)) /\ Len(o) \in Nat
  BY LeftoverIs, LenProperties
<1>2. <<>> \in Seq(Payloads) /\ Len(<<>>) = 0
  OBVIOUS
<1>3. at[1] = Len(o) /\ 0 + 1 = 1
  OBVIOUS
<1> HIDE DEF at
<1>4. \A i \in 0 + 1..0 + 1 : i = 1
  OBVIOUS
<1>5. \A i \in 0 + 1..0 : FALSE
  OBVIOUS
<1> QED BY <1>1, <1>2, <1>3, <1>4, <1>5 DEF Laid, at

\* Only bytes behind the first g are added.
LEMMA CleanGrows ==
    ASSUME NEW o, NEW u, NEW g \in Nat, Clean(o, g), Len(o) \in Nat, Len(u) \in Nat,
           g <= Len(o), \A x \in 1..g : u[x] = o[x]
    PROVE  Clean(u, g)
<1>1. Ones \in Nat
  BY ReceiverAssumption
<1>2. ASSUME NEW e \in Ones + 2..g
      PROVE  \E x \in 1..Ones + 2 : u[e - (Ones + 2) + x] # Delimiter[x]
  <2>1. e <= Len(o)
    BY <1>1
  <2>2. PICK x \in 1..Ones + 2 : o[e - (Ones + 2) + x] # Delimiter[x]
    BY <2>1 DEF Clean
  <2>3. e - (Ones + 2) + x \in 1..g
    BY <1>1
  <2> QED BY <2>2, <2>3
<1>3. ASSUME Ones + 1 <= g
      PROVE  \E x \in 1..Ones + 1 : u[g - (Ones + 1) + x] # Delimiter[x]
  <2>2. PICK x \in 1..Ones + 1 : o[g - (Ones + 1) + x] # Delimiter[x]
    BY <1>3 DEF Clean
  <2>3. g - (Ones + 1) + x \in 1..g
    BY <1>1, <1>3
  <2> QED BY <2>2, <2>3
<1> QED BY <1>2, <1>3 DEF Clean

\* The first bytes of those in front of the messages are dropped, d of them.
LEMMA CleanShrinks ==
    ASSUME NEW o, NEW u, NEW g \in Nat, NEW d \in 0..g, Clean(o, g), Len(o) \in Nat,
           Len(u) = Len(o) - d, g <= Len(o), \A x \in 1..Len(o) - d : u[x] = o[d + x]
    PROVE  Clean(u, g - d)
<1>1. Ones \in Nat
  BY ReceiverAssumption
<1>2. ASSUME NEW e \in Ones + 2..g - d
      PROVE  \E x \in 1..Ones + 2 : u[e - (Ones + 2) + x] # Delimiter[x]
  <2>0. PICK y \in Int : y = e + d
    OBVIOUS
  <2>1. y \in Ones + 2..g /\ y <= Len(o)
    BY <1>1, <2>0
  <2>2. PICK x \in 1..Ones + 2 : o[y - (Ones + 2) + x] # Delimiter[x]
    BY <2>1 DEF Clean
  <2>3. /\ e - (Ones + 2) + x \in 1..Len(o) - d
        /\ d + (e - (Ones + 2) + x) = y - (Ones + 2) + x
    BY <1>1, <2>0
  <2> QED BY <2>2, <2>3
<1>3. ASSUME Ones + 1 <= g - d
      PROVE  \E x \in 1..Ones + 1 : u[g - d - (Ones + 1) + x] # Delimiter[x]
  <2>1. Ones + 1 <= g
    BY <1>1, <1>3
  <2>2. PICK x \in 1..Ones + 1 : o[g - (Ones + 1) + x] # Delimiter[x]
    BY <2>1 DEF Clean
  <2>3. /\ g - d - (Ones + 1) + x \in 1..Len(o) - d
        /\ d + (g - d - (Ones + 1) + x) = g - (Ones + 1) + x
    BY <1>1, <1>3
  <2> QED BY <2>2, <2>3
<1> QED BY <1>2, <1>3 DEF Clean

\* The peer sends a message.
LEMMA LaidSends ==
    ASSUME NEW o, NEW ms, NEW k, NEW at, Laid(o, ms, k, at), NEW p \in Payloads, NEW bt,
           \A i \in k + 1..Len(ms) + 1 : bt[i] = at[i],
           bt[Len(ms) + 2] = Len(o) + HeadLength + Len(p)
    PROVE  Laid(o \o Pack(p), Append(ms, p), k, bt)
<1> DEFINE q == Pack(p)
           u == o \o q
           ns == Append(ms, p)
           n == Len(ms)
           end == Len(o) + HeadLength + Len(p)
<1>1. /\ o \in Seq(Byte) /\ ms \in Seq(Payloads) /\ k \in 0..n
      /\ \A i \in k + 1..n + 1 : at[i] \in 0..Len(o)
      /\ \A i, j \in k + 1..n + 1 : i <= j => at[i] <= at[j]
      /\ at[n + 1] = Len(o)
      /\ \A i \in k + 1..n : Stands(o, ms[i], at[i], at[i + 1])
      /\ Clean(o, at[k + 1])
  BY DEF Laid
<1>2. n \in Nat /\ Len(o) \in Nat /\ k \in Nat /\ k <= n
  BY <1>1, LenProperties
<1>3. q \in Seq(Byte) /\ Len(q) = HeadLength + Len(p) /\ HeadLength \in Nat /\ Len(p) \in Nat
  <2>1. Len(p) \in Nat /\ q \in Seq(Byte) /\ Len(q) = HeadLength + Len(p)
        /\ HeadLength = Ones + 3 /\ Ones \in Nat
    BY PackIs
  <2>2. HeadLength \in Nat
    BY <2>1
  <2> QED BY <2>1, <2>2
<1> HIDE DEF q
<1>4. /\ u \in Seq(Byte) /\ Len(u) = end
      /\ \A x \in 1..Len(o) : u[x] = o[x]
      /\ \A x \in 1..HeadLength + Len(p) : u[Len(o) + x] = q[x]
  <2>1. /\ u \in Seq(Byte) /\ Len(u) = Len(o) + Len(q)
        /\ \A x \in 1..Len(o) + Len(q) : u[x] = IF x <= Len(o) THEN o[x] ELSE q[x - Len(o)]
    BY <1>1, <1>3, ConcatProperties
  <2> HIDE DEF u
  <2>2. ASSUME NEW x \in 1..HeadLength + Len(p) PROVE u[Len(o) + x] = q[x]
    <3>1. PICK y \in Int : y = Len(o) + x
      BY <1>2, <1>3
    <3>2. y \in 1..Len(o) + Len(q) /\ ~(y <= Len(o)) /\ y - Len(o) = x
      BY <1>2, <1>3, <3>1
    <3> QED BY <2>1, <3>1, <3>2
  <2>3. \A x \in 1..Len(o) : x \in 1..Len(o) + Len(q) /\ x <= Len(o)
    BY <1>2, <1>3
  <2>4. Len(u) = end
    BY <1>2, <1>3, <2>1
  <2> QED BY <2>1, <2>2, <2>3, <2>4
<1>5. ns \in Seq(Payloads) /\ Len(ns) = n + 1 /\ ns[n + 1] = p /\ \A i \in 1..n : ns[i] = ms[i]
  BY <1>1, AppendProperties
<1>6. /\ end \in Nat /\ Len(o) <= end /\ bt[n + 2] = end
      /\ \A i \in k + 1..n + 1 : bt[i] = at[i] /\ i \in k + 1..n + 2
  BY <1>2, <1>3
<1> HIDE DEF u, ns, n, end
<1>7. \A i \in k + 1..n + 2 : bt[i] \in 0..end
  <2> TAKE i \in k + 1..n + 2
  <2>1. CASE i = n + 2
    BY <1>6, <2>1
  <2>2. CASE i # n + 2
    <3>1. i \in k + 1..n + 1
      BY <1>2, <2>2
    <3> QED BY <1>1, <1>2, <1>6, <3>1
  <2> QED BY <2>1, <2>2
<1>8. \A i, j \in k + 1..n + 2 : i <= j => bt[i] <= bt[j]
  <2> SUFFICES ASSUME NEW i \in k + 1..n + 2, NEW j \in k + 1..n + 2, i <= j
               PROVE  bt[i] <= bt[j]
    OBVIOUS
  <2>1. CASE j = n + 2
    BY <1>6, <1>7, <2>1
  <2>2. CASE j # n + 2
    <3>1. i \in k + 1..n + 1 /\ j \in k + 1..n + 1
      BY <1>2, <2>2
    <3> QED BY <1>1, <1>6, <3>1
  <2> QED BY <2>1, <2>2
<1>9. ASSUME NEW i \in k + 1..n + 1 PROVE Stands(u, ns[i], bt[i], bt[i + 1])
  <2>1. CASE i = n + 1
    <3>1. bt[i] = Len(o) /\ bt[i + 1] = end /\ ns[i] = p
      <4>1. i + 1 = n + 2
        BY <1>2, <2>1
      <4> QED BY <1>1, <1>5, <1>6, <2>1, <4>1
    <3>2. Stands(u, p, Len(o), end)
      BY <1>4 DEF Stands, end, q
    <3> QED BY <3>1, <3>2
  <2>2. CASE i # n + 1
    <3>1. i \in k + 1..n /\ i + 1 \in k + 1..n + 1 /\ i \in 1..n
      BY <1>2, <2>2
    <3>2. Stands(o, ms[i], at[i], at[i + 1]) /\ at[i] \in 0..Len(o) /\ at[i + 1] \in 0..Len(o)
      BY <1>1, <3>1
    <3>3. ns[i] = ms[i] /\ bt[i] = at[i] /\ bt[i + 1] = at[i + 1]
      BY <1>5, <1>6, <3>1
    <3>4. Len(ms[i]) \in Nat
      <4>1. ms[i] \in Payloads
        BY <1>1, <3>1, ElementOfSeq DEF n
      <4> QED BY <4>1, PackIs
    <3>5. \A x \in 1..HeadLength + Len(ms[i]) : at[i] + x \in 1..Len(o)
      <4>1. PICK a \in Int, b \in Int : a = at[i] /\ b = at[i + 1]
        BY <3>2
      <4>2. PICK l \in Int : l = HeadLength + Len(ms[i])
        BY <1>3, <3>4
      <4>4. a >= 0 /\ b <= Len(o) /\ b = a + l
        <5>1. b = a + HeadLength + Len(ms[i])
          BY <3>2, <4>1 DEF Stands
        <5>2. b = a + l
          BY <1>3, <3>4, <4>1, <4>2, <5>1
        <5> QED BY <1>2, <3>2, <4>1, <5>2
      <4>3. \A x \in 1..HeadLength + Len(ms[i]) : a + x \in 1..Len(o)
        BY <1>2, <4>2, <4>4
      <4> QED BY <4>1, <4>3
    <3> QED BY <1>4, <3>2, <3>3, <3>5 DEF Stands
  <2> QED BY <2>1, <2>2
<1>10. Clean(u, bt[k + 1])
  <2>1. k + 1 \in k + 1..n + 1
    BY <1>2
  <2>2. bt[k + 1] = at[k + 1] /\ at[k + 1] \in 0..Len(o)
    BY <1>1, <1>6, <2>1
  <2>3. \A x \in 1..at[k + 1] : x \in 1..Len(o)
    BY <1>2, <2>2
  <2>4. at[k + 1] \in Nat /\ at[k + 1] <= Len(o) /\ Len(u) \in Nat
    BY <1>2, <1>4, <1>6, <2>2
  <2> QED BY <1>1, <1>2, <1>4, <2>2, <2>3, <2>4, CleanGrows
<1>11. k \in 0..n + 1 /\ n + 1 + 1 = n + 2
  BY <1>2
<1>12. Laid(u, ns, k, bt)
  BY <1>4, <1>5, <1>6, <1>7, <1>8, <1>9, <1>10, <1>11 DEF Laid
<1> QED BY <1>12 DEF u, ns, q

\* Bytes are dropped: some of those in front of the messages, or all up to the end of
\* message j.
LEMMA LaidDrops ==
    ASSUME NEW o, NEW ms, NEW k, NEW at, Laid(o, ms, k, at), NEW j \in k..Len(ms),
           NEW d \in 0..at[j + 1], j = k \/ d = at[j + 1]
    PROVE  Laid(SubSeq(o, d + 1, Len(o)), ms, j, [i \in j + 1..Len(ms) + 1 |-> at[i] - d])
<1> DEFINE n == Len(ms)
           u == SubSeq(o, d + 1, Len(o))
           bt == [i \in j + 1..n + 1 |-> at[i] - d]
<1>1. /\ o \in Seq(Byte) /\ ms \in Seq(Payloads) /\ k \in 0..n
      /\ \A i \in k + 1..n + 1 : at[i] \in 0..Len(o)
      /\ \A i, h \in k + 1..n + 1 : i <= h => at[i] <= at[h]
      /\ at[n + 1] = Len(o)
      /\ \A i \in k + 1..n : Stands(o, ms[i], at[i], at[i + 1])
      /\ Clean(o, at[k + 1])
  BY DEF Laid
<1>2. n \in Nat /\ Len(o) \in Nat /\ k \in Nat /\ k <= n
  BY <1>1, LenProperties
<1> HIDE DEF n
<1>3. j \in Nat /\ k <= j /\ j <= n
  BY <1>2 DEF n
<1>4. j + 1 \in k + 1..n + 1 /\ k + 1 \in k + 1..n + 1
  BY <1>2, <1>3
<1>5. d \in Nat /\ d <= at[j + 1] /\ at[j + 1] \in Nat /\ d <= Len(o)
  <2>1. at[j + 1] \in 0..Len(o)
    BY <1>1, <1>4
  <2> QED BY <1>2, <2>1
<1>6. u \in Seq(Byte) /\ Len(u) = Len(o) - d
  BY <1>1, <1>2, <1>5, PartIs
<1>7. \A x \in 1..Len(o) - d : u[x] = o[d + x]
  BY <1>1, <1>2, <1>5, PartIs
<1> HIDE DEF u
<1>8. \A i \in j + 1..n + 1 : /\ i \in k + 1..n + 1 /\ at[i] \in Nat /\ at[i] <= Len(o)
                              /\ d <= at[i] /\ bt[i] = at[i] - d
  <2> TAKE i \in j + 1..n + 1
  <2>1. i \in k + 1..n + 1 /\ j + 1 <= i
    BY <1>2, <1>3
  <2>2. at[i] \in 0..Len(o) /\ at[j + 1] <= at[i]
    BY <1>1, <1>4, <2>1
  <2> QED BY <1>2, <1>5, <2>1, <2>2
<1> HIDE DEF bt
<1>9. \A i \in j + 1..n + 1 : bt[i] \in 0..Len(o) - d
  BY <1>2, <1>5, <1>8
<1>10. \A i, h \in j + 1..n + 1 : i <= h => bt[i] <= bt[h]
  <2> SUFFICES ASSUME NEW i \in j + 1..n + 1, NEW h \in j + 1..n + 1, i <= h
               PROVE  bt[i] <= bt[h]
    OBVIOUS
  <2>1. at[i] <= at[h] /\ at[i] \in Nat /\ at[h] \in Nat
    BY <1>1, <1>8
  <2> QED BY <1>5, <1>8, <2>1
<1>11. bt[n + 1] = Len(o) - d
  <2>1. n + 1 \in j + 1..n + 1
    BY <1>2, <1>3
  <2> QED BY <1>1, <1>8, <2>1
<1>12. ASSUME NEW i \in j + 1..n PROVE Stands(u, ms[i], bt[i], bt[i + 1])
  <2>1. i \in j + 1..n + 1 /\ i + 1 \in j + 1..n + 1 /\ i \in k + 1..n /\ i \in 1..n
    BY <1>2, <1>3
  <2>2. PICK a \in Int, b \in Int : a = at[i] /\ b = at[i + 1]
    BY <1>8, <2>1
  <2>3. Stands(o, ms[i], a, b)
    BY <1>1, <2>1, <2>2
  <2>4. bt[i] = a - d /\ bt[i + 1] = b - d /\ d <= a /\ b <= Len(o)
    BY <1>8, <2>1, <2>2
  <2>a. HeadLength \in Int /\ Len(ms[i]) \in Int
    <3>1. ms[i] \in Payloads
      BY <1>1, <2>1, ElementOfSeq DEF n
    <3>2. Len(ms[i]) \in Nat /\ HeadLength = Ones + 3 /\ Ones \in Nat
      BY <3>1, PackIs
    <3> QED BY <3>2
  <2>b. PICK l \in Int : l = HeadLength + Len(ms[i])
    BY <2>a
  <2>c. b = a + HeadLength + Len(ms[i])
    BY <2>3 DEF Stands
  <2>5. b = a + l
    <3>1. PICK h \in Int, y \in Int : h = HeadLength /\ y = Len(ms[i])
      BY <2>a
    <3>2. b = a + h + y /\ l = h + y
      BY <2>b, <2>c, <3>1
    <3> QED BY <3>2
  <2>6. \A x \in 1..l : u[a - d + x] = Pack(ms[i])[x]
    <3> TAKE x \in 1..l
    <3>1. a - d + x \in 1..Len(o) - d
      <4>1. d \in Int /\ Len(o) \in Int /\ d <= a /\ b <= Len(o) /\ a + x <= b
        BY <1>2, <1>5, <2>4, <2>5
      <4> QED BY <4>1
    <3>2. d + (a - d + x) = a + x
      BY <1>5
    <3>3. u[a - d + x] = o[a + x]
      BY <1>7, <3>1, <3>2
    <3> QED BY <2>3, <2>b, <3>3 DEF Stands
  <2>8. b - d = (a - d) + HeadLength + Len(ms[i])
    BY <1>5, <2>a, <2>c
  <2>9. Stands(u, ms[i], a - d, b - d)
    BY <2>b, <2>6, <2>8 DEF Stands
  <2> QED BY <2>4, <2>9
<1>13. Clean(u, bt[j + 1])
  <2>1. j + 1 \in j + 1..n + 1
    BY <1>2, <1>3
  <2>2. bt[j + 1] = at[j + 1] - d /\ at[j + 1] <= Len(o)
    BY <1>8, <2>1
  <2>3. CASE j = k
    BY <1>1, <1>2, <1>5, <1>6, <1>7, <2>2, <2>3, CleanShrinks
  <2>4. CASE d = at[j + 1]
    <3>1. bt[j + 1] = 0
      BY <1>5, <2>2, <2>4
    <3>2. Clean(u, 0)
      <4>1. Ones \in Nat
        BY ReceiverAssumption
      <4>2. (\A e \in Ones + 2..0 : FALSE) /\ ~(Ones + 1 <= 0)
        BY <4>1
      <4> QED BY <4>2 DEF Clean
    <3> QED BY <3>1, <3>2
  <2> QED BY <2>3, <2>4
<1>14. j \in 0..n
  BY <1>2, <1>3
<1>15. Laid(u, ms, j, bt)
  BY <1>1, <1>6, <1>9, <1>10, <1>11, <1>12, <1>13, <1>14 DEF Laid, n
<1> QED BY <1>15 DEF u, bt, n

\* The message that is next, if it is on its way.
NextOf(ms, k) == IF k < Len(ms) THEN ms[k + 1] ELSE <<>>

\* What has been read into the buffer is what the search expects.
LEMMA BufferIsBefore ==
    ASSUME NEW c \in Seq(Byte), NEW w \in Seq(Byte), NEW ms, NEW k, NEW at,
           Laid(c \o w, ms, k, at)
    PROVE  Before(c, at[k + 1], NextOf(ms, k))
<1> DEFINE o == c \o w
           n == Len(ms)
           m == NextOf(ms, k)
           g == at[k + 1]
<1>1. /\ o \in Seq(Byte) /\ ms \in Seq(Payloads) /\ k \in 0..n
      /\ \A i \in k + 1..n + 1 : at[i] \in 0..Len(o)
      /\ at[n + 1] = Len(o)
      /\ \A i \in k + 1..n : Stands(o, ms[i], at[i], at[i + 1])
      /\ Clean(o, g)
  BY DEF Laid
<1>2. n \in Nat /\ Len(o) \in Nat /\ k \in Nat /\ k <= n /\ Len(c) \in Nat /\ Len(w) \in Nat
  BY <1>1, LenProperties
<1>3. Len(o) = Len(c) + Len(w)
  BY ConcatProperties
<1>4. \A x \in 1..Len(c) : o[x] = c[x]
  <2>1. \A x \in 1..Len(c) : x \in 1..Len(c) + Len(w) /\ x <= Len(c)
    BY <1>2
  <2> QED BY <2>1, ConcatProperties
<1> HIDE DEF o, n, m
<1>5. g \in Nat /\ g <= Len(o)
  <2>1. k + 1 \in k + 1..n + 1
    BY <1>2
  <2>2. g \in 0..Len(o)
    BY <1>1, <2>1
  <2> QED BY <1>2, <2>2
<1> HIDE DEF g
<1>6. Clean(c, g)
  <2>1. Ones \in Nat
    BY ReceiverAssumption
  <2>2. ASSUME NEW e \in Ones + 2..g, e <= Len(c)
        PROVE  \E x \in 1..Ones + 2 : c[e - (Ones + 2) + x] # Delimiter[x]
    <3>1. e <= Len(o)
      BY <1>2, <1>3, <2>1, <2>2
    <3>2. PICK x \in 1..Ones + 2 : o[e - (Ones + 2) + x] # Delimiter[x]
      BY <1>1, <3>1 DEF Clean
    <3>3. e - (Ones + 2) + x \in 1..Len(c)
      BY <1>2, <2>1, <2>2
    <3> QED BY <1>4, <3>2, <3>3
  <2>3. ASSUME Ones + 1 <= g, g <= Len(c)
        PROVE  \E x \in 1..Ones + 1 : c[g - (Ones + 1) + x] # Delimiter[x]
    <3>2. PICK x \in 1..Ones + 1 : o[g - (Ones + 1) + x] # Delimiter[x]
      BY <1>1, <1>5, <2>3 DEF Clean
    <3>3. g - (Ones + 1) + x \in 1..Len(c)
      BY <1>2, <1>5, <2>1, <2>3
    <3> QED BY <1>4, <3>2, <3>3
  <2> QED BY <2>2, <2>3 DEF Clean
<1>7. CASE k < n
  <2>1. m = ms[k + 1] /\ k + 1 \in k + 1..n /\ k + 1 \in 1..n
    BY <1>2, <1>7 DEF m, n, NextOf
  <2>2. m \in Payloads
    BY <1>1, <2>1, ElementOfSeq DEF n
  <2>3. Stands(o, m, g, at[k + 1 + 1])
    BY <1>1, <2>1 DEF g
  <2>4. \A x \in 1..HeadLength + Len(m) : g + x <= Len(c) => c[g + x] = Pack(m)[x]
    <3> SUFFICES ASSUME NEW x \in 1..HeadLength + Len(m), g + x <= Len(c)
                 PROVE  c[g + x] = Pack(m)[x]
      OBVIOUS
    <3>1. g + x \in 1..Len(c)
      <4>1. HeadLength + Len(m) \in Int
        <5>1. Len(m) \in Nat /\ HeadLength = Ones + 3 /\ Ones \in Nat
          BY <2>2, PackIs
        <5> QED BY <5>1
      <4> QED BY <1>2, <1>5, <4>1
    <3> QED BY <1>4, <2>3, <3>1 DEF Stands
  <2> QED BY <1>5, <1>6, <2>2, <2>4 DEF Before, m, g
<1>8. CASE ~(k < n)
  <2>1. k = n /\ m = <<>>
    BY <1>2, <1>8 DEF m, n, NextOf
  <2>2. g = Len(o)
    BY <1>1, <2>1 DEF g
  <2>3. Len(c) <= g
    BY <1>2, <1>3, <2>2
  <2> QED BY <1>5, <1>6, <2>1, <2>3 DEF Before, m, g
<1> QED BY <1>7, <1>8

\* The messages received are the first of those sent; the bytes of the buffer, c, and those
\* still to be read, w, are the others, and unless the buffer may have another message
\* (flag) its bytes do not reach the end of the next.
Stream(c, w, ms, rs, flag) ==
    /\ rs \in Seq(Payloads) /\ Len(rs) <= Len(ms) /\ \A i \in 1..Len(rs) : rs[i] = ms[i]
    /\ \E at : /\ Laid(c \o w, ms, Len(rs), at)
               /\ ~flag /\ Len(rs) < Len(ms) => Len(c) < at[Len(rs) + 2]

\* To drop bytes of the buffer is to drop bytes of the stream.
LEMMA RestIs ==
    ASSUME NEW c \in Seq(Byte), NEW w \in Seq(Byte), NEW d \in 0..Len(c)
    PROVE  SubSeq(c \o w, d + 1, Len(c \o w)) = SubSeq(c, d + 1, Len(c)) \o w
<1> DEFINE o == c \o w
           a == SubSeq(o, d + 1, Len(o))
           r == SubSeq(c, d + 1, Len(c))
           b == r \o w
<1>1. Len(c) \in Nat /\ Len(w) \in Nat /\ d \in Nat /\ d <= Len(c)
  BY LenProperties
<1>2. /\ o \in Seq(Byte) /\ Len(o) = Len(c) + Len(w)
      /\ \A x \in 1..Len(c) + Len(w) : o[x] = IF x <= Len(c) THEN c[x] ELSE w[x - Len(c)]
  BY ConcatProperties
<1> HIDE DEF o
<1>3. /\ a \in Seq(Byte) /\ Len(a) = Len(c) + Len(w) - d
      /\ \A x \in 1..Len(c) + Len(w) - d : a[x] = o[d + x]
  <2>1. d \in 0..Len(o)
    BY <1>1, <1>2
  <2> QED BY <1>2, <2>1, PartIs
<1> HIDE DEF a
<1>4. r \in Seq(Byte) /\ Len(r) = Len(c) - d
  BY <1>1, PartIs
<1>5. \A x \in 1..Len(c) - d : r[x] = c[d + x]
  BY <1>1, PartIs
<1> HIDE DEF r
<1>6. /\ b \in Seq(Byte) /\ Len(b) = Len(r) + Len(w)
      /\ \A x \in 1..Len(r) + Len(w) : b[x] = IF x <= Len(r) THEN r[x] ELSE w[x - Len(r)]
  BY <1>4, ConcatProperties
<1> HIDE DEF b
<1>7. Len(b) = Len(a)
  BY <1>1, <1>3, <1>4, <1>6
<1>8. ASSUME NEW x \in 1..Len(a) PROVE a[x] = b[x]
  <2>1. /\ x \in 1..Len(c) + Len(w) - d /\ d + x \in 1..Len(c) + Len(w)
        /\ x \in 1..Len(r) + Len(w)
    BY <1>1, <1>3, <1>4
  <2>2. CASE x <= Len(c) - d
    <3>1. x \in 1..Len(c) - d /\ d + x <= Len(c) /\ x <= Len(r)
      BY <1>1, <1>4, <2>1, <2>2
    <3> QED BY <1>2, <1>3, <1>5, <1>6, <2>1, <3>1
  <2>3. CASE ~(x <= Len(c) - d)
    <3>1. PICK y \in Int : y = d + x
      BY <1>1
    <3>2. ~(y <= Len(c)) /\ ~(x <= Len(r)) /\ y - Len(c) = x - Len(r)
      BY <1>1, <1>4, <2>1, <2>3, <3>1
    <3>3. a[x] = o[y] /\ o[y] = w[y - Len(c)]
      BY <1>2, <1>3, <2>1, <3>1, <3>2
    <3>4. b[x] = w[x - Len(r)]
      BY <1>6, <2>1, <3>2
    <3> QED BY <3>2, <3>3, <3>4
  <2> QED BY <2>2, <2>3
<1>9. a = b
  BY <1>3, <1>6, <1>7, <1>8, SeqEqual
<1> QED BY <1>9 DEF a, b, o, r

\* The search takes the next message from the stream, or bytes that belong to none.
LEMMA SearchTakes ==
    ASSUME NEW c \in Seq(Byte), NEW w \in Seq(Byte), NEW ms, NEW rs, Stream(c, w, ms, rs, TRUE)
    PROVE  LET s == ReadFromBuff(c)
               rest == SubSeq(c, s.ret + 1, Len(c))
           IN \/ s.code = <<>> /\ s.ret \in 0..Len(c) /\ Stream(rest, w, ms, rs, FALSE)
              \/ /\ s.code # <<>> /\ s.ret \in 1..Len(c)
                 /\ \A flag \in BOOLEAN : (~flag => s.ret = Len(c))
                              => Stream(rest, w, ms, Append(rs, s.code), flag)
<1> DEFINE s == ReadFromBuff(c)
           d == s.ret
           k == Len(rs)
           n == Len(ms)
           m == NextOf(ms, k)
           o == c \o w
           rest == SubSeq(c, d + 1, Len(c))
<1>1. /\ rs \in Seq(Payloads) /\ k <= n /\ \A i \in 1..k : rs[i] = ms[i]
  BY DEF Stream
<1>2. PICK at : Laid(o, ms, k, at)
  BY DEF Stream
<1>3. /\ o \in Seq(Byte) /\ ms \in Seq(Payloads) /\ k \in 0..n
      /\ \A i \in k + 1..n + 1 : at[i] \in 0..Len(o)
      /\ \A i \in k + 1..n : Stands(o, ms[i], at[i], at[i + 1])
      /\ at[n + 1] = Len(o)
  BY <1>2 DEF Laid
<1>4. Len(c) \in Nat /\ k \in Nat /\ n \in Nat /\ Len(w) \in Nat /\ Len(o) = Len(c) + Len(w)
  BY <1>1, <1>3, LenProperties, ConcatProperties
<1>5. Outcome(s, c, at[k + 1], m)
  BY <1>2, BufferIsBefore, ReadFromBuffIs
<1> HIDE DEF s, n, k
<1>6. at[k + 1] \in Nat /\ at[k + 1] <= Len(o)
  <2>1. k + 1 \in k + 1..n + 1
    BY <1>1, <1>4
  <2> QED BY <1>3, <1>4, <2>1
<1>7. ASSUME k < n
      PROVE  /\ m = ms[k + 1] /\ m \in Payloads /\ m # <<>>
             /\ Len(m) \in Nat /\ HeadLength \in Nat /\ HeadLength > 0
             /\ at[k + 2] = at[k + 1] + HeadLength + Len(m)
  <2>1. m = ms[k + 1] /\ k + 1 \in k + 1..n /\ k + 1 \in 1..n /\ k + 1 + 1 = k + 2
    BY <1>4, <1>7 DEF NextOf, n
  <2>2. m \in Payloads
    BY <1>3, <2>1, ElementOfSeq DEF n
  <2>3. Len(m) \in Nat /\ Len(m) >= 1 /\ HeadLength = Ones + 3 /\ Ones \in Nat
    BY <2>2, PackIs
  <2>4. m # <<>> /\ HeadLength \in Nat /\ HeadLength > 0
    BY <2>3
  <2>5. at[k + 2] = at[k + 1] + HeadLength + Len(m)
    BY <1>3, <2>1 DEF Stands
  <2> QED BY <2>1, <2>2, <2>3, <2>4, <2>5
<1>8. ASSUME d \in 0..Len(c) PROVE SubSeq(o, d + 1, Len(o)) = rest \o w /\ Len(rest) = Len(c) - d
  <2> HIDE DEF d
  <2> QED BY <1>8, RestIs, PartIs
<1>9. CASE /\ s.code = <<>> /\ s.ret \in 0..Len(c) /\ s.ret <= at[k + 1]
           /\ m # <<>> => Len(c) < at[k + 1] + HeadLength + Len(m)
  <2> DEFINE bt == [i \in k + 1..n + 1 |-> at[i] - d]
  <2>1. d \in 0..Len(c) /\ d \in 0..at[k + 1] /\ d \in Int
    BY <1>4, <1>6, <1>9
  <2>2. Laid(rest \o w, ms, k, bt)
    <3>1. k \in k..n
      BY <1>1, <1>4
    <3> HIDE DEF d, rest, o
    <3>2. Laid(SubSeq(o, d + 1, Len(o)), ms, k, bt)
      BY <1>2, <2>1, <3>1, LaidDrops DEF n
    <3> QED BY <1>8, <2>1, <3>2
  <2>3. ASSUME k < n PROVE Len(rest) < bt[k + 2]
    <3>1. k + 2 \in k + 1..n + 1
      BY <1>4, <2>3
    <3>2. bt[k + 2] = (at[k + 1] + HeadLength + Len(m)) - d
      <4>1. bt[k + 2] = at[k + 2] - d
        BY <3>1
      <4>2. at[k + 2] = at[k + 1] + HeadLength + Len(m)
        BY <1>7, <2>3
      <4> HIDE DEF m, d, bt
      <4> QED BY <4>1, <4>2
    <3>3. Len(rest) = Len(c) - d /\ Len(c) < at[k + 1] + HeadLength + Len(m)
      BY <1>7, <1>8, <1>9, <2>1, <2>3
    <3> HIDE DEF bt, rest, m, d
    <3> QED BY <1>4, <1>6, <1>7, <2>1, <2>3, <3>2, <3>3
  <2> HIDE DEF bt, rest
  <2>4. Stream(rest, w, ms, rs, FALSE)
    BY <1>1, <2>2, <2>3 DEF Stream, k, n
  <2> QED BY <1>9, <2>4 DEF s, rest
<1>10. CASE /\ m # <<>> /\ s.code = m /\ s.ret = at[k + 1] + HeadLength + Len(m) /\ s.ret <= Len(c)
  <2> DEFINE bt == [i \in k + 1 + 1..n + 1 |-> at[i] - d]
             us == Append(rs, m)
  <2>1. k < n
    BY <1>10 DEF NextOf, n
  <2>2. d = at[k + 2] /\ d \in 1..Len(c)
    <3>1. d = at[k + 2]
      BY <1>7, <1>10, <2>1
    <3>2. at[k + 1] + HeadLength + Len(m) \in 1..Len(c)
      <4> HIDE DEF m
      <4> QED BY <1>4, <1>6, <1>7, <1>10, <2>1
    <3> QED BY <1>10, <3>1, <3>2
  <2>3. /\ us \in Seq(Payloads) /\ Len(us) = k + 1 /\ us[k + 1] = m
        /\ \A i \in 1..k : us[i] = rs[i]
    <3> HIDE DEF m
    <3> QED BY <1>1, <1>7, <2>1, AppendProperties DEF k
  <2>4. \A i \in 1..k + 1 : us[i] = ms[i]
    <3> TAKE i \in 1..k + 1
    <3>1. CASE i = k + 1
      BY <1>7, <2>1, <2>3, <3>1
    <3>2. CASE i # k + 1
      <4>1. i \in 1..k
        BY <1>4, <3>2
      <4> QED BY <1>1, <2>3, <4>1
    <3> QED BY <3>1, <3>2
  <2>5. Laid(rest \o w, ms, k + 1, bt)
    <3>1. k + 1 \in k..n /\ d \in 0..Len(c) /\ k + 1 + 1 = k + 2
      BY <1>4, <2>1, <2>2
    <3>2. d = at[k + 1 + 1] /\ d \in 0..at[k + 1 + 1]
      <4> HIDE DEF d
      <4> QED BY <1>4, <2>2, <3>1
    <3> HIDE DEF d, rest, o
    <3>3. Laid(SubSeq(o, d + 1, Len(o)), ms, k + 1, bt)
      BY <1>2, <3>1, <3>2, LaidDrops DEF n
    <3> QED BY <1>8, <3>1, <3>3
  <2>6. ASSUME NEW flag \in BOOLEAN, ~flag => d = Len(c) PROVE Stream(rest, w, ms, us, flag)
    <3>1. ASSUME ~flag, k + 1 < n PROVE Len(rest) < bt[k + 1 + 2]
      <4>1. Len(rest) = 0
        <5>1. d = Len(c) /\ d \in 0..Len(c)
          BY <1>4, <2>6, <3>1
        <5> HIDE DEF d, rest
        <5> QED BY <1>4, <1>8, <5>1
      <4>2. k + 1 + 2 \in k + 1 + 1..n + 1 /\ k + 2 \in k + 1..n /\ k + 2 \in 1..n
        BY <1>4, <3>1
      <4>3. Stands(o, ms[k + 2], at[k + 2], at[k + 2 + 1])
        BY <1>3, <4>2
      <4>4. ms[k + 2] \in Payloads
        BY <1>3, <4>2, ElementOfSeq DEF n
      <4>5. Len(ms[k + 2]) \in Nat /\ HeadLength \in Nat /\ HeadLength > 0
        BY <1>7, <2>1, <4>4, PackIs
      <4>6. k + 2 + 1 = k + 1 + 2
        BY <1>4
      <4>7. bt[k + 1 + 2] = at[k + 2 + 1] - d
        <5> HIDE DEF d
        <5> QED BY <4>2, <4>6
      <4>8. PICK h \in Int : h = HeadLength + Len(ms[k + 2]) /\ h > 0
        <5>1. PICK x \in Nat, y \in Nat : x = HeadLength /\ y = Len(ms[k + 2]) /\ x > 0
          BY <4>5
        <5>2. x + y \in Int /\ x + y > 0
          BY <5>1
        <5> QED BY <5>1, <5>2
      <4>9. d + HeadLength + Len(ms[k + 2]) = d + h
        <5>1. PICK x \in Nat, y \in Nat : x = HeadLength /\ y = Len(ms[k + 2])
          BY <4>5
        <5>2. PICK z \in Nat : z = d
          BY <1>4, <2>2
        <5> HIDE DEF d
        <5>3. h = x + y
          BY <4>8, <5>1
        <5>4. z + x + y = z + h
          BY <5>3
        <5> QED BY <5>1, <5>2, <5>4
      <4>10. at[k + 2 + 1] = d + h
        BY <2>2, <4>3, <4>9 DEF Stands
      <4> HIDE DEF d, bt, rest
      <4> QED BY <1>4, <2>2, <4>1, <4>7, <4>8, <4>10
    <3>2. k + 1 <= n
      BY <1>4, <2>1
    <3> HIDE DEF bt, rest, us
    <3> QED BY <2>3, <2>4, <2>5, <3>1, <3>2 DEF Stream, n
  <2>7. s.code # <<>> /\ s.ret \in 1..Len(c) /\ us = Append(rs, s.code)
    BY <1>10, <2>2
  <2> HIDE DEF us, rest
  <2> QED BY <2>6, <2>7 DEF s, rest
<1> HIDE DEF m
<1> QED BY <1>5, <1>9, <1>10 DEF Outcome

-----------------------------------------------------------------------------
(***************************************************************************)
(* The receiver.                                                           *)
(***************************************************************************)
BufferOK == /\ InLine(pRecvMsgBuf, Content(pRecvMsgBuf))
            /\ ~recvBufHasMessage => pRecvMsgBuf.pBufHead = 0
ReceiverInv ==
    /\ BufferOK
    /\ arrived \in Seq(Byte)
    /\ ~stale => Stream(Content(pRecvMsgBuf), arrived, sent, received, recvBufHasMessage)

\* What the receiver does with what it has read: the ring stays in one piece, and a
\* stream stays one.
LEMMA DeliverKeeps ==
    ASSUME NEW b, NEW c, InLine(b, c), Deliver(b), NEW w \in Seq(Byte), NEW ms
    PROVE  /\ BufferOK'
           /\ Stream(c, w, ms, received, TRUE)
                => Stream(Content(pRecvMsgBuf'), w, ms, received', recvBufHasMessage')
<1> DEFINE s == ReadFromBuff(Content(b))
           r == IF b.m_filledLength = 0 THEN [ret |-> 0, ring |-> b]
                ELSE ReadFromBuffer(b, b.m_filledLength, s.ret, 0)
           got == r.ret > 0 /\ s.code # <<>>
           m == IF s.ret \in 1..Len(c) THEN s.ret ELSE 0
           rest == SubSeq(c, m + 1, Len(c))
<1>1. /\ received' = IF got THEN Append(received, s.code) ELSE received
      /\ recvBufHasMessage' = (got /\ r.ring.m_filledLength > 0)
      /\ pRecvMsgBuf' = IF got THEN r.ring ELSE Rearrange(r.ring)
  BY DEF Deliver
<1>2. Content(b) = c /\ c \in Seq(Byte) /\ Len(c) \in Nat /\ Len(c) = b.m_filledLength
  BY LineContent, LineNumbers
<1>3. s = ReadFromBuff(c)
  BY <1>2
<1> HIDE DEF s
<1>4. m \in 0..Len(c) /\ m \in Nat
  BY <1>2
<1>5. rest \in Seq(Byte) /\ Len(rest) = Len(c) - m
  <2> HIDE DEF m
  <2> QED BY <1>2, <1>4, PartIs
<1>6. /\ InLine(r.ring, rest) /\ r.ring.m_filledLength = Len(rest)
      /\ r.ret = IF Len(c) = 0 THEN 0 ELSE s.ret
      /\ Len(c) > 0 /\ Len(rest) = 0 => r.ring.pBufHead = 0
  <2>1. CASE Len(c) = 0
    <3>1. r = [ret |-> 0, ring |-> b]
      BY <1>2, <2>1
    <3>2. rest = <<>> /\ c = <<>>
      <4>1. Len(rest) = 0
        <5> HIDE DEF rest, m
        <5>1. m = 0
          BY <1>2, <1>4, <2>1
        <5> QED BY <1>5, <2>1, <5>1
      <4> HIDE DEF rest
      <4> QED BY <1>2, <1>5, <2>1, <4>1, EmptySeq
    <3> HIDE DEF r, rest
    <3>3. r.ring = b /\ r.ret = 0 /\ rest = c
      BY <3>1, <3>2
    <3>4. InLine(r.ring, rest) /\ r.ring.m_filledLength = Len(rest)
      BY <1>2, <3>3
    <3> QED BY <2>1, <3>3, <3>4
  <2>2. CASE Len(c) > 0
    <3>1. r = ReadFromBuffer(b, b.m_filledLength, s.ret, 0)
      BY <1>2, <2>2
    <3>2. /\ r.ret = s.ret /\ InLine(r.ring, rest)
          /\ r.ring.m_filledLength = Len(c) - m
          /\ r.ring.m_filledLength = 0 => r.ring.pBufHead = 0
      <4> HIDE DEF r
      <4> QED BY <2>2, <3>1, ReadLine
    <3> HIDE DEF r, rest, m
    <3> QED BY <1>2, <1>5, <2>2, <3>2
  <2> HIDE DEF r, rest
  <2> QED BY <1>2, <2>1, <2>2
<1>7. InLine(Rearrange(r.ring), rest) /\ Rearrange(r.ring).pBufHead = 0
  <2> HIDE DEF r, rest
  <2> QED BY <1>6, RearrangeLine
<1> HIDE DEF r
<1>8. InLine(pRecvMsgBuf', rest) /\ Content(pRecvMsgBuf') = rest
  <2> HIDE DEF rest, got
  <2>1. InLine(pRecvMsgBuf', rest)
    BY <1>1, <1>6, <1>7
  <2> QED BY <2>1, LineContent
<1>9. ~recvBufHasMessage' => pRecvMsgBuf'.pBufHead = 0
  <2> SUFFICES ASSUME ~recvBufHasMessage' PROVE pRecvMsgBuf'.pBufHead = 0
    OBVIOUS
  <2>1. CASE got
    <3>1. Len(c) > 0 /\ Len(rest) = 0
      <4>1. ~(r.ring.m_filledLength > 0) /\ Len(rest) \in Nat /\ r.ret > 0
        <5> HIDE DEF rest
        <5> QED BY <1>1, <1>5, <2>1, LenProperties
      <4> HIDE DEF rest
      <4> QED BY <1>2, <1>6, <4>1
    <3> HIDE DEF rest, got
    <3> QED BY <1>1, <1>6, <2>1, <3>1
  <2>2. CASE ~got
    <3> HIDE DEF rest, got
    <3> QED BY <1>1, <1>7, <2>2
  <2> QED BY <2>1, <2>2
<1>10. BufferOK'
  <2> HIDE DEF rest
  <2> QED BY <1>8, <1>9 DEF BufferOK
<1>11. ASSUME Stream(c, w, ms, received, TRUE)
       PROVE  Stream(Content(pRecvMsgBuf'), w, ms, received', recvBufHasMessage')
  <2> DEFINE after == SubSeq(c, s.ret + 1, Len(c))
  <2>1. \/ s.code = <<>> /\ s.ret \in 0..Len(c) /\ Stream(after, w, ms, received, FALSE)
        \/ /\ s.code # <<>> /\ s.ret \in 1..Len(c)
           /\ \A flag \in BOOLEAN : (~flag => s.ret = Len(c))
                        => Stream(after, w, ms, Append(received, s.code), flag)
    <3> QED BY <1>2, <1>3, <1>11, SearchTakes
  <2>2. CASE s.code = <<>> /\ s.ret \in 0..Len(c) /\ Stream(after, w, ms, received, FALSE)
    <3>1. m = s.ret
      BY <1>2, <2>2
    <3>2. rest = after
      BY <3>1
    <3>3. ~got
      BY <2>2
    <3> HIDE DEF rest, after, got
    <3>4. received' = received /\ recvBufHasMessage' = FALSE
      BY <1>1, <3>3
    <3> QED BY <1>8, <2>2, <3>2, <3>4
  <2>3. CASE /\ s.code # <<>> /\ s.ret \in 1..Len(c)
             /\ \A flag \in BOOLEAN : (~flag => s.ret = Len(c))
                          => Stream(after, w, ms, Append(received, s.code), flag)
    <3>1. m = s.ret /\ Len(c) > 0
      BY <1>2, <2>3
    <3>2. rest = after
      BY <3>1
    <3>3. got
      BY <1>2, <1>6, <2>3, <3>1
    <3>4. Len(rest) = Len(c) - s.ret
      BY <1>5, <3>1
    <3> HIDE DEF rest, after, got
    <3>5. received' = Append(received, s.code) /\ recvBufHasMessage' = (Len(rest) > 0)
      BY <1>1, <1>6, <3>3
    <3>6. ~recvBufHasMessage' => s.ret = Len(c)
      <4>1. s.ret \in Int /\ s.ret <= Len(c)
        BY <1>2, <2>3
      <4>2. Len(rest) > 0 => recvBufHasMessage'
        BY <3>5
      <4> QED BY <1>2, <3>4, <4>1, <4>2
    <3>7. Stream(after, w, ms, Append(received, s.code), recvBufHasMessage')
      <4> DEFINE flag == recvBufHasMessage'
      <4>1. ~flag => s.ret = Len(c)
        BY <3>6
      <4>3. flag \in BOOLEAN
        BY <3>5
      <4> HIDE DEF flag
      <4>2. Stream(after, w, ms, Append(received, s.code), flag)
        BY <2>3, <4>1, <4>3
      <4> QED BY <4>2 DEF flag
    <3> QED BY <1>8, <3>2, <3>5, <3>7
  <2> HIDE DEF after
  <2> QED BY <2>1, <2>2, <2>3
<1> QED BY <1>10, <1>11

LEMMA InitReceiver == ReceiverInit => ReceiverInv
<1> SUFFICES ASSUME ReceiverInit PROVE ReceiverInv
  OBVIOUS
<1>1. /\ pRecvMsgBuf = EmptyRing(RecvSize) /\ recvBufHasMessage = FALSE
      /\ arrived \in Leftovers /\ sent = <<>> /\ received = <<>> /\ stale = FALSE
  BY DEF ReceiverInit
<1>2. Content(pRecvMsgBuf) = <<>> /\ BufferOK
  BY <1>1, EmptyLine, LineContent DEF BufferOK
<1>3. arrived \in Seq(Byte) /\ <<>> \o arrived = arrived
  <2>1. arrived \in Seq(Byte)
    BY <1>1, LeftoverIs
  <2> QED BY <2>1, ConcatEmptySeq
<1>4. Laid(<<>> \o arrived, <<>>, 0, [i \in {1} |-> Len(arrived)])
  BY <1>1, <1>3, LaidStarts
<1>5. <<>> \in Seq(Payloads) /\ Len(<<>>) = 0
  OBVIOUS
<1>6. Stream(<<>>, arrived, <<>>, <<>>, recvBufHasMessage)
  <2>1. (\A i \in 1..0 : FALSE) /\ ~(0 < 0)
    OBVIOUS
  <2> QED BY <1>4, <1>5, <2>1 DEF Stream
<1> QED BY <1>1, <1>2, <1>3, <1>6 DEF ReceiverInv

\* A new message is behind all others.
LEMMA PeerSendsKeeps ==
    ASSUME ReceiverInv, NEW p \in Payloads, PeerSends(p)
    PROVE  ReceiverInv'
<1> DEFINE c == Content(pRecvMsgBuf)
           q == Pack(p)
           n == Len(sent)
           k == Len(received)
<1>1. /\ arrived' = arrived \o q /\ sent' = Append(sent, p)
      /\ UNCHANGED <<pRecvMsgBuf, recvBufHasMessage, received, stale>>
  BY DEF PeerSends
<1>2. arrived \in Seq(Byte) /\ BufferOK /\ c \in Seq(Byte)
  BY LineNumbers DEF ReceiverInv, BufferOK
<1>3. q \in Seq(Byte) /\ Len(p) \in Nat /\ HeadLength \in Nat
  <2>1. q \in Seq(Byte) /\ Len(p) \in Nat /\ HeadLength = Ones + 3 /\ Ones \in Nat
    BY PackIs
  <2> QED BY <2>1
<1>4. arrived' \in Seq(Byte) /\ BufferOK'
  <2>1. arrived' \in Seq(Byte)
    <3> HIDE DEF q
    <3> QED BY <1>1, <1>2, <1>3, ConcatProperties
  <2> QED BY <1>1, <1>2, <2>1 DEF BufferOK
<1>5. ASSUME ~stale
      PROVE  Stream(c, arrived \o q, Append(sent, p), received, recvBufHasMessage)
  <2>1. /\ received \in Seq(Payloads) /\ k <= n /\ \A i \in 1..k : received[i] = sent[i]
    BY <1>5 DEF ReceiverInv, Stream
  <2>2. PICK at : /\ Laid(c \o arrived, sent, k, at)
                  /\ ~recvBufHasMessage /\ k < n => Len(c) < at[k + 2]
    BY <1>5 DEF ReceiverInv, Stream
  <2> DEFINE o == c \o arrived
             bt == [i \in k + 1..n + 2 |-> IF i = n + 2 THEN Len(o) + HeadLength + Len(p) ELSE at[i]]
             ns == Append(sent, p)
  <2>5. sent \in Seq(Payloads) /\ n \in Nat /\ k \in Nat
    BY <2>1, <2>2, LenProperties DEF Laid
  <2>3. Laid(o \o q, ns, k, bt)
    <3>1. bt[n + 2] = Len(o) + HeadLength + Len(p)
      <4>1. n + 2 \in k + 1..n + 2
        BY <2>1, <2>5
      <4> HIDE DEF o, n
      <4> QED BY <4>1
    <3>2. \A i \in k + 1..n + 1 : bt[i] = at[i]
      <4>1. \A i \in k + 1..n + 1 : i \in k + 1..n + 2 /\ i # n + 2
        BY <2>5
      <4> HIDE DEF o, n
      <4> QED BY <4>1
    <3>3. Laid(o, sent, k, at)
      BY <2>2
    <3> HIDE DEF bt, o, k
    <3> QED BY <3>1, <3>2, <3>3, LaidSends
  <2>4. o \o q = c \o (arrived \o q)
    <3> HIDE DEF q
    <3> QED BY <1>2, <1>3, ConcatAssociative
  <2>6. Len(ns) = n + 1 /\ \A i \in 1..n : ns[i] = sent[i]
    BY <2>5, AppendProperties
  <2>7. ASSUME ~recvBufHasMessage, k < n + 1 PROVE Len(c) < bt[k + 2]
    <3>1. k + 2 \in k + 1..n + 2
      BY <2>1, <2>5
    <3>2. CASE k < n
      <4>1. k + 2 # n + 2
        BY <2>5, <3>2
      <4>2. bt[k + 2] = at[k + 2]
        BY <3>1, <4>1
      <4> HIDE DEF bt
      <4> QED BY <2>2, <2>7, <3>2, <4>2
    <3>3. CASE ~(k < n)
      <4>1. k + 2 = n + 2
        BY <2>1, <2>5, <3>3
      <4>2. bt[k + 2] = Len(o) + HeadLength + Len(p)
        BY <3>1, <4>1
      <4>3. Len(o) = Len(c) + Len(arrived) /\ Len(c) \in Nat /\ Len(arrived) \in Nat
        BY <1>2, ConcatProperties, LenProperties
      <4>4. HeadLength > 0
        BY ReceiverAssumption DEF HeadLength, COM_MSG_LENGTH
      <4> HIDE DEF bt, o
      <4> QED BY <1>3, <4>2, <4>3, <4>4
    <3> QED BY <3>2, <3>3
  <2>8. k <= n + 1 /\ \A i \in 1..k : received[i] = ns[i]
    <3>1. k <= n + 1 /\ \A i \in 1..k : i \in 1..n
      BY <2>1, <2>5
    <3> HIDE DEF ns
    <3> QED BY <2>1, <2>6, <3>1
  <2> HIDE DEF bt, ns, o, q
  <2> QED BY <2>1, <2>3, <2>4, <2>6, <2>7, <2>8 DEF Stream, ns, o
<1>6. (~stale => Stream(Content(pRecvMsgBuf), arrived, sent, received, recvBufHasMessage))'
  BY <1>1, <1>5
<1> QED BY <1>4, <1>6 DEF ReceiverInv

\* The next message is taken from the buffer.
LEMMA RecvBufferedKeeps == ASSUME ReceiverInv, RecvBuffered PROVE ReceiverInv'
<1> DEFINE c == Content(pRecvMsgBuf)
<1>1. Deliver(pRecvMsgBuf) /\ UNCHANGED <<arrived, sent, stale>>
  BY DEF RecvBuffered
<1>2. InLine(pRecvMsgBuf, c) /\ arrived \in Seq(Byte)
  BY DEF ReceiverInv, BufferOK
<1>3. /\ BufferOK'
      /\ Stream(c, arrived, sent, received, TRUE)
           => Stream(Content(pRecvMsgBuf'), arrived, sent, received', recvBufHasMessage')
  BY <1>1, <1>2, DeliverKeeps
<1>4. ~stale => Stream(c, arrived, sent, received, TRUE)
  BY DEF ReceiverInv, Stream
<1>5. (~stale => Stream(Content(pRecvMsgBuf), arrived, sent, received, recvBufHasMessage))'
  BY <1>1, <1>3, <1>4
<1> QED BY <1>1, <1>2, <1>3, <1>5 DEF ReceiverInv

\* What a read of the connection may bring: the ring starts at the front, so all of it goes
\* behind what is there in one piece.
LEMMA ReadInOnePiece ==
    ASSUME ReceiverInv, RecvFromSocket
    PROVE  \E first \in 1..pRecvMsgBuf.m_freeLength :
             /\ first <= Len(arrived)
             /\ Deliver(WriteIntoBuffer(pRecvMsgBuf, arrived, RecvSize, first, 0).ring)
             /\ arrived' = SubSeq(arrived, first + 1, Len(arrived))
<1> DEFINE b == pRecvMsgBuf
           n == WriteLength(b, RecvSize)
           part == FirstPart(b, b.pBufTail, WriteStraight(b), n)
<1>1. /\ RecvSize \in Nat /\ b.m_size = RecvSize /\ b.pBufTail = b.m_filledLength
      /\ b.m_filledLength \in Nat /\ b.m_filledLength <= RecvSize
      /\ b.m_freeLength = RecvSize - b.m_filledLength /\ b.pBufHead = 0
  <2>1. InLine(b, Content(b)) /\ b.pBufHead = 0
    BY DEF ReceiverInv, BufferOK, RecvFromSocket
  <2>2. /\ RecvSize \in Nat /\ b.m_size = RecvSize /\ b.m_filledLength \in Nat
        /\ b.pBufTail = b.pBufHead + b.m_filledLength /\ b.pBufTail <= RecvSize
        /\ b.m_freeLength = RecvSize - b.m_filledLength
    BY <2>1, LineNumbers
  <2> QED BY <2>1, <2>2
<1>2. PICK f \in Nat : f = b.m_freeLength /\ f <= RecvSize /\ b.m_size - b.pBufTail = f
  BY <1>1
<1>3. n = f
  BY <1>1, <1>2, MinOfTwo DEF WriteLength
<1>4. part = f
  <2>1. Min({f, f}) = f
    BY MinOfTwo
  <2> QED BY <1>2, <1>3, <2>1 DEF FirstPart
<1>5. PICK first \in 1..Min({part, Len(arrived)}) :
        \E second \in IF first = part /\ part < n
                      THEN 0..Min({n - part, Len(arrived) - first}) ELSE {0} :
           /\ Deliver(WriteIntoBuffer(b, arrived, RecvSize, first, second).ring)
           /\ arrived' = SubSeq(arrived, first + second + 1, Len(arrived))
  BY DEF RecvFromSocket
<1>6. PICK second \in {0} : /\ Deliver(WriteIntoBuffer(b, arrived, RecvSize, first, second).ring)
                            /\ arrived' = SubSeq(arrived, first + second + 1, Len(arrived))
  <2>1. ~(part < n)
    BY <1>3, <1>4
  <2> HIDE DEF part, n
  <2> QED BY <1>5, <2>1
<1>7. first \in 1..f /\ first <= Len(arrived)
  <2>1. Len(arrived) \in Nat
    BY DEF ReceiverInv
  <2>2. Min({part, Len(arrived)}) = IF f <= Len(arrived) THEN f ELSE Len(arrived)
    <3> HIDE DEF part
    <3> QED BY <1>4, <2>1, MinOfTwo
  <2>3. first \in 1..(IF f <= Len(arrived) THEN f ELSE Len(arrived))
    <3> HIDE DEF part
    <3> QED BY <1>5, <2>2
  <2> QED BY <2>1, <2>3
<1>8. second = 0 /\ first + second + 1 = first + 1
  BY <1>7
<1> HIDE DEF b, n, part
<1> QED BY <1>2, <1>6, <1>7, <1>8 DEF b

LEMMA RecvFromSocketKeeps == ASSUME ReceiverInv, RecvFromSocket PROVE ReceiverInv'
<1> DEFINE b == pRecvMsgBuf
           c == Content(b)
           len == Len(arrived)
<1>1. UNCHANGED <<sent, stale>> /\ ~recvBufHasMessage
  BY DEF RecvFromSocket
<1>2. /\ InLine(b, c) /\ b.pBufHead = 0 /\ arrived \in Seq(Byte) /\ c \in Seq(Byte)
  BY <1>1, LineNumbers DEF ReceiverInv, BufferOK
<1>3. PICK first \in 1..b.m_freeLength :
        /\ first <= len
        /\ Deliver(WriteIntoBuffer(b, arrived, RecvSize, first, 0).ring)
        /\ arrived' = SubSeq(arrived, first + 1, len)
  BY ReadInOnePiece
<1> DEFINE new == SubSeq(arrived, 1, first)
           w == SubSeq(arrived, first + 1, len)
           d == WriteIntoBuffer(b, arrived, RecvSize, first, 0).ring
<1>4. InLine(d, c \o new)
  BY <1>2, <1>3, WriteLine
<1>5. len \in Nat /\ first \in 1..len
  BY <1>2, <1>3, LenProperties
<1>6. new \in Seq(Byte) /\ w \in Seq(Byte) /\ new \o w = arrived
  <2>1. w \in Seq(Byte)
    <3>1. first \in 0..len
      BY <1>5
    <3> QED BY <1>2, <3>1, PartIs
  <2>2. new \in Seq(Byte)
    BY <1>2, <1>5, SubSeqProperties
  <2>3. new \o w = SubSeq(arrived, 1, len)
    BY <1>2, <1>5, ConcatAdjacentSubSeq
  <2>4. SubSeq(arrived, 1, len) = arrived
    BY <1>2, SubSeqFull
  <2> HIDE DEF new, w
  <2> QED BY <2>1, <2>2, <2>3, <2>4
<1>7. (c \o new) \o w = c \o arrived
  <2> HIDE DEF new, w, c
  <2>1. (c \o new) \o w = c \o (new \o w)
    <3>1. c \in Seq(Byte) /\ new \in Seq(Byte) /\ w \in Seq(Byte)
      BY <1>2, <1>6
    <3>2. \A x, y, z \in Seq(Byte) : (x \o y) \o z = x \o (y \o z)
      BY ConcatAssociative
    <3> QED BY <3>1, <3>2
  <2> QED BY <1>6, <2>1
<1> HIDE DEF d, w, new, len
<1>8. /\ BufferOK'
      /\ Stream(c \o new, w, sent, received, TRUE)
           => Stream(Content(pRecvMsgBuf'), w, sent, received', recvBufHasMessage')
  <2>1. Deliver(d)
    BY <1>3 DEF d
  <2> QED BY <1>4, <1>6, <2>1, DeliverKeeps
<1>9. ~stale => Stream(c \o new, w, sent, received, TRUE)
  BY <1>7 DEF ReceiverInv, Stream
<1>10. arrived' = w
  BY <1>3 DEF w
<1>11. (~stale => Stream(Content(pRecvMsgBuf), arrived, sent, received, recvBufHasMessage))'
  BY <1>1, <1>8, <1>9, <1>10
<1> QED BY <1>6, <1>8, <1>10, <1>11 DEF ReceiverInv

\* Another connection.
LEMMA ReopenKeeps == ASSUME ReceiverInv, Reopen PROVE ReceiverInv'
<1>1. /\ pRecvMsgBuf' \in {pRecvMsgBuf, EmptyRing(RecvSize)}
      /\ stale' = (pRecvMsgBuf'.m_filledLength > 0)
      /\ arrived' \in Leftovers /\ sent' = <<>> /\ received' = <<>>
      /\ UNCHANGED recvBufHasMessage
  BY DEF Reopen
<1>2. BufferOK'
  <2>1. CASE pRecvMsgBuf' = pRecvMsgBuf
    BY <1>1, <2>1 DEF ReceiverInv, BufferOK
  <2>2. CASE pRecvMsgBuf' = EmptyRing(RecvSize)
    <3>1. InLine(pRecvMsgBuf', <<>>) /\ pRecvMsgBuf'.pBufHead = 0
      BY <2>2, EmptyLine
    <3>2. Content(pRecvMsgBuf') = <<>>
      BY <3>1, LineContent
    <3> QED BY <3>1, <3>2 DEF BufferOK
  <2> QED BY <1>1, <2>1, <2>2
<1>3. arrived' \in Seq(Byte) /\ <<>> \o arrived' = arrived'
  <2>1. arrived' \in Seq(Byte)
    BY <1>1, LeftoverIs
  <2> QED BY <2>1, ConcatEmptySeq
<1>4. ASSUME ~stale' PROVE Content(pRecvMsgBuf') = <<>>
  <2> DEFINE c == Content(pRecvMsgBuf')
  <2>1. InLine(pRecvMsgBuf', c)
    BY <1>2 DEF BufferOK
  <2>2. c \in Seq(Byte) /\ Len(c) = pRecvMsgBuf'.m_filledLength /\ pRecvMsgBuf'.m_filledLength \in Nat
    <3> HIDE DEF c
    <3> QED BY <2>1, LineNumbers
  <2>3. Len(c) = 0
    <3>1. ~(pRecvMsgBuf'.m_filledLength > 0)
      BY <1>1, <1>4
    <3> HIDE DEF c
    <3> QED BY <2>2, <3>1
  <2> HIDE DEF c
  <2>4. c = <<>>
    BY <2>2, <2>3, EmptySeq
  <2> QED BY <2>4 DEF c
<1>5. Laid(<<>> \o arrived', <<>>, 0, [i \in {1} |-> Len(arrived')])
  BY <1>1, <1>3, LaidStarts
<1>6. Stream(<<>>, arrived', <<>>, <<>>, recvBufHasMessage')
  <2>1. (\A i \in 1..0 : FALSE) /\ ~(0 < 0) /\ <<>> \in Seq(Payloads) /\ Len(<<>>) = 0
    OBVIOUS
  <2> QED BY <1>5, <2>1 DEF Stream
<1>7. (~stale => Stream(Content(pRecvMsgBuf), arrived, sent, received, recvBufHasMessage))'
  BY <1>1, <1>4, <1>6
<1> QED BY <1>2, <1>3, <1>7 DEF ReceiverInv

LEMMA NextReceiver == ReceiverInv /\ [ReceiverNext]_receiverVars => ReceiverInv'
<1> SUFFICES ASSUME ReceiverInv, [ReceiverNext]_receiverVars PROVE ReceiverInv'
  OBVIOUS
<1>1. ASSUME NEW p \in Payloads, PeerSends(p) PROVE ReceiverInv'
  BY <1>1, PeerSendsKeeps
<1>2. CASE RecvBuffered
  BY <1>2, RecvBufferedKeeps
<1>3. CASE RecvFromSocket
  BY <1>3, RecvFromSocketKeeps
<1>4. CASE Reopen
  BY <1>4, ReopenKeeps
<1>5. CASE UNCHANGED receiverVars
  BY <1>5 DEF receiverVars, ReceiverInv, BufferOK
<1> QED BY <1>1, <1>2, <1>3, <1>4, <1>5 DEF ReceiverNext

\* The receive buffer is never wrapped (CSocket::recvCodeByFindHead, rearrange).
THEOREM ReceivesInOnePiece == ReceiverSpec => []NeverWraps
<1>1. ReceiverInv => NeverWraps
  <2> SUFFICES ASSUME ReceiverInv PROVE NeverWraps
    OBVIOUS
  <2>1. /\ pRecvMsgBuf.pBufTail = pRecvMsgBuf.pBufHead + pRecvMsgBuf.m_filledLength
        /\ pRecvMsgBuf.pBufTail <= RecvSize
    BY LineNumbers DEF ReceiverInv, BufferOK
  <2> QED BY <2>1 DEF ReceiverInv, BufferOK, NeverWraps
<1> QED BY <1>1, InitReceiver, NextReceiver, PTL DEF ReceiverSpec

\* Whatever pieces the stream is cut into, messages are received as they were sent, and
\* none is withheld (CSocket::recvCodeByFindHead, _readFromBuff).
THEOREM MessagesAsSent == ReceiverSpec => []ReceivedAsSent
<1>1. ReceiverInv => ReceivedAsSent
  <2> SUFFICES ASSUME ReceiverInv, ~stale
               PROVE  /\ IsPrefix(received, sent)
                      /\ arrived = <<>> /\ ~recvBufHasMessage => received = sent
    BY DEF ReceivedAsSent
  <2> DEFINE c == Content(pRecvMsgBuf)
             k == Len(received)
             n == Len(sent)
  <2>1. received \in Seq(Payloads) /\ k <= n /\ \A i \in 1..k : received[i] = sent[i]
    BY DEF ReceiverInv, Stream
  <2>2. PICK at : /\ Laid(c \o arrived, sent, k, at)
                  /\ ~recvBufHasMessage /\ k < n => Len(c) < at[k + 2]
    BY DEF ReceiverInv, Stream
  <2>3. sent \in Seq(Payloads) /\ n \in Nat /\ k \in Nat
    BY <2>1, <2>2, LenProperties DEF Laid
  <2>4. SubSeq(sent, 1, k) = received
    <3>1. 1 \in 1..n + 1 /\ k \in 1 - 1..n /\ k - 1 + 1 = k
      BY <2>1, <2>3
    <3>2. /\ SubSeq(sent, 1, k) \in Seq(Payloads) /\ Len(SubSeq(sent, 1, k)) = k
          /\ \A i \in 1..k : SubSeq(sent, 1, k)[i] = sent[i]
      BY <2>1, <2>3, <3>1, SubSeqProperties
    <3> QED BY <2>1, <3>2, SeqEqual
  <2>5. IsPrefix(received, sent)
    BY <2>1, <2>4 DEF IsPrefix
  <2>6. ASSUME arrived = <<>>, ~recvBufHasMessage PROVE received = sent
    <3>1. c \in Seq(Byte) /\ c \o arrived = c
      <4>1. c \in Seq(Byte)
        BY LineNumbers DEF ReceiverInv, BufferOK
      <4> HIDE DEF c
      <4> QED BY <2>6, <4>1, ConcatEmptySeq
    <3>2. ~(k < n)
      <4> SUFFICES ASSUME k < n PROVE FALSE
        OBVIOUS
      <4>1. k + 2 \in k + 1..n + 1
        BY <2>3
      <4>2. at[k + 2] \in 0..Len(c) /\ Len(c) \in Nat
        <5> HIDE DEF c
        <5>1. \A i \in k + 1..n + 1 : at[i] \in 0..Len(c)
          BY <2>2, <3>1 DEF Laid
        <5> QED BY <3>1, <4>1, <5>1, LenProperties
      <4>3. Len(c) < at[k + 2]
        BY <2>2, <2>6
      <4> HIDE DEF c
      <4> QED BY <4>2, <4>3
    <3>3. k = n
      BY <2>1, <2>3, <3>2
    <3> QED BY <2>1, <2>3, <3>3, SeqEqual
  <2> QED BY <2>5, <2>6
<1> QED BY <1>1, InitReceiver, NextReceiver, PTL DEF ReceiverSpec

-----------------------------------------------------------------------------
(***************************************************************************)
(* The sending side: what its ring contains.                               *)
(***************************************************************************)
\* A byte of a message: the message's number and its place in it.
Piece == Nat \X Nat

\* The content lies between head and tail, or around the end; a ring that has been
\* emptied begins at 0, so that equal pointers are those of a full one.
Placed(head, tail, filled) ==
    /\ head \in 0..Size /\ tail \in 0..Size /\ filled \in 0..Size
    /\ \/ filled = 0 /\ head = 0 /\ tail = 0
       \/ head < tail /\ filled = tail - head
       \/ head >= tail /\ filled > 0 /\ filled = Size - head + tail

\* The cell that lies i cells behind a pointer.
Cell(pointer, i) == IF pointer + i - 1 < Size THEN pointer + i - 1 ELSE pointer + i - 1 - Size

SendRing(b) == /\ Ring(b, Size) /\ Placed(b.pBufHead, b.pBufTail, b.m_filledLength)
               /\ b.cells \in [0..Size - 1 -> Piece \cup {NoByte}]
               /\ \A i \in 1..b.m_filledLength : b.cells[Cell(b.pBufHead, i)] \in Piece

\* The size of the send buffer.
LEMMA SizeIsNat == Size \in Nat /\ Size > 0 /\ MaxEmergencyLength \in 0..Size
                   /\ SendBufSize \in Nat /\ SendBufSize > 0
  BY SenderAssumption

\* A position one turn too far, or one too few.
LEMMA Modulo == \A x, c \in Int : /\ 0 <= x /\ x < c => x % c = x
                                  /\ c > 0 /\ c <= x /\ x < 2 * c => x % c = x - c
                                  /\ c > 0 /\ -c <= x /\ x < 0 => x % c = x + c
<1>1. \A b, c \in Nat : b < c => b % c = b /\ (b + c) % c = b /\ (b - c) % c = b
  OBVIOUS
<1> SUFFICES ASSUME NEW x \in Int, NEW c \in Int
             PROVE  /\ 0 <= x /\ x < c => x % c = x
                    /\ c > 0 /\ c <= x /\ x < 2 * c => x % c = x - c
                    /\ c > 0 /\ -c <= x /\ x < 0 => x % c = x + c
  OBVIOUS
<1>2. 0 <= x /\ x < c => x % c = x
  BY <1>1
<1>3. c > 0 /\ c <= x /\ x < 2 * c => x % c = x - c
  <2>1. c > 0 /\ c <= x /\ x < 2 * c => x - c \in Nat /\ c \in Nat /\ x - c < c /\ (x - c) + c = x
    OBVIOUS
  <2> QED BY <1>1, <2>1
<1>4. c > 0 /\ -c <= x /\ x < 0 => x % c = x + c
  <2>1. c > 0 /\ -c <= x /\ x < 0 => x + c \in Nat /\ c \in Nat /\ x + c < c /\ (x + c) - c = x
    OBVIOUS
  <2> QED BY <1>1, <2>1
<1> QED BY <1>2, <1>3, <1>4

\* The cells are counted around the ring.
LEMMA CellIsModulo ==
    ASSUME NEW p \in 0..Size, NEW i \in 1..Size
    PROVE  Cell(p, i) = (p + i - 1) % Size /\ Cell(p, i) \in 0..Size - 1
<1>1. Size \in Int /\ Size > 0 /\ p \in Int /\ i \in Int /\ 0 <= p /\ p <= Size /\ 1 <= i /\ i <= Size
  BY SizeIsNat
<1>2. p + i - 1 \in Int /\ 0 <= p + i - 1 /\ p + i - 1 < 2 * Size
  BY <1>1
<1> QED BY <1>1, <1>2, Modulo DEF Cell

\* The content of a ring, byte by byte.
LEMMA ContentIs ==
    ASSUME NEW b, SendRing(b)
    PROVE  /\ Content(b) \in Seq(Piece) /\ Len(Content(b)) = b.m_filledLength
           /\ \A i \in 1..b.m_filledLength : Content(b)[i] = b.cells[Cell(b.pBufHead, i)]
<1>0. /\ b.m_size = Size /\ b.pBufHead \in 0..Size /\ b.m_filledLength \in 0..Size
      /\ Size \in Nat
  BY SizeIsNat DEF SendRing, Ring
<1>1. \A i \in 1..b.m_filledLength : Content(b)[i] = b.cells[Cell(b.pBufHead, i)]
  <2> SUFFICES ASSUME NEW i \in 1..b.m_filledLength
               PROVE  Content(b)[i] = b.cells[Cell(b.pBufHead, i)]
    OBVIOUS
  <2>1. i \in 1..Size
    BY <1>0
  <2>2. (b.pBufHead + i - 1) % Size = Cell(b.pBufHead, i)
    BY <1>0, <2>1, CellIsModulo
  <2> QED BY <1>0, <2>2 DEF Content
<1>2. Content(b) \in [1..b.m_filledLength -> Piece]
  BY <1>1 DEF Content, SendRing
<1>3. b.m_filledLength \in Nat
  BY <1>0
<1> QED BY <1>1, <1>2, <1>3, SeqDef, LenProperties

\* reset() leaves a ring with no content.
LEMMA EmptySendRing == SendRing(EmptyRing(Size)) /\ Content(EmptyRing(Size)) = <<>>
<1>1. Ring(EmptyRing(Size), Size)
  BY EmptyIsRing, SizeIsNat
<1>2. SendRing(EmptyRing(Size))
  BY <1>1, SizeIsNat DEF SendRing, Placed, EmptyRing
<1>3. EmptyRing(Size).m_filledLength = 0
  BY DEF EmptyRing
<1> QED BY <1>2, <1>3, ContentIs, EmptySeq

-----------------------------------------------------------------------------
\* Pointers and cells, when n bytes are written.
LEMMA WhereWritten ==
    ASSUME NEW head \in Int, NEW tail \in Int, NEW filled \in Int, Placed(head, tail, filled),
           NEW n \in 1..Size - filled, NEW tail2,
           tail2 = IF head <= tail /\ n > Size - tail THEN n - (Size - tail) ELSE tail + n
    PROVE  /\ Placed(head, tail2, filled + n)
           /\ \A i \in 1..filled : /\ Cell(head, i) \in 0..Size - 1
                                   /\ (Cell(head, i) - tail) % Size >= n
           /\ \A i \in 1..n : /\ Cell(head, filled + i) \in 0..Size - 1
                              /\ (Cell(head, filled + i) - tail) % Size = i - 1
<1>0. /\ Size \in Int /\ Size > 0 /\ 0 <= head /\ head <= Size /\ 0 <= tail /\ tail <= Size
      /\ 0 <= filled /\ filled <= Size /\ n \in Int /\ 1 <= n /\ n <= Size - filled
  BY SizeIsNat DEF Placed
<1>1. \/ filled = 0 /\ head = 0 /\ tail = 0
      \/ head < tail /\ filled = tail - head
      \/ head >= tail /\ filled > 0 /\ filled = Size - head + tail
  BY DEF Placed
<1>2. Placed(head, tail2, filled + n)
  <2>1. tail2 \in Int
    BY <1>0
  <2>2. CASE filled = 0 /\ head = 0 /\ tail = 0
    BY <1>0, <2>1, <2>2 DEF Placed
  <2>3. CASE head < tail /\ filled = tail - head
    <3>1. CASE n > Size - tail
      BY <1>0, <2>1, <2>3, <3>1 DEF Placed
    <3>2. CASE n <= Size - tail
      BY <1>0, <2>1, <2>3, <3>2 DEF Placed
    <3> QED BY <1>0, <3>1, <3>2
  <2>4. CASE head >= tail /\ filled > 0 /\ filled = Size - head + tail
    BY <1>0, <2>1, <2>4 DEF Placed
  <2> QED BY <1>1, <2>2, <2>3, <2>4
<1>3. ASSUME NEW i \in 1..filled
      PROVE  Cell(head, i) \in 0..Size - 1 /\ (Cell(head, i) - tail) % Size >= n
  <2> DEFINE c == Cell(head, i)
  <2>0. i \in Int /\ 1 <= i /\ i <= filled
    BY <1>0
  <2>1. /\ c \in Int /\ c \in 0..Size - 1
        /\ c = IF head + i - 1 < Size THEN head + i - 1 ELSE head + i - 1 - Size
    BY <1>0, <2>0 DEF Cell
  <2> HIDE DEF c
  <2>2. /\ c - tail \in Int /\ -Size <= c - tail /\ c - tail < Size
    BY <1>0, <2>1
  <2>3. (c - tail) % Size = IF c >= tail THEN c - tail ELSE c - tail + Size
    <3>1. CASE c >= tail
      <4>1. 0 <= c - tail /\ c - tail < Size
        BY <1>0, <2>1, <2>2, <3>1
      <4> QED BY <1>0, <2>2, <3>1, <4>1, Modulo
    <3>2. CASE ~(c >= tail)
      <4>1. -Size <= c - tail /\ c - tail < 0
        BY <1>0, <2>1, <2>2, <3>2
      <4> QED BY <1>0, <2>2, <3>2, <4>1, Modulo
    <3> QED BY <3>1, <3>2
  <2>4. (c - tail) % Size >= n
    BY <1>0, <1>1, <2>0, <2>1, <2>3
  <2> QED BY <2>1, <2>4 DEF c
<1>4. ASSUME NEW i \in 1..n
      PROVE  /\ Cell(head, filled + i) \in 0..Size - 1
             /\ (Cell(head, filled + i) - tail) % Size = i - 1
  <2> DEFINE c == Cell(head, filled + i)
  <2>0. i \in Int /\ 1 <= i /\ i <= n
    BY <1>0
  <2>1. /\ c \in Int /\ c \in 0..Size - 1
        /\ c = IF head + filled + i - 1 < Size THEN head + filled + i - 1
                                               ELSE head + filled + i - 1 - Size
    BY <1>0, <2>0 DEF Cell
  <2> HIDE DEF c
  <2>2. /\ c - tail \in Int /\ -Size <= c - tail /\ c - tail < Size
    BY <1>0, <2>1
  <2>3. (c - tail) % Size = IF c >= tail THEN c - tail ELSE c - tail + Size
    <3>1. CASE c >= tail
      <4>1. 0 <= c - tail /\ c - tail < Size
        BY <1>0, <2>1, <2>2, <3>1
      <4> QED BY <1>0, <2>2, <3>1, <4>1, Modulo
    <3>2. CASE ~(c >= tail)
      <4>1. -Size <= c - tail /\ c - tail < 0
        BY <1>0, <2>1, <2>2, <3>2
      <4> QED BY <1>0, <2>2, <3>2, <4>1, Modulo
    <3> QED BY <3>1, <3>2
  <2>4. (c - tail) % Size = i - 1
    BY <1>0, <1>1, <2>0, <2>1, <2>3
  <2> QED BY <2>1, <2>4 DEF c
<1> QED BY <1>2, <1>3, <1>4

\* What backupToSendBuff writes follows what was there.
Kept(b, src, n, r) ==
    LET part == FirstPart(b, b.pBufTail, WriteStraight(b), n) IN
    /\ src \in Seq(Piece) /\ n > 0 /\ n = WriteLength(b, Len(src)) /\ b.m_freeLength > 0
    /\ r = WriteIntoBuffer(b, src, Len(src), part, n - part).ring

\* write() puts what it takes behind the content.
LEMMA WriteEffect ==
    ASSUME NEW b, SendRing(b), NEW src, NEW n, NEW r, Kept(b, src, n, r)
    PROVE  SendRing(r) /\ Content(r) = Content(b) \o SubSeq(src, 1, n)
<1>13. PICK part : part = FirstPart(b, b.pBufTail, WriteStraight(b), n)
  OBVIOUS
<1>14. /\ src \in Seq(Piece) /\ n > 0 /\ n = WriteLength(b, Len(src)) /\ b.m_freeLength > 0
       /\ r = WriteIntoBuffer(b, src, Len(src), part, n - part).ring
  BY <1>13 DEF Kept
<1> DEFINE t == Transfer(b, b.pBufTail, WriteStraight(b), n, part, n - part)
           at(i) == ((i - b.pBufTail) % b.m_size) + 1
           head == b.pBufHead
           tail == b.pBufTail
           filled == b.m_filledLength
<1>0. /\ b.m_size = Size /\ head \in 0..Size /\ tail \in 0..Size
      /\ filled \in 0..Size /\ b.m_freeLength = Size - filled
      /\ Size \in Nat /\ Len(src) \in Nat
  BY <1>14, SizeIsNat DEF SendRing, Ring
<1>1. n \in 1..b.m_freeLength /\ n <= Len(src) /\ n \in Int /\ n <= Size
  BY <1>0, <1>14, MinOfTwo DEF WriteLength
<1>2. /\ part \in 0..n
      /\ head > tail => part = n
      /\ head <= tail => part = IF n <= Size - tail THEN n ELSE Size - tail
  <2>1. part = IF head > tail THEN n ELSE Min({n, Size - tail})
    BY <1>0, <1>13 DEF FirstPart, WriteStraight
  <2>2. Min({n, Size - tail}) = IF n <= Size - tail THEN n ELSE Size - tail
    BY <1>0, <1>1, MinOfTwo
  <2> HIDE DEF head, tail, filled
  <2> QED BY <1>0, <1>1, <2>1, <2>2
<1>3. t.moved = n /\ t.pointer = IF part < n THEN n - part ELSE tail + n
  <2>1. CASE part < n
    <3>1. n - part \in 1..n - part /\ part + (n - part) = n
      BY <1>1, <1>2, <2>1
    <3> QED BY <1>1, <1>2, <1>13, <2>1, <3>1 DEF Transfer
  <2>2. CASE part = n
    <3>1. part \in 1..part /\ ~(part < n)
      BY <1>1, <1>2, <2>2
    <3> QED BY <1>1, <1>2, <1>13, <2>2, <3>1 DEF Transfer
  <2> QED BY <1>1, <1>2, <2>1, <2>2
<1>4. /\ DOMAIN r = Fields /\ r = [x \in Fields |-> r[x]] /\ r.m_size = Size
      /\ r.pBufHead = head /\ r.pBufTail = t.pointer
      /\ r.m_filledLength = filled + n
      /\ r.m_freeLength = b.m_freeLength - n
      /\ r.cells = [i \in 0..Size - 1 |-> IF at(i) <= n THEN src[at(i)] ELSE b.cells[i]]
  BY <1>0, <1>3, <1>14 DEF WriteIntoBuffer, SendRing, Ring, Fields
<1> HIDE DEF t
<1>5. /\ t.pointer = IF head <= tail /\ n > Size - tail THEN n - (Size - tail) ELSE tail + n
      /\ n \in 1..Size - filled /\ head \in Int /\ tail \in Int /\ filled \in Int
      /\ Placed(head, tail, filled)
  <2>1. t.pointer = IF head <= tail /\ n > Size - tail THEN n - (Size - tail) ELSE tail + n
    <3> HIDE DEF head, tail, filled
    <3>1. CASE head > tail
      BY <1>0, <1>1, <1>2, <1>3, <3>1
    <3>2. CASE head <= tail
      BY <1>0, <1>1, <1>2, <1>3, <3>2
    <3> QED BY <1>0, <3>1, <3>2
  <2>2. n \in 1..Size - filled
    BY <1>0, <1>1
  <2>3. Placed(head, tail, filled)
    BY DEF SendRing
  <2> QED BY <1>0, <2>1, <2>2, <2>3
<1>6. /\ Placed(head, t.pointer, filled + n)
      /\ \A i \in 1..filled : /\ Cell(head, i) \in 0..Size - 1
                              /\ (Cell(head, i) - tail) % Size >= n
      /\ \A i \in 1..n : /\ Cell(head, filled + i) \in 0..Size - 1
                         /\ (Cell(head, filled + i) - tail) % Size = i - 1
  <2> HIDE DEF head, tail, filled
  <2> QED BY <1>5, WhereWritten
<1>7. Ring(r, Size) /\ Placed(r.pBufHead, r.pBufTail, r.m_filledLength)
  <2>1. b.m_freeLength - n = Size - (filled + n) /\ filled + n \in 0..Size
    BY <1>0, <1>1
  <2>2. t.pointer \in 0..Size
    BY <1>6 DEF Placed
  <2>3. Placed(r.pBufHead, r.pBufTail, r.m_filledLength)
    BY <1>4, <1>6
  <2> QED BY <1>0, <1>4, <2>1, <2>2, <2>3 DEF Ring
<1>8. \A i \in 1..filled : r.cells[Cell(r.pBufHead, i)] = b.cells[Cell(head, i)]
  <2> SUFFICES ASSUME NEW i \in 1..filled
               PROVE  r.cells[Cell(r.pBufHead, i)] = b.cells[Cell(head, i)]
    OBVIOUS
  <2>1. (Cell(head, i) - tail) % Size >= n /\ Cell(head, i) \in 0..Size - 1
    BY <1>6
  <2>2. (Cell(head, i) - tail) % Size \in Int
    BY <1>0, <2>1, SizeIsNat
  <2>3. ~(at(Cell(head, i)) <= n)
    BY <1>0, <1>1, <2>1, <2>2
  <2>4. r.pBufHead = head
    BY <1>4
  <2> DEFINE c == Cell(head, i)
  <2>5. r.cells[c] = b.cells[c]
    <3>1. c \in 0..Size - 1 /\ ~(at(c) <= n) /\ at(c) \in Int /\ n \in Int
      BY <1>0, <1>1, <2>1, <2>2, <2>3
    <3> HIDE DEF c
    <3>2. r.cells = [j \in 0..Size - 1 |-> IF at(j) <= n THEN src[at(j)] ELSE b.cells[j]]
      BY <1>4
    <3> DEFINE new(j) == at(j) <= n
    <3>3. r.cells = [j \in 0..Size - 1 |-> IF new(j) THEN src[at(j)] ELSE b.cells[j]]
      BY <3>2
    <3>4. ~new(c) /\ c \in 0..Size - 1
      BY <3>1
    <3> HIDE DEF at, new
    <3>5. r.cells[c] = IF new(c) THEN src[at(c)] ELSE b.cells[c]
      BY <3>3, <3>4
    <3> QED BY <3>4, <3>5
  <2> QED BY <2>4, <2>5
<1>9. \A i \in 1..n : r.cells[Cell(r.pBufHead, filled + i)] = src[i]
  <2> SUFFICES ASSUME NEW i \in 1..n PROVE r.cells[Cell(r.pBufHead, filled + i)] = src[i]
    OBVIOUS
  <2>1. (Cell(head, filled + i) - tail) % Size = i - 1 /\ Cell(head, filled + i) \in 0..Size - 1
    BY <1>6
  <2>2. at(Cell(head, filled + i)) = i /\ i <= n
    BY <1>0, <1>1, <2>1
  <2>3. r.pBufHead = head
    BY <1>4
  <2> DEFINE c == Cell(head, filled + i)
  <2>4. r.cells[c] = src[i]
    <3> HIDE DEF c
    <3>1. c \in 0..Size - 1 /\ at(c) = i
      BY <2>1, <2>2 DEF c
    <3> HIDE DEF at
    <3> QED BY <1>4, <2>2, <3>1
  <2> QED BY <2>3, <2>4
<1>10. SendRing(r)
  <2>1. r.cells \in [0..Size - 1 -> Piece \cup {NoByte}]
    <3> SUFFICES ASSUME NEW i \in 0..Size - 1
                 PROVE  (IF at(i) <= n THEN src[at(i)] ELSE b.cells[i]) \in Piece \cup {NoByte}
      BY <1>4
    <3>1. at(i) \in Int /\ at(i) >= 1
      <4>1. i - tail \in Int /\ Size \in Int /\ Size > 0 /\ i \in Int /\ -Size <= i - tail /\ i - tail < Size
        BY <1>0, SizeIsNat
      <4>2. (i - tail) % Size \in Int /\ (i - tail) % Size >= 0
        BY <4>1, Modulo
      <4> QED BY <1>0, <4>2
    <3> HIDE DEF at
    <3>2. at(i) <= n => at(i) \in 1..Len(src)
      BY <1>0, <1>1, <3>1
    <3>3. at(i) <= n => src[at(i)] \in Piece
      BY <1>14, <3>2, ElementOfSeq
    <3> QED BY <3>3 DEF SendRing
  <2>2. \A i \in 1..r.m_filledLength : r.cells[Cell(r.pBufHead, i)] \in Piece
    <3> SUFFICES ASSUME NEW i \in 1..r.m_filledLength PROVE r.cells[Cell(r.pBufHead, i)] \in Piece
      OBVIOUS
    <3>1. CASE i <= filled
      <4>1. i \in 1..filled
        BY <1>0, <1>1, <1>4, <3>1
      <4> QED BY <1>8, <4>1 DEF SendRing
    <3>2. CASE i > filled
      <4>0. i \in Int /\ i <= filled + n
        BY <1>0, <1>1, <1>4
      <4>1. i - filled \in 1..n /\ filled + (i - filled) = i
        BY <1>0, <1>1, <4>0, <3>2
      <4>2. src[i - filled] \in Piece
        BY <1>0, <1>1, <1>14, <4>1, ElementOfSeq
      <4> QED BY <1>9, <4>1, <4>2
    <3> QED BY <1>0, <1>1, <1>4, <3>1, <3>2
  <2> QED BY <1>7, <2>1, <2>2 DEF SendRing
<1>15. \A i \in 1..n : i \in 1..Len(src) /\ src[i] \in Piece
  <2>1. \A i \in 1..n : i \in 1..Len(src)
    BY <1>0, <1>1
  <2> QED BY <1>14, <2>1, ElementOfSeq
<1>11. SubSeq(src, 1, n) \in Seq(Piece) /\ Len(SubSeq(src, 1, n)) = n
       /\ \A i \in 1..n : SubSeq(src, 1, n)[i] = src[i]
  BY <1>0, <1>1, <1>15, SubSeqProperties
<1>12. Content(r) = Content(b) \o SubSeq(src, 1, n)
  <2> DEFINE s == Content(b) \o SubSeq(src, 1, n)
  <2>1. s \in Seq(Piece) /\ Len(s) = filled + n
    BY <1>11, ContentIs, ConcatProperties
  <2>2. Content(r) \in Seq(Piece) /\ Len(Content(r)) = filled + n
    BY <1>4, <1>10, ContentIs
  <2>3. ASSUME NEW i \in 1..filled + n PROVE Content(r)[i] = s[i]
    <3>1. Content(r)[i] = r.cells[Cell(r.pBufHead, i)]
      BY <1>4, <1>10, ContentIs
    <3>2. CASE i <= filled
      <4>0. i \in 1..filled
        BY <1>0, <1>1, <3>2
      <4>1. s[i] = Content(b)[i]
        BY <4>0, <1>11, ContentIs, ConcatProperties
      <4> QED BY <1>8, <3>1, <4>0, <4>1, ContentIs
    <3>3. CASE i > filled
      <4>1. i - filled \in 1..n /\ filled + (i - filled) = i
        BY <1>0, <1>1, <3>3
      <4>2. s[i] = SubSeq(src, 1, n)[i - filled]
        <5>1. Content(b) \in Seq(Piece) /\ Len(Content(b)) = filled
          BY ContentIs
        <5>2. i \in 1..Len(Content(b)) + Len(SubSeq(src, 1, n)) /\ ~(i <= Len(Content(b)))
          BY <1>0, <1>1, <1>11, <3>3, <5>1
        <5>3. \A u, v \in Seq(Piece) : \A j \in 1..Len(u) + Len(v) : j > Len(u) => (u \o v)[j] = v[j - Len(u)]
          BY ConcatProperties
        <5> DEFINE u == Content(b)
                   v == SubSeq(src, 1, n)
        <5>4. u \in Seq(Piece) /\ v \in Seq(Piece) /\ i \in 1..Len(u) + Len(v) /\ i > Len(u)
          BY <1>11, <3>3, <5>1, <5>2
        <5> HIDE DEF u, v
        <5>5. (u \o v)[i] = v[i - Len(u)]
          BY <5>3, <5>4
        <5> QED BY <5>1, <5>5 DEF u, v
      <4> QED BY <1>9, <1>11, <3>1, <4>1, <4>2
    <3>4. i \in Int /\ filled \in Int
      BY <1>0, <1>1
    <3> HIDE DEF s, filled
    <3> QED BY <3>2, <3>3, <3>4
  <2> HIDE DEF s
  <2>4. s = Content(r)
    BY <2>1, <2>2, <2>3, SeqEqual
  <2> QED BY <2>4 DEF s
<1> QED BY <1>10, <1>12

\* Pointers and cells, when n bytes are read and not all.
HeadAfter(head, tail, n) == IF head >= tail /\ n > Size - head THEN n - (Size - head) ELSE head + n

Leaves(head, tail, filled, n) == Placed(head, tail, filled) /\ n \in 0..filled - 1

\* Where the head goes when n bytes leave: on what is left, and off what has left.
LEMMA WhereRead ==
    ASSUME NEW head, NEW tail, NEW filled, NEW n, Leaves(head, tail, filled, n)
    PROVE  LET head2 == HeadAfter(head, tail, n) IN
           /\ Placed(head2, tail, filled - n)
           /\ \A i \in 1..filled - n :
                 /\ Cell(head2, i) \in 0..Size - 1
                 /\ Cell(head2, i) = Cell(head, n + i)
                 /\ \A j \in 0..n - 1 : Cell(head2, i) # (head + j) % Size
<1> DEFINE head2 == HeadAfter(head, tail, n)
<1>0. /\ Size \in Int /\ Size > 0 /\ 0 <= head /\ head <= Size /\ 0 <= tail /\ tail <= Size
      /\ 0 < filled /\ filled <= Size /\ n \in Int /\ 0 <= n /\ n < filled
      /\ head \in Int /\ tail \in Int /\ filled \in Int
  BY SizeIsNat DEF Placed, Leaves
<1>1. \/ head < tail /\ filled = tail - head
      \/ head >= tail /\ filled > 0 /\ filled = Size - head + tail
  BY <1>0 DEF Placed, Leaves
<1>4. head2 = IF head >= tail /\ n > Size - head THEN n - (Size - head) ELSE head + n
  BY DEF HeadAfter
<1> HIDE DEF head2
<1>2. Placed(head2, tail, filled - n)
  <2>1. head2 \in Int
    BY <1>0, <1>4
  <2>2. CASE head < tail /\ filled = tail - head
    BY <1>0, <1>4, <2>1, <2>2 DEF Placed
  <2>3. CASE head >= tail /\ filled = Size - head + tail
    <3>1. CASE n > Size - head
      BY <1>0, <1>4, <2>1, <2>3, <3>1 DEF Placed
    <3>2. CASE n <= Size - head
      BY <1>0, <1>4, <2>1, <2>3, <3>2 DEF Placed
    <3> QED BY <1>0, <3>1, <3>2
  <2> QED BY <1>1, <2>2, <2>3
<1>3. ASSUME NEW i \in 1..filled - n
      PROVE  /\ Cell(head2, i) \in 0..Size - 1
             /\ Cell(head2, i) = Cell(head, n + i)
             /\ \A j \in 0..n - 1 : Cell(head2, i) # (head + j) % Size
  <2>0. i \in Int /\ 1 <= i /\ i <= filled - n
    BY <1>0
  <2>1. head2 \in Int /\ 0 <= head2 /\ head2 <= Size
    BY <1>2 DEF Placed
  <2>2. Cell(head2, i) \in 0..Size - 1
    BY <1>0, <2>0, <2>1 DEF Cell
  <2>3. Cell(head2, i) = Cell(head, n + i)
    BY <1>0, <1>4, <1>1, <2>0, <2>1 DEF Cell
  <2>4. ASSUME NEW j \in 0..n - 1 PROVE Cell(head2, i) # (head + j) % Size
    <3>0. j \in Int /\ 0 <= j /\ j < n
      BY <1>0
    <3>1. Cell(head, j + 1) = (head + (j + 1) - 1) % Size
      <4>1. j + 1 \in 1..Size /\ head \in 0..Size
        BY <1>0, <3>0
      <4> QED BY <4>1, CellIsModulo
    <3>2. head + (j + 1) - 1 = head + j
      BY <1>0, <3>0
    <3>3. Cell(head, n + i) # Cell(head, j + 1)
      BY <1>0, <2>0, <3>0 DEF Cell
    <3> QED BY <2>3, <3>1, <3>2, <3>3
  <2> QED BY <2>2, <2>3, <2>4
<1> QED BY <1>2, <1>3 DEF head2

\* What the system may answer.
LEMMA ResultIs ==
    ASSUME NEW n \in Int, n >= 0, NEW x \in Results(n)
    PROVE  /\ x \in Int /\ x <= n /\ Max({x, 0}) = IF x > 0 THEN x ELSE 0
           /\ n = 0 => x = 0
           /\ x \in {-2, -1, 0} \/ x \in 1..n
<1>1. x \in Int /\ x <= n /\ (n = 0 => x = 0) /\ (x \in {-2, -1, 0} \/ x \in 1..n)
  BY DEF Results, Block, Broken
<1>2. Max({x, 0}) = IF x > 0 THEN x ELSE 0
  BY <1>1, MaxOfTwo
<1> QED BY <1>1, <1>2

\* What _sendBuffToSocket passes on, if it is not to be sent again, leaves the ring
\* from the front.
PassedOn(first, second) == Max({first, 0}) + Max({second, 0})
Passed(b, first, second, r) ==
    LET n == ReadLength(b, SendBufSize)
        part == FirstPart(b, b.pBufHead, ReadStraight(b), n)
    IN /\ SendRing(b) /\ b.m_filledLength > 0
       /\ first \in Results(part)
       /\ second \in IF part < n /\ first = part THEN Results(n - part) ELSE {0}
       /\ r = ReadFromBuffer(b, SendBufSize, first, second)
       /\ ~(r.moved < r.ret)

\* read() takes from the front of the content what the system has sent.
LEMMA ReadEffect ==
    ASSUME NEW b, NEW first, NEW second, NEW r, Passed(b, first, second, r)
    PROVE  /\ SendRing(r.ring)
           /\ r.moved \in 0..b.m_filledLength
           /\ PassedOn(first, second) = r.moved
           /\ r.ring.m_filledLength = b.m_filledLength - r.moved
           /\ Content(r.ring) = SubSeq(Content(b), r.moved + 1, b.m_filledLength)
<1>13. PICK n, part : /\ n = ReadLength(b, SendBufSize)
                     /\ part = FirstPart(b, b.pBufHead, ReadStraight(b), n)
  OBVIOUS
<1>14. /\ SendRing(b) /\ b.m_filledLength > 0
       /\ first \in Results(part)
       /\ second \in IF part < n /\ first = part THEN Results(n - part) ELSE {0}
       /\ r = ReadFromBuffer(b, SendBufSize, first, second)
       /\ ~(r.moved < r.ret)
  BY <1>13 DEF Passed
<1> DEFINE t == Transfer(b, b.pBufHead, ReadStraight(b), n, first, second)
           head == b.pBufHead
           tail == b.pBufTail
           filled == b.m_filledLength
           m == r.moved
           taken == {(head + i) % Size : i \in 0..m - 1}
           kept == [b EXCEPT !.pBufHead = t.pointer,
                             !.m_filledLength = @ - t.moved, !.m_freeLength = @ + t.moved,
                             !.cells = [i \in DOMAIN @ |-> IF i \in taken THEN NoByte ELSE @[i]]]
<1>0. /\ b.m_size = Size /\ head \in 0..Size /\ tail \in 0..Size
      /\ filled \in 1..Size /\ b.m_freeLength = Size - filled
      /\ Size \in Nat /\ SendBufSize \in Nat /\ SendBufSize > 0
      /\ Placed(head, tail, filled)
  BY <1>14, SizeIsNat DEF SendRing, Ring
<1>1. n \in 1..filled
  BY <1>0, <1>13, MinOfTwo DEF ReadLength
<1>2. /\ part \in 0..n
      /\ head < tail => part = n
      /\ head >= tail => part = IF n <= Size - head THEN n ELSE Size - head
  <2>1. part = IF head < tail THEN n ELSE Min({n, Size - head})
    BY <1>0, <1>13 DEF FirstPart, ReadStraight
  <2>2. Min({n, Size - head}) = IF n <= Size - head THEN n ELSE Size - head
    BY <1>0, <1>1, MinOfTwo
  <2> HIDE DEF head, tail, filled
  <2> QED BY <1>0, <1>1, <2>1, <2>2
<1>3. /\ r.ret = t.ret /\ m = t.moved
      /\ r.ring = IF kept.m_filledLength = 0 THEN EmptyRing(Size) ELSE kept
  BY <1>0, <1>13, <1>14 DEF ReadFromBuffer
<1>4. /\ t.moved = IF part < n /\ first = part
                   THEN IF second \in 1..n - part THEN part + second ELSE 0
                   ELSE IF first \in 1..part THEN first ELSE 0
      /\ t.pointer = IF t.moved = 0 THEN head
                     ELSE IF part < n /\ first = part THEN second ELSE head + t.moved
      /\ t.ret = IF part < n /\ first = part THEN Max({part, t.moved}) ELSE first
  BY <1>13 DEF Transfer
<1>5. /\ first \in Int /\ first <= part /\ Max({first, 0}) = IF first > 0 THEN first ELSE 0
      /\ first \in {-2, -1, 0} \/ first \in 1..part
      /\ n \in Int /\ part \in Int /\ part >= 0 /\ part <= n
  <2>1. n \in Int /\ part \in Int /\ part >= 0 /\ part <= n
    BY <1>0, <1>1, <1>2
  <2>2. first \in Results(part)
    BY <1>14
  <2> QED BY <2>1, <2>2, ResultIs
<1>6. /\ second \in Int /\ Max({second, 0}) = IF second > 0 THEN second ELSE 0
      /\ second \in {-2, -1, 0} \/ second \in 1..n - part
      /\ ~(part < n /\ first = part) => second = 0
  <2>1. CASE part < n /\ first = part
    <3>1. n - part \in Int /\ n - part >= 0 /\ second \in Results(n - part)
      BY <1>5, <1>14, <2>1
    <3> QED BY <2>1, <3>1, ResultIs
  <2>2. CASE ~(part < n /\ first = part)
    <3>1. second = 0
      BY <1>14, <2>2
    <3> QED BY <2>2, <3>1, MaxOfTwo
  <2> QED BY <2>1, <2>2
<1> HIDE DEF t
<1>7. /\ m \in 0..n /\ PassedOn(first, second) = m
      /\ t.pointer = IF head >= tail /\ m > Size - head THEN m - (Size - head) ELSE head + m
  <2>1. CASE part < n /\ first = part
    <3>1. t.ret = Max({part, m}) /\ m = IF second \in 1..n - part THEN part + second ELSE 0
      BY <1>3, <1>4, <2>1
    <3>2. m \in Int /\ t.ret = IF part <= m THEN m ELSE part
      BY <1>5, <1>6, <3>1, MaxOfTwo
    <3>3. head >= tail /\ part = Size - head
      BY <1>0, <1>1, <1>2, <2>1
    <3>4. ~(m < t.ret)
      BY <1>3, <1>14
    <3>5. CASE second \in 1..n - part
      <4>1. m = part + second /\ m # 0 /\ t.pointer = second /\ Max({second, 0}) = second
        BY <1>3, <1>4, <1>5, <1>6, <2>1, <3>1, <3>5
      <4>2. Max({first, 0}) = part
        BY <1>5, <2>1
      <4> HIDE DEF m, head, tail
      <4> QED BY <1>0, <1>5, <1>6, <3>3, <3>5, <4>1, <4>2 DEF PassedOn
    <3>6. CASE second \notin 1..n - part
      <4>1. m = 0 /\ t.pointer = head /\ Max({second, 0}) = 0
        BY <1>3, <1>4, <1>5, <1>6, <2>1, <3>1, <3>6
      <4>2. part = 0 /\ Max({first, 0}) = 0
        BY <1>5, <2>1, <3>2, <3>4, <4>1
      <4> HIDE DEF m, head, tail
      <4> QED BY <1>0, <1>5, <1>6, <3>3, <4>1, <4>2 DEF PassedOn
    <3> QED BY <3>5, <3>6
  <2>2. CASE ~(part < n /\ first = part)
    <3>1. m = (IF first \in 1..part THEN first ELSE 0) /\ Max({second, 0}) = 0
      BY <1>3, <1>4, <1>6, <2>2
    <3>2. t.pointer = head + m
      BY <1>0, <1>3, <1>4, <1>5, <2>2, <3>1
    <3>3. m <= part /\ m \in 0..n /\ Max({first, 0}) = m
      BY <1>5, <3>1
    <3>4. head >= tail => m <= Size - head
      <4> HIDE DEF m, head, tail
      <4> QED BY <1>0, <1>1, <1>2, <1>5, <3>3
    <3> HIDE DEF m, head, tail
    <3> QED BY <1>0, <1>5, <3>1, <3>2, <3>3, <3>4 DEF PassedOn
  <2> QED BY <2>1, <2>2
<1>8. m \in 0..filled
  <2> HIDE DEF m, filled
  <2> QED BY <1>0, <1>1, <1>7
<1>9. Content(b) \in Seq(Piece) /\ Len(Content(b)) = filled
      /\ \A i \in 1..filled : Content(b)[i] = b.cells[Cell(head, i)]
  BY <1>14, ContentIs
<1>10. CASE m = filled
  <2>1. r.ring = EmptyRing(Size)
    BY <1>0, <1>3, <1>10, <1>14 DEF SendRing, Ring, Fields
  <2>2. SubSeq(Content(b), m + 1, filled) = <<>>
    BY <1>0, <1>10, SubSeqEmpty
  <2>3. r.ring.m_filledLength = 0
    BY <2>1 DEF EmptyRing
  <2> QED BY <1>0, <1>7, <1>8, <1>10, <2>1, <2>2, <2>3, EmptySendRing
<1>11. CASE m < filled
  <2>0. m \in 0..filled - 1 /\ m \in Int /\ filled - m \in 1..Size
    <3> HIDE DEF m, filled
    <3> QED BY <1>0, <1>8, <1>11
  <2>1. /\ DOMAIN r.ring = Fields /\ r.ring = [x \in Fields |-> r.ring[x]] /\ r.ring.m_size = Size
        /\ r.ring.pBufHead = t.pointer /\ r.ring.pBufTail = tail
        /\ r.ring.m_filledLength = filled - m
        /\ r.ring.m_freeLength = b.m_freeLength + m
        /\ r.ring.cells = [i \in 0..Size - 1 |-> IF i \in taken THEN NoByte ELSE b.cells[i]]
    <3>1. r.ring = kept
      <4>1. kept.m_filledLength = filled - m
        BY <1>3, <1>14 DEF SendRing, Ring, Fields
      <4>2. filled - m # 0
        BY <1>0, <2>0
      <4> QED BY <1>3, <4>1, <4>2
    <3> QED BY <1>0, <1>3, <1>14, <3>1 DEF SendRing, Ring, Fields
  <2>2. /\ Placed(t.pointer, tail, filled - m)
        /\ \A i \in 1..filled - m :
                 /\ Cell(t.pointer, i) \in 0..Size - 1
                 /\ Cell(t.pointer, i) = Cell(head, m + i)
                 /\ \A j \in 0..m - 1 : Cell(t.pointer, i) # (head + j) % Size
    <3> DEFINE head2 == t.pointer
    <3>1. head \in Int /\ tail \in Int /\ filled \in Int /\ Placed(head, tail, filled)
      BY <1>0
    <3>2. head2 = HeadAfter(head, tail, m)
      BY <1>7 DEF HeadAfter
    <3>3. Leaves(head, tail, filled, m)
      BY <2>0, <3>1 DEF Leaves
    <3> DEFINE after == HeadAfter(head, tail, m)
    <3> HIDE DEF m, head, tail, filled, head2
    <3>4. /\ Placed(after, tail, filled - m)
          /\ \A i \in 1..filled - m :
                 /\ Cell(after, i) \in 0..Size - 1
                 /\ Cell(after, i) = Cell(head, m + i)
                 /\ \A j \in 0..m - 1 : Cell(after, i) # (head + j) % Size
      BY <3>3, WhereRead
    <3> HIDE DEF after
    <3>5. head2 = after
      BY <3>2 DEF after
    <3> QED BY <3>4, <3>5 DEF head2
  <2>3. \A i \in 1..filled - m : r.ring.cells[Cell(t.pointer, i)] = b.cells[Cell(head, m + i)]
    <3> SUFFICES ASSUME NEW i \in 1..filled - m
                 PROVE  r.ring.cells[Cell(t.pointer, i)] = b.cells[Cell(head, m + i)]
      OBVIOUS
    <3> DEFINE c == Cell(t.pointer, i)
    <3>1. c \in 0..Size - 1 /\ c = Cell(head, m + i) /\ c \notin taken
      BY <2>2
    <3> HIDE DEF c, taken
    <3>2. r.ring.cells[c] = b.cells[c]
      BY <2>1, <3>1
    <3> QED BY <3>1, <3>2 DEF c
  <2>4. SendRing(r.ring)
    <3>1. Ring(r.ring, Size)
      <4>1. b.m_freeLength + m = Size - (filled - m) /\ filled - m \in 0..Size
        BY <1>0, <2>0
      <4>2. t.pointer \in 0..Size
        BY <2>2 DEF Placed
      <4> QED BY <1>0, <2>1, <4>1, <4>2 DEF Ring
    <3>2. r.ring.cells \in [0..Size - 1 -> Piece \cup {NoByte}]
      <4> HIDE DEF taken
      <4>1. \A i \in 0..Size - 1 : b.cells[i] \in Piece \cup {NoByte}
        BY <1>14 DEF SendRing
      <4> QED BY <2>1, <4>1
    <3>3. ASSUME NEW i \in 1..filled - m PROVE r.ring.cells[Cell(t.pointer, i)] \in Piece
      <4>1. m + i \in 1..filled
        <5> HIDE DEF m, filled
        <5> QED BY <1>0, <2>0
      <4> QED BY <1>14, <2>3, <4>1 DEF SendRing
    <3>4. Placed(r.ring.pBufHead, r.ring.pBufTail, r.ring.m_filledLength)
      BY <2>1, <2>2
    <3> QED BY <2>1, <3>1, <3>2, <3>3, <3>4 DEF SendRing
  <2>5. Content(r.ring) \in Seq(Piece) /\ Len(Content(r.ring)) = filled - m
        /\ \A i \in 1..filled - m : Content(r.ring)[i] = b.cells[Cell(head, m + i)]
    <3>1. /\ Content(r.ring) \in Seq(Piece) /\ Len(Content(r.ring)) = r.ring.m_filledLength
          /\ \A i \in 1..r.ring.m_filledLength :
                Content(r.ring)[i] = r.ring.cells[Cell(r.ring.pBufHead, i)]
      BY <2>4, ContentIs
    <3>2. r.ring.m_filledLength = filled - m /\ r.ring.pBufHead = t.pointer
      BY <2>1
    <3> HIDE DEF m, filled, head
    <3> QED BY <2>3, <3>1, <3>2
  <2> DEFINE s == SubSeq(Content(b), m + 1, filled)
  <2>6. s \in Seq(Piece) /\ Len(s) = filled - m
        /\ \A i \in 1..filled - m : s[i] = b.cells[Cell(head, m + i)]
    <3>1. \A i \in m + 1..filled : Content(b)[i] \in Piece
      <4>1. \A i \in m + 1..filled : i \in 1..Len(Content(b))
        <5> HIDE DEF m, filled
        <5> QED BY <1>0, <1>9, <2>0
      <4> QED BY <1>9, <4>1, ElementOfSeq
    <3>2. m + 1 \in Int /\ filled \in Int /\ m + 1 <= filled
          /\ filled - (m + 1) + 1 = filled - m
      <4> HIDE DEF m, filled
      <4> QED BY <1>0, <2>0
    <3>3. /\ s \in Seq(Piece) /\ Len(s) = filled - m
          /\ \A i \in 1..filled - m : s[i] = Content(b)[m + 1 + i - 1]
      BY <3>1, <3>2, SubSeqProperties
    <3>4. \A i \in 1..filled - m : m + 1 + i - 1 = m + i /\ m + i \in 1..filled
      <4> HIDE DEF m, filled
      <4> QED BY <1>0, <2>0
    <3> HIDE DEF s
    <3> QED BY <1>9, <3>3, <3>4
  <2> HIDE DEF s
  <2>7. Content(r.ring) = s
    BY <2>5, <2>6, SeqEqual
  <2> QED BY <1>7, <1>8, <2>1, <2>4, <2>7 DEF s
<1>12. m = filled \/ m < filled
  <2> HIDE DEF m, filled
  <2> QED BY <1>0, <1>8
<1> QED BY <1>10, <1>11, <1>12

-----------------------------------------------------------------------------
(***************************************************************************)
(* The sending side: the stream is whole.                                  *)
(***************************************************************************)
\* Bytes that differ, and those of messages before the m-th.
Unlike(s) == \A i, j \in 1..Len(s) : s[i] = s[j] => i = j
Below(s, m) == \A i \in 1..Len(s) : s[i][1] < m

SenderTypes == /\ SendRing(pSendMsgBuf)
               /\ length \in Seq(Lengths)
               /\ wire \in Seq(Piece) /\ accepted \in Seq(Piece)
               /\ m_socketState \in {"OPEN", "CLOSE"}
               /\ calling \in {"idle", "select", "resend", "write", "backup"}

\* The message of a call, and when there is something in the buffer.
TheCode ==
    calling # "idle" =>
       /\ m_socketState = "OPEN"
       /\ code.number \in 1..Len(length) /\ code.number = Len(length)
       /\ code = [number |-> code.number, rest |-> code.rest, flag |-> code.flag]
       /\ code.rest \in Seq(Piece) /\ Len(code.rest) \in 1..Size - MaxEmergencyLength
       /\ calling # "backup" => code.rest = Bytes(code.number)
       /\ calling = "backup" => code.rest = Bytes(code.number) \/ ~HasUnsentCode
       /\ calling \in {"select", "resend"} => HasUnsentCode
       /\ calling = "write" => ~HasUnsentCode

\* The bytes accepted differ, and the message of a call is not among them.
TheAccepted == /\ Unlike(accepted)
               /\ Below(accepted, IF calling = "idle" THEN Len(length) + 1 ELSE Len(length))

\* In a call too what the connection has and what waits make up what was accepted,
\* and, when the message is being kept, the message.
TheStream == 
    /\ calling = "backup" => wire \o (Content(pSendMsgBuf) \o code.rest)
                                = accepted \o Bytes(code.number)
    /\ calling # "backup" /\ (m_socketState = "OPEN" \/ HasUnsentCode) =>
          wire \o Content(pSendMsgBuf) = accepted

SenderInv == damage = "none" => SenderTypes /\ TheCode /\ TheAccepted /\ TheStream

\* The bytes of a message are told apart by their places.
LEMMA BytesAre ==
    ASSUME length \in Seq(Lengths), NEW m \in 1..Len(length)
    PROVE  /\ Bytes(m) \in Seq(Piece) /\ Len(Bytes(m)) \in 1..Size - MaxEmergencyLength
           /\ \A i \in 1..Len(Bytes(m)) : Bytes(m)[i] = <<m, i>>
<1>1. length[m] \in 1..Size - MaxEmergencyLength
  BY ElementOfSeq, SenderAssumption
<1>2. m \in Nat /\ length[m] \in Nat
  BY <1>1, SizeIsNat
<1>3. Bytes(m) \in [1..length[m] -> Piece]
  BY <1>2 DEF Bytes, Piece
<1>4. Bytes(m) \in Seq(Piece) /\ Len(Bytes(m)) = length[m]
  BY <1>2, <1>3, SeqDef, LenProperties
<1> QED BY <1>1, <1>4 DEF Bytes

\* What was accepted, and the bytes of a message that was not.
LEMMA Accepting ==
    ASSUME length \in Seq(Lengths), NEW m \in 1..Len(length),
           NEW a \in Seq(Piece), Unlike(a), Below(a, m)
    PROVE  a \o Bytes(m) \in Seq(Piece) /\ Unlike(a \o Bytes(m)) /\ Below(a \o Bytes(m), m + 1)
<1> DEFINE c == Bytes(m)
           s == a \o c
<1>1. c \in Seq(Piece) /\ Len(c) \in Nat /\ \A i \in 1..Len(c) : c[i] = <<m, i>>
  BY BytesAre, SizeIsNat
<1>2. /\ s \in Seq(Piece) /\ Len(s) = Len(a) + Len(c) /\ Len(a) \in Nat
      /\ \A i \in 1..Len(a) + Len(c) : s[i] = IF i <= Len(a) THEN a[i] ELSE c[i - Len(a)]
  BY <1>1, ConcatProperties
<1> HIDE DEF c, s
<1>3. \A i \in 1..Len(s) : i <= Len(a) => i \in 1..Len(a) /\ s[i] = a[i]
  BY <1>1, <1>2
<1>4. \A i \in 1..Len(s) : ~(i <= Len(a)) => s[i] = <<m, i - Len(a)>>
  BY <1>1, <1>2
<1>5. \A i \in 1..Len(a) : a[i] \in Piece /\ a[i][1] < m /\ a[i][1] \in Nat
  BY ElementOfSeq DEF Below, Piece
<1>6. Below(s, m + 1)
  <2> SUFFICES ASSUME NEW i \in 1..Len(s) PROVE s[i][1] < m + 1
    BY DEF Below
  <2>1. CASE i <= Len(a)
    BY <1>3, <1>5, <2>1
  <2>2. CASE ~(i <= Len(a))
    BY <1>4, <2>2
  <2> QED BY <2>1, <2>2
<1>7. Unlike(s)
  <2> SUFFICES ASSUME NEW i \in 1..Len(s), NEW j \in 1..Len(s), s[i] = s[j] PROVE i = j
    BY DEF Unlike
  <2>0. i \in Int /\ j \in Int
    BY <1>1, <1>2
  <2>1. CASE i <= Len(a) /\ j <= Len(a)
    BY <1>3, <2>1 DEF Unlike
  <2>2. CASE i <= Len(a) /\ ~(j <= Len(a))
    <3>1. s[i][1] < m /\ s[j][1] = m /\ s[i][1] \in Nat
      BY <1>3, <1>4, <1>5, <2>2
    <3> QED BY <3>1
  <2>3. CASE ~(i <= Len(a)) /\ j <= Len(a)
    <3>1. s[j][1] < m /\ s[i][1] = m /\ s[j][1] \in Nat
      BY <1>3, <1>4, <1>5, <2>3
    <3> QED BY <3>1
  <2>4. CASE ~(i <= Len(a)) /\ ~(j <= Len(a))
    <3>1. i - Len(a) = j - Len(a)
      BY <1>4, <2>4
    <3> QED BY <1>2, <2>0, <3>1
  <2> QED BY <2>1, <2>2, <2>3, <2>4
<1> QED BY <1>2, <1>6, <1>7 DEF c, s

\* What is left of the accepted bytes when a connection has taken some: they differ
\* too, and if they begin a message they are what is accepted from it on.
LEMMA Remaining ==
    ASSUME accepted \in Seq(Piece), Unlike(accepted), NEW limit, Below(accepted, limit),
           NEW w \in Seq(Piece), NEW c \in Seq(Piece), w \o c = accepted, c # <<>>
    PROVE  /\ Unlike(c) /\ Below(c, limit)
           /\ c[1][2] = 1 => FromMessage(c[1][1]) = c
<1>1. /\ Len(w) \in Nat /\ Len(c) \in Nat /\ Len(accepted) = Len(w) + Len(c)
      /\ \A i \in 1..Len(w) + Len(c) : accepted[i] = IF i <= Len(w) THEN w[i] ELSE c[i - Len(w)]
  BY ConcatProperties
<1>2. Len(c) > 0
  BY <1>1, EmptySeq
<1>3. \A i \in 1..Len(c) : Len(w) + i \in 1..Len(accepted) /\ accepted[Len(w) + i] = c[i]
  <2> SUFFICES ASSUME NEW i \in 1..Len(c)
               PROVE  Len(w) + i \in 1..Len(accepted) /\ accepted[Len(w) + i] = c[i]
    OBVIOUS
  <2>1. /\ Len(w) + i \in 1..Len(w) + Len(c) /\ ~(Len(w) + i <= Len(w))
        /\ Len(w) + i - Len(w) = i
    BY <1>1
  <2> QED BY <1>1, <2>1
<1>4. Unlike(c)
  <2> SUFFICES ASSUME NEW i \in 1..Len(c), NEW j \in 1..Len(c), c[i] = c[j] PROVE i = j
    BY DEF Unlike
  <2>1. /\ Len(w) + i \in 1..Len(accepted) /\ Len(w) + j \in 1..Len(accepted)
        /\ accepted[Len(w) + i] = accepted[Len(w) + j]
    BY <1>3
  <2>2. Len(w) + i = Len(w) + j
    BY <2>1 DEF Unlike
  <2> QED BY <1>1, <2>2
<1>5. Below(c, limit)
  BY <1>3 DEF Below
<1>6. ASSUME c[1][2] = 1 PROVE FromMessage(c[1][1]) = c
  <2> DEFINE m == c[1][1]
             k == Len(w) + 1
             start == {i \in DOMAIN accepted : accepted[i] = <<m, 1>>}
  <2>1. c[1] \in Piece /\ c[1] = <<m, 1>>
    <3>1. c[1] \in Piece
      BY <1>1, <1>2, ElementOfSeq
    <3>2. c[1] = <<c[1][1], c[1][2]>>
      <4>1. \A x \in Nat \X Nat : x = <<x[1], x[2]>>
        OBVIOUS
      <4> QED BY <3>1, <4>1 DEF Piece
    <3> QED BY <1>6, <3>1, <3>2
  <2>2. k \in 1..Len(accepted) /\ accepted[k] = <<m, 1>>
    BY <1>1, <1>2, <1>3, <2>1
  <2>3. start = {k}
    <3>1. DOMAIN accepted = 1..Len(accepted)
      BY LenProperties
    <3>2. \A i \in 1..Len(accepted) : accepted[i] = <<m, 1>> <=> i = k
      BY <2>2 DEF Unlike
    <3> HIDE DEF k
    <3> QED BY <2>2, <3>1, <3>2
  <2>4. Min(start \cup {Len(accepted) + 1}) = k
    <3>1. start \cup {Len(accepted) + 1} = {k, Len(accepted) + 1}
      BY <2>3
    <3>2. k \in Int /\ Len(accepted) + 1 \in Int /\ k <= Len(accepted) + 1
      BY <1>1, <2>2
    <3> HIDE DEF k, start
    <3> QED BY <3>1, <3>2, MinOfTwo
  <2>5. FromMessage(m) = SubSeq(accepted, k, Len(accepted))
    BY <2>4 DEF FromMessage
  <2>6. SubSeq(w \o c, Len(w) + 1, Len(w) + Len(c)) = SubSeq(c, 1, Len(c))
    <3>1. /\ Len(w) + 1 \in Len(w) + 1..Len(w) + Len(c)
          /\ Len(w) + Len(c) \in Len(w) + 1..Len(w) + Len(c)
          /\ Len(w) + 1 - Len(w) = 1 /\ Len(w) + Len(c) - Len(w) = Len(c)
      BY <1>1, <1>2
    <3> QED BY <3>1, SubSeqOfConcat2
  <2> QED BY <1>1, <2>5, <2>6, SubSeqFull
<1> QED BY <1>4, <1>5, <1>6

\* The buffer as it is used in every step.
LEMMA BufferFacts ==
    ASSUME NEW b, SendRing(b)
    PROVE  /\ b.m_filledLength \in 0..Size /\ b.m_freeLength = Size - b.m_filledLength
           /\ Content(b) \in Seq(Piece)
           /\ ~(b.m_filledLength > 0) => Content(b) = <<>> /\ b.m_freeLength = Size
<1>1. b.m_filledLength \in 0..Size /\ b.m_freeLength = Size - b.m_filledLength
  BY DEF SendRing, Ring
<1>2. Content(b) \in Seq(Piece) /\ Len(Content(b)) = b.m_filledLength
  BY ContentIs
<1> QED BY <1>1, <1>2, EmptySeq, SizeIsNat

\* A call returns: the message is accepted or not.
LEMMA Returning ==
    ASSUME SenderTypes, TheCode, TheAccepted, calling # "idle", NEW result, Returns(result),
           length' = length
    PROVE  /\ TheCode' /\ TheAccepted' /\ (accepted \in Seq(Piece))'
           /\ result \in {1, -2} => accepted' = accepted \o Bytes(code.number)
           /\ result \notin {1, -2} => accepted' = accepted
<1>0. calling' = "idle" /\ TheCode'
  BY DEF Returns, TheCode
<1>1. /\ length \in Seq(Lengths) /\ Len(length) \in 1..Len(length) /\ code.number = Len(length)
      /\ Len(length) \in Nat
      /\ accepted \in Seq(Piece) /\ Unlike(accepted) /\ Below(accepted, Len(length))
  BY DEF SenderTypes, TheCode, TheAccepted
<1>2. CASE result \in {1, -2}
  <2>1. accepted' = accepted \o Bytes(Len(length))
    BY <1>1, <1>2 DEF Returns
  <2>2. /\ accepted \o Bytes(Len(length)) \in Seq(Piece) /\ Unlike(accepted \o Bytes(Len(length)))
        /\ Below(accepted \o Bytes(Len(length)), Len(length) + 1)
    BY <1>1, Accepting
  <2> QED BY <1>0, <1>1, <1>2, <2>1, <2>2 DEF TheAccepted
<1>3. CASE result \notin {1, -2}
  <2>1. accepted' = accepted
    BY <1>3 DEF Returns
  <2>2. Below(accepted, Len(length) + 1)
    <3>1. \A i \in 1..Len(accepted) : accepted[i][1] \in Nat
      BY <1>1, ElementOfSeq DEF Piece
    <3> QED BY <1>1, <3>1 DEF Below
  <2> QED BY <1>0, <1>1, <1>3, <2>1, <2>2 DEF TheAccepted
<1> QED BY <1>2, <1>3

\* sendCode(): the message is in hand, nothing is sent yet.
LEMMA SendCodeKeeps ==
    ASSUME SenderTypes, TheCode, TheAccepted, TheStream,
           NEW n \in Lengths, NEW flag \in {"normal", "emergency"}, SendCode(n, flag)
    PROVE  SenderTypes' /\ TheCode' /\ TheAccepted' /\ TheStream'
<1>0. calling = "idle" /\ m_socketState = "OPEN" /\ length' = Append(length, n)
  BY DEF SendCode
<1>1. /\ length' \in Seq(Lengths) /\ Len(length') = Len(length) + 1 /\ length'[Len(length')] = n
      /\ Len(length) \in Nat
  BY <1>0, AppendProperties DEF SenderTypes
<1>2. n \in 1..Size - MaxEmergencyLength /\ n \in Nat
  BY SenderAssumption
<1>3. /\ code' = [number |-> Len(length'), rest |-> [i \in 1..n |-> <<Len(length'), i>>],
                  flag |-> code'.flag]
      /\ calling' = IF ~HasUnsentCode THEN "write"
                    ELSE IF b_writeNeedSelect THEN "select" ELSE "resend"
      /\ UNCHANGED <<pSendMsgBuf, m_socketState, b_writeNeedSelect, wire, accepted, damage>>
  BY DEF SendCode
<1>4. HasUnsentCode' = HasUnsentCode
  BY <1>3 DEF HasUnsentCode
<1>5. code'.rest \in Seq(Piece) /\ Len(code'.rest) = n /\ code'.rest = Bytes(code.number)'
  <2>1. code'.rest = [i \in 1..n |-> <<Len(length'), i>>] /\ code'.number = Len(length')
    BY <1>3
  <2>2. code'.rest \in [1..n -> Piece]
    BY <1>1, <1>2, <2>1 DEF Piece
  <2>3. code'.rest = Bytes(code.number)'
    BY <1>1, <2>1 DEF Bytes
  <2> QED BY <1>2, <2>2, <2>3, SeqDef, LenProperties
<1>6. SenderTypes'
  BY <1>1, <1>3 DEF SenderTypes
<1>7. TheCode'
  <2>1. code'.number = Len(length') /\ Len(length') \in 1..Len(length')
    BY <1>1, <1>3
  <2> QED BY <1>0, <1>2, <1>3, <1>4, <1>5, <2>1 DEF TheCode
<1>8. TheAccepted'
  <2>1. calling' # "idle" /\ accepted' = accepted /\ Len(length') = Len(length) + 1
    BY <1>1, <1>3
  <2> QED BY <1>0, <2>1 DEF TheAccepted
<1>9. TheStream'
  BY <1>0, <1>3 DEF TheStream
<1> QED BY <1>6, <1>7, <1>8, <1>9

\* preSendProcess() chooses whether the message is sent, kept or refused.
LEMMA PreSendProcessKeeps ==
    ASSUME SenderTypes, TheCode, TheAccepted, TheStream, PreSendProcess
    PROVE  SenderTypes' /\ TheCode' /\ TheAccepted' /\ TheStream'
<1>0. calling = "select" /\ UNCHANGED <<pSendMsgBuf, m_socketState, length, wire, damage>>
  BY DEF PreSendProcess
<1>1. /\ HasUnsentCode' = HasUnsentCode /\ Bytes(code.number)' = [i \in 1..length[code'.number] |-> <<code'.number, i>>]
  BY <1>0 DEF HasUnsentCode, Bytes
<1>2. CASE calling' = "resend" /\ UNCHANGED <<code, accepted>>
  <2>1. SenderTypes' /\ TheAccepted' /\ TheStream'
    BY <1>0, <1>1, <1>2 DEF SenderTypes, TheAccepted, TheStream
  <2>2. TheCode'
    BY <1>0, <1>1, <1>2 DEF TheCode, Bytes
  <2> QED BY <2>1, <2>2
<1>3. CASE calling' = "backup" /\ UNCHANGED <<code, accepted>>
  <2>1. SenderTypes' /\ TheAccepted'
    BY <1>0, <1>1, <1>3 DEF SenderTypes, TheAccepted
  <2>2. TheCode'
    BY <1>0, <1>1, <1>3 DEF TheCode, Bytes
  <2>3. TheStream'
    <3>1. code.rest = Bytes(code.number) /\ code.rest \in Seq(Piece)
      BY <1>0 DEF TheCode
    <3>2. wire \o Content(pSendMsgBuf) = accepted
      BY <1>0 DEF TheStream, TheCode
    <3>3. (wire \o Content(pSendMsgBuf)) \o code.rest = wire \o (Content(pSendMsgBuf) \o code.rest)
      <4>1. wire \in Seq(Piece) /\ Content(pSendMsgBuf) \in Seq(Piece)
        BY BufferFacts DEF SenderTypes
      <4> QED BY <3>1, <4>1, ConcatAssociative
    <3>4. Bytes(code.number)' = Bytes(code.number)
      BY <1>1, <1>3 DEF Bytes
    <3> QED BY <1>0, <1>3, <3>1, <3>2, <3>3, <3>4 DEF TheStream
  <2> QED BY <2>1, <2>2, <2>3
<1>4. CASE Returns(-9)
  <2>1. TheCode' /\ TheAccepted' /\ accepted' = accepted /\ calling' = "idle"
    <3>1. -9 \notin {1, -2} /\ length' = length /\ calling # "idle"
      BY <1>0
    <3>2. calling' = "idle"
      BY <1>4 DEF Returns
    <3> QED BY <1>4, <3>1, <3>2, Returning
  <2> QED BY <1>0, <1>1, <2>1 DEF SenderTypes, TheStream, TheCode
<1> QED BY <1>2, <1>3, <1>4 DEF PreSendProcess

\* sendUnsentCode() passes on what is buffered, in its order.
LEMMA SendUnsentCodeKeeps ==
    ASSUME SenderTypes, TheCode, TheAccepted, TheStream, SendUnsentCode,
           damage = "none", damage' = "none"
    PROVE  SenderTypes' /\ TheCode' /\ TheAccepted' /\ TheStream'
<1>0. calling = "resend" /\ length' = length /\ m_socketState' = m_socketState
  BY DEF SendUnsentCode
<1> DEFINE n == ReadLength(pSendMsgBuf, SendBufSize)
           part == FirstPart(pSendMsgBuf, pSendMsgBuf.pBufHead, ReadStraight(pSendMsgBuf), n)
<1>1. PICK first \in Results(part) :
         \E second \in IF part < n /\ first = part THEN Results(n - part) ELSE {0} :
            LET r == ReadFromBuffer(pSendMsgBuf, SendBufSize, first, second)
                more == r.ret = n /\ r.ring.m_filledLength > 0
            IN /\ wire' = wire \o SubSeq(Content(pSendMsgBuf), 1,
                                         Max({first, 0}) + Max({second, 0}))
               /\ pSendMsgBuf' = IF more /\ Room(r.ring, code)
                                 THEN Written(r.ring, code) ELSE r.ring
               /\ damage' = IF damage # "none" THEN damage
                            ELSE IF r.moved < r.ret THEN "resent"
                            ELSE IF more /\ Room(r.ring, code) THEN "twice" ELSE "none"
               /\ \/ more /\ ~Room(r.ring, code) /\ Returns(-5)
                  \/ r.ret \in {0, Broken} /\ Returns(IF r.ret = 0 THEN 0 ELSE -9)
                  \/ /\ r.ret \notin {0, Broken} /\ (more => Room(r.ring, code))
                     /\ calling' = IF r.ret = n /\ ~more THEN "write" ELSE "backup"
                     /\ UNCHANGED <<b_writeNeedSelect, code, accepted>>
  BY DEF SendUnsentCode
<1>2. PICK second \in IF part < n /\ first = part THEN Results(n - part) ELSE {0} :
            LET r == ReadFromBuffer(pSendMsgBuf, SendBufSize, first, second)
                more == r.ret = n /\ r.ring.m_filledLength > 0
            IN /\ wire' = wire \o SubSeq(Content(pSendMsgBuf), 1,
                                         Max({first, 0}) + Max({second, 0}))
               /\ pSendMsgBuf' = IF more /\ Room(r.ring, code)
                                 THEN Written(r.ring, code) ELSE r.ring
               /\ damage' = IF damage # "none" THEN damage
                            ELSE IF r.moved < r.ret THEN "resent"
                            ELSE IF more /\ Room(r.ring, code) THEN "twice" ELSE "none"
               /\ \/ more /\ ~Room(r.ring, code) /\ Returns(-5)
                  \/ r.ret \in {0, Broken} /\ Returns(IF r.ret = 0 THEN 0 ELSE -9)
                  \/ /\ r.ret \notin {0, Broken} /\ (more => Room(r.ring, code))
                     /\ calling' = IF r.ret = n /\ ~more THEN "write" ELSE "backup"
                     /\ UNCHANGED <<b_writeNeedSelect, code, accepted>>
  BY <1>1
<1>13. PICK b : b = pSendMsgBuf
  OBVIOUS
<1>12. PICK read : read = ReadFromBuffer(b, SendBufSize, first, second)
  OBVIOUS
<1> HIDE DEF n
<1> DEFINE k == read.moved
           filled == b.m_filledLength
<1>3. SendRing(b) /\ filled > 0
  BY <1>0, <1>13 DEF SenderTypes, TheCode, HasUnsentCode
<1>4. ~(read.moved < read.ret) /\ pSendMsgBuf' = read.ring
  BY <1>2, <1>12, <1>13
<1>5. /\ SendRing(read.ring) /\ k \in 0..filled
      /\ Max({first, 0}) + Max({second, 0}) = k
      /\ read.ring.m_filledLength = filled - k
      /\ Content(read.ring) = SubSeq(Content(b), k + 1, filled)
  <2>1. Passed(b, first, second, read)
    BY <1>3, <1>4, <1>12, <1>13 DEF Passed, n
  <2> HIDE DEF k
  <2>2. /\ SendRing(read.ring) /\ read.moved \in 0..b.m_filledLength
        /\ PassedOn(first, second) = read.moved
        /\ read.ring.m_filledLength = b.m_filledLength - read.moved
        /\ Content(read.ring) = SubSeq(Content(b), read.moved + 1, b.m_filledLength)
    BY <2>1, ReadEffect
  <2> QED BY <2>2 DEF k, PassedOn
<1>6. /\ Content(b) \in Seq(Piece) /\ Len(Content(b)) = filled /\ filled \in 1..Size
      /\ wire \o Content(b) = accepted
  <2>1. Content(b) \in Seq(Piece) /\ Len(Content(b)) = filled /\ filled \in 1..Size
    BY <1>3, ContentIs, BufferFacts, SizeIsNat
  <2> QED BY <1>0, <1>13, <2>1 DEF TheStream, TheCode
<1>7. wire' \in Seq(Piece) /\ wire' \o Content(pSendMsgBuf)' = accepted
  <2> DEFINE c == Content(b)
             c1 == SubSeq(c, 1, k)
             c2 == SubSeq(c, k + 1, filled)
  <2>1. /\ 1 \in 1..Len(c) + 1 /\ k \in 1 - 1..Len(c) /\ filled \in k..Len(c)
        /\ k \in Int /\ filled \in Int
    <3> HIDE DEF c, k, filled
    <3> QED BY <1>5, <1>6, SizeIsNat DEF c
  <2>2. c1 \o c2 = c
    <3>1. c1 \o c2 = SubSeq(c, 1, filled)
      <4> HIDE DEF c, k, filled
      <4> QED BY <1>6, <2>1, ConcatAdjacentSubSeq DEF c
    <3> QED BY <1>6, <3>1, SubSeqFull
  <2>3. c1 \in Seq(Piece) /\ c2 \in Seq(Piece)
    <3> HIDE DEF c, k, filled
    <3>1. \A i \in 1..Len(c) : c[i] \in Piece
      BY <1>6, ElementOfSeq DEF c
    <3>2. \A i \in 1..k : i \in 1..Len(c)
      BY <1>6, <2>1 DEF c
    <3>3. \A i \in k + 1..filled : i \in 1..Len(c)
      BY <1>6, <2>1 DEF c
    <3>4. c1 \in Seq(Piece)
      BY <2>1, <3>1, <3>2, SubSeqProperties
    <3>5. k + 1 \in Int
      BY <2>1
    <3>6. c2 \in Seq(Piece)
      BY <2>1, <3>1, <3>3, <3>5, SubSeqProperties
    <3> QED BY <3>4, <3>6
  <2>4. wire' = wire \o c1 /\ Content(pSendMsgBuf)' = c2
    <3>1. wire' = wire \o SubSeq(Content(b), 1, Max({first, 0}) + Max({second, 0}))
      BY <1>2, <1>13
    <3>2. Content(pSendMsgBuf)' = Content(read.ring)
      BY <1>4
    <3> QED BY <1>5, <3>1, <3>2
  <2>5. wire \in Seq(Piece)
    BY DEF SenderTypes
  <2>6. wire \o c1 \in Seq(Piece) /\ (wire \o c1) \o c2 = wire \o (c1 \o c2)
    <3> HIDE DEF c1, c2
    <3> QED BY <2>3, <2>5, ConcatAssociative, ConcatProperties
  <2> QED BY <1>6, <2>2, <2>4, <2>6
<1>8. SendRing(pSendMsgBuf)'
  BY <1>4, <1>5
<1>9. \/ \E result \in {-5, 0, -9} : Returns(result)
      \/ /\ calling' = IF read.ret = n /\ ~(read.ring.m_filledLength > 0) THEN "write" ELSE "backup"
         /\ UNCHANGED <<code, accepted>>
  <2>1. \/ Returns(-5)
        \/ Returns(IF read.ret = 0 THEN 0 ELSE -9)
        \/ /\ calling' = IF read.ret = n /\ ~(read.ret = n /\ read.ring.m_filledLength > 0)
                         THEN "write" ELSE "backup"
           /\ UNCHANGED <<code, accepted>>
    BY <1>2, <1>12, <1>13
  <2> QED BY <2>1
<1>10. CASE \E result \in {-5, 0, -9} : Returns(result)
  <2>1. PICK result \in {-5, 0, -9} : Returns(result)
    BY <1>10
  <2>2. result \notin {1, -2} /\ calling # "idle"
    BY <1>0, <2>1
  <2>3. TheCode' /\ TheAccepted' /\ accepted' = accepted /\ calling' = "idle"
    BY <1>0, <2>1, <2>2, Returning DEF Returns
  <2>4. SenderTypes'
    BY <1>0, <1>7, <1>8, <2>3 DEF SenderTypes
  <2>5. TheStream'
    BY <1>7, <2>3 DEF TheStream
  <2> QED BY <2>3, <2>4, <2>5
<1>11. CASE /\ calling' = IF read.ret = n /\ ~(read.ring.m_filledLength > 0) THEN "write" ELSE "backup"
            /\ UNCHANGED <<code, accepted>>
  <2>0. /\ calling' \in {"write", "backup"} /\ code' = code /\ accepted' = accepted
        /\ calling' = "write" => ~HasUnsentCode'
        /\ Bytes(code.number)' = Bytes(code.number)
    <3>1. calling' = "write" => ~(read.ring.m_filledLength > 0)
      BY <1>11
    <3>2. HasUnsentCode' = (read.ring.m_filledLength > 0)
      BY <1>4 DEF HasUnsentCode
    <3> QED BY <1>0, <1>11, <3>1, <3>2 DEF Bytes
  <2>1. SenderTypes'
    BY <1>0, <1>7, <1>8, <2>0 DEF SenderTypes
  <2>2. TheCode'
    BY <1>0, <2>0 DEF TheCode
  <2>3. TheAccepted'
    BY <1>0, <2>0 DEF TheAccepted
  <2>4. TheStream'
    <3>1. code.rest = Bytes(code.number) /\ code.rest \in Seq(Piece)
      BY <1>0 DEF TheCode
    <3>2. (wire' \o Content(pSendMsgBuf)') \o code.rest = wire' \o (Content(pSendMsgBuf)' \o code.rest)
      <4>1. Content(pSendMsgBuf)' \in Seq(Piece)
        BY <1>4, <1>5, BufferFacts
      <4>2. wire' \in Seq(Piece) /\ code.rest \in Seq(Piece)
        BY <1>7, <3>1
      <4>3. \A u, v, w \in Seq(Piece) : (u \o v) \o w = u \o (v \o w)
        BY ConcatAssociative
      <4> QED BY <4>1, <4>2, <4>3
    <3> QED BY <1>7, <2>0, <3>1, <3>2 DEF TheStream
  <2> QED BY <2>1, <2>2, <2>3, <2>4
<1> QED BY <1>9, <1>10, <1>11

\* The message itself is sent, or as much of it as the system takes.
LEMMA WriteKeeps ==
    ASSUME SenderTypes, TheCode, TheAccepted, TheStream, Write
    PROVE  SenderTypes' /\ TheCode' /\ TheAccepted' /\ TheStream'
<1>0. /\ calling = "write"
      /\ UNCHANGED <<pSendMsgBuf, m_socketState, length, damage>>
  BY DEF Write
<1>1. PICK rest : rest = code.rest
  OBVIOUS
<1>2. /\ rest \in Seq(Piece) /\ Len(rest) \in 1..Size - MaxEmergencyLength /\ Len(rest) \in Nat
      /\ rest = Bytes(code.number) /\ ~HasUnsentCode
      /\ code = [number |-> code.number, rest |-> code.rest, flag |-> code.flag]
  BY <1>0, <1>1, SizeIsNat DEF TheCode
<1>3. Content(pSendMsgBuf) = <<>> /\ wire \in Seq(Piece) /\ wire = accepted
  <2>1. Content(pSendMsgBuf) = <<>> /\ wire \in Seq(Piece)
    BY <1>2, BufferFacts DEF SenderTypes, HasUnsentCode
  <2>2. wire \o Content(pSendMsgBuf) = accepted
    BY <1>0 DEF TheStream, TheCode
  <2> QED BY <2>1, <2>2, ConcatEmptySeq
<1>4. PICK n \in Results(Len(rest)) :
         /\ wire' = wire \o SubSeq(rest, 1, n)
         /\ \/ n = Len(rest) /\ Returns(1)
            \/ n = Broken /\ Returns(-9)
            \/ /\ n < Len(rest) /\ n # Broken
               /\ code' = [code EXCEPT !.rest = SubSeq(@, Max({n, 0}) + 1, Len(@))]
               /\ calling' = "backup"
               /\ UNCHANGED <<b_writeNeedSelect, accepted>>
  BY <1>1 DEF Write
<1>5. /\ n \in Int /\ n <= Len(rest) /\ Max({n, 0}) = IF n > 0 THEN n ELSE 0
      /\ n \in {-2, -1} \/ n \in 1..Len(rest)
  <2>1. Len(rest) \in Int /\ Len(rest) >= 0
    BY <1>2
  <2>2. /\ n \in Int /\ n <= Len(rest) /\ Max({n, 0}) = IF n > 0 THEN n ELSE 0
        /\ n \in {-2, -1, 0} \/ n \in 1..Len(rest)
    BY <1>4, <2>1, ResultIs
  <2>3. n # 0
    BY <1>2, <1>4 DEF Results, Block, Broken
  <2> QED BY <2>2, <2>3
<1>6. SubSeq(rest, 1, n) \in Seq(Piece) /\ (n <= 0 => SubSeq(rest, 1, n) = <<>>)
  <2>1. \A i \in 1..n : i \in 1..Len(rest)
    BY <1>2, <1>5
  <2>2. \A i \in 1..n : rest[i] \in Piece
    BY <1>2, <2>1, ElementOfSeq
  <2> QED BY <1>5, <2>2, SubSeqProperties, SubSeqEmpty
<1>7. wire' \in Seq(Piece)
  BY <1>3, <1>4, <1>6, ConcatProperties
<1>8. CASE n = Len(rest) /\ Returns(1)
  <2>1. 1 \in {1, -2} /\ calling # "idle" /\ length' = length
    BY <1>0
  <2>2. calling' = "idle"
    BY <1>8 DEF Returns
  <2>3. TheCode' /\ TheAccepted' /\ (accepted \in Seq(Piece))' /\ accepted' = accepted \o Bytes(code.number)
    BY <1>8, <2>1, Returning
  <2>4. wire' = accepted'
    <3>1. SubSeq(rest, 1, n) = rest
      BY <1>2, <1>8, SubSeqFull
    <3> QED BY <1>2, <1>3, <1>4, <2>3, <3>1
  <2>5. SenderTypes'
    BY <1>0, <1>7, <2>2, <2>3 DEF SenderTypes
  <2>6. TheStream'
    <3>1. wire' \o Content(pSendMsgBuf)' = accepted'
      BY <1>0, <1>3, <1>7, <2>4, ConcatEmptySeq
    <3> QED BY <2>2, <3>1 DEF TheStream
  <2> QED BY <2>3, <2>5, <2>6
<1>9. CASE n = Broken /\ Returns(-9)
  <2>1. -9 \notin {1, -2} /\ calling # "idle" /\ length' = length
    BY <1>0
  <2>2. calling' = "idle"
    BY <1>9 DEF Returns
  <2>3. TheCode' /\ TheAccepted' /\ accepted' = accepted
    BY <1>9, <2>1, Returning
  <2>4. wire' = wire
    BY <1>3, <1>4, <1>6, <1>9, ConcatEmptySeq DEF Broken
  <2>5. SenderTypes'
    BY <1>0, <2>2, <2>3, <2>4 DEF SenderTypes
  <2>6. TheStream'
    <3>1. wire' \o Content(pSendMsgBuf)' = accepted'
      BY <1>0, <1>3, <2>3, <2>4, ConcatEmptySeq
    <3> QED BY <2>2, <3>1 DEF TheStream
  <2> QED BY <2>3, <2>5, <2>6
<1>10. CASE /\ n < Len(rest)
            /\ code' = [code EXCEPT !.rest = SubSeq(@, Max({n, 0}) + 1, Len(@))]
            /\ calling' = "backup"
            /\ UNCHANGED accepted
  <2> DEFINE k == Max({n, 0})
             tail == SubSeq(rest, k + 1, Len(rest))
  <2>0. k \in 0..Len(rest) - 1 /\ k \in Int
    BY <1>2, <1>5, <1>10
  <2>1. tail \in Seq(Piece) /\ Len(tail) \in 1..Size - MaxEmergencyLength
    <3>1. k + 1 \in Int /\ Len(rest) \in Int /\ k + 1 <= Len(rest)
          /\ Len(rest) - (k + 1) + 1 \in 1..Size - MaxEmergencyLength
      <4> HIDE DEF k
      <4> QED BY <1>2, <2>0, SizeIsNat
    <3>2. \A i \in k + 1..Len(rest) : i \in 1..Len(rest)
      <4> HIDE DEF k
      <4> QED BY <1>2, <2>0
    <3>3. \A i \in k + 1..Len(rest) : rest[i] \in Piece
      BY <1>2, <3>2, ElementOfSeq
    <3> HIDE DEF k
    <3> QED BY <3>1, <3>3, SubSeqProperties
  <2>2. /\ code'.number = code.number /\ code'.rest = tail
        /\ code' = [number |-> code'.number, rest |-> code'.rest, flag |-> code'.flag]
    BY <1>1, <1>2, <1>10
  <2>3. SubSeq(rest, 1, n) = SubSeq(rest, 1, k)
    <3>1. CASE n > 0
      <4>1. k = n
        BY <1>5, <3>1
      <4> QED BY <4>1
    <3>2. CASE n <= 0
      <4>1. k = 0 /\ SubSeq(rest, 1, 0) = <<>>
        BY <1>5, <3>2, SubSeqEmpty
      <4> QED BY <1>6, <3>2, <4>1
    <3>3. n > 0 \/ n <= 0
      BY <1>5
    <3> QED BY <3>1, <3>2, <3>3
  <2>4. SubSeq(rest, 1, n) \o tail = rest
    <3>1. /\ 1 \in 1..Len(rest) + 1 /\ k \in 1 - 1..Len(rest) /\ Len(rest) \in k..Len(rest)
      <4> HIDE DEF k
      <4> QED BY <1>2, <2>0
    <3>2. SubSeq(rest, 1, k) \o tail = SubSeq(rest, 1, Len(rest))
      <4> HIDE DEF k
      <4> QED BY <1>2, <3>1, ConcatAdjacentSubSeq
    <3> QED BY <1>2, <2>3, <3>2, SubSeqFull
  <2> HIDE DEF tail
  <2>5. SenderTypes'
    BY <1>0, <1>7, <1>10 DEF SenderTypes
  <2>6. HasUnsentCode' = HasUnsentCode /\ Bytes(code.number)' = Bytes(code.number)
    BY <1>0, <2>2 DEF HasUnsentCode, Bytes
  <2>7. TheCode'
    <3>1. code'.number \in 1..Len(length') /\ code'.number = Len(length')
      BY <1>0, <2>2 DEF TheCode
    <3>2. m_socketState' = "OPEN"
      BY <1>0 DEF TheCode
    <3> QED BY <1>2, <1>10, <2>1, <2>2, <2>6, <3>1, <3>2 DEF TheCode
  <2>8. TheAccepted'
    BY <1>0, <1>10 DEF TheAccepted
  <2>9. TheStream'
    <3>1. Content(pSendMsgBuf)' \o code'.rest = tail
      BY <1>0, <1>3, <2>1, <2>2, ConcatEmptySeq
    <3>2. (wire \o SubSeq(rest, 1, n)) \o tail = wire \o (SubSeq(rest, 1, n) \o tail)
      <4>1. \A u, v, w \in Seq(Piece) : (u \o v) \o w = u \o (v \o w)
        BY ConcatAssociative
      <4> QED BY <1>3, <1>6, <2>1, <4>1
    <3>3. wire' \o tail = accepted' \o Bytes(code.number)'
      BY <1>2, <1>3, <1>4, <1>10, <2>4, <2>6, <3>2
    <3> QED BY <1>10, <3>1, <3>3 DEF TheStream
  <2> QED BY <2>5, <2>7, <2>8, <2>9
<1> QED BY <1>4, <1>8, <1>9, <1>10

\* What the system did not take goes behind what is buffered.
LEMMA BackupToSendBuffKeeps ==
    ASSUME SenderTypes, TheCode, TheAccepted, TheStream, BackupToSendBuff,
           damage = "none", damage' = "none"
    PROVE  SenderTypes' /\ TheCode' /\ TheAccepted' /\ TheStream'
<1>0. /\ calling = "backup" /\ calling # "idle"
      /\ UNCHANGED <<m_socketState, length, wire>>
  BY DEF BackupToSendBuff
<1>1. PICK b, rest : b = pSendMsgBuf /\ rest = code.rest
  OBVIOUS
<1>2. /\ SendRing(b) /\ Content(b) \in Seq(Piece) /\ wire \in Seq(Piece)
      /\ b.m_filledLength \in 0..Size /\ b.m_freeLength = Size - b.m_filledLength
      /\ ~(b.m_filledLength > 0) => Content(b) = <<>> /\ b.m_freeLength = Size
      /\ rest \in Seq(Piece) /\ Len(rest) \in 1..Size - MaxEmergencyLength /\ Len(rest) \in Nat
      /\ rest = Bytes(code.number) \/ ~(b.m_filledLength > 0)
      /\ wire \o (Content(b) \o rest) = accepted \o Bytes(code.number)
      /\ code.number \in 1..Len(length)
  <2>1. SendRing(b) /\ wire \in Seq(Piece)
    BY <1>1 DEF SenderTypes
  <2>2. /\ rest \in Seq(Piece) /\ Len(rest) \in 1..Size - MaxEmergencyLength
        /\ rest = Bytes(code.number) \/ ~(b.m_filledLength > 0)
        /\ code.number \in 1..Len(length)
    BY <1>0, <1>1 DEF TheCode, HasUnsentCode
  <2>3. wire \o (Content(b) \o rest) = accepted \o Bytes(code.number)
    BY <1>0, <1>1 DEF TheStream
  <2> QED BY <2>1, <2>2, <2>3, BufferFacts, SizeIsNat
<1>3. /\ accepted \in Seq(Piece) /\ Bytes(code.number) \in Seq(Piece)
  BY <1>2, BytesAre DEF SenderTypes
<1>4. CASE Room(b, code)
  <2>0. pSendMsgBuf' = Written(b, code) /\ Returns(-2)
    BY <1>1, <1>4 DEF BackupToSendBuff
  <2>1. Len(rest) <= b.m_freeLength
    <3>1. damage' = Damage(b, code)
      BY <1>1 DEF BackupToSendBuff
    <3>2. ~(Len(rest) > b.m_freeLength)
      BY <1>1, <1>4, <3>1 DEF Damage
    <3> QED BY <1>2, <3>2, SizeIsNat
  <2>2. SendRing(Written(b, code)) /\ Content(Written(b, code)) = Content(b) \o rest
    <3> DEFINE n == WriteLength(b, Len(rest))
               part == FirstPart(b, b.pBufTail, WriteStraight(b), n)
               r == WriteIntoBuffer(b, rest, Len(rest), part, n - part).ring
    <3>1. n = Len(rest) /\ n > 0 /\ b.m_freeLength > 0 /\ b.m_freeLength # 0
      <4>1. Len(rest) \in Int /\ b.m_freeLength \in Int /\ Len(rest) >= 1
        BY <1>2, SizeIsNat
      <4>2. Min({Len(rest), b.m_freeLength}) = Len(rest)
        BY <2>1, <4>1, MinOfTwo
      <4> QED BY <2>1, <4>1, <4>2 DEF WriteLength
    <3>2. Written(b, code) = r
      BY <1>1, <3>1 DEF Written
    <3>3. SendRing(r) /\ Content(r) = Content(b) \o SubSeq(rest, 1, n)
      <4>1. Kept(b, rest, n, r)
        BY <1>2, <3>1 DEF Kept
      <4> HIDE DEF n, r
      <4> QED BY <1>2, <4>1, WriteEffect
    <3>4. SubSeq(rest, 1, n) = rest
      BY <1>2, <3>1, SubSeqFull
    <3> QED BY <3>2, <3>3, <3>4
  <2>3. TheCode' /\ TheAccepted' /\ (accepted \in Seq(Piece))' /\ accepted' = accepted \o Bytes(code.number)
    <3>1. -2 \in {1, -2} /\ length' = length
      BY <1>0
    <3> QED BY <1>0, <2>0, <3>1, Returning
  <2>4. calling' = "idle"
    BY <2>0 DEF Returns
  <2>5. SenderTypes'
    BY <1>0, <2>0, <2>2, <2>3, <2>4 DEF SenderTypes
  <2>6. TheStream'
    <3>1. wire' \o Content(pSendMsgBuf)' = accepted'
      BY <1>0, <1>2, <2>0, <2>2, <2>3
    <3> QED BY <2>4, <3>1 DEF TheStream
  <2> QED BY <2>3, <2>5, <2>6
<1>5. CASE ~Room(b, code)
  <2>0. pSendMsgBuf' = b /\ Returns(-5)
    BY <1>1, <1>5 DEF BackupToSendBuff
  <2>1. rest = Bytes(code.number)
    <3>1. ~(Len(rest) <= b.m_freeLength - MaxEmergencyLength)
      BY <1>1, <1>5 DEF Room
    <3>2. b.m_freeLength # Size
      BY <1>2, <3>1, SizeIsNat
    <3> QED BY <1>2, <3>2
  <2>2. wire \o Content(b) = accepted
    <3>1. (wire \o Content(b)) \o rest = accepted \o rest
      <4>1. \A u, v, w \in Seq(Piece) : (u \o v) \o w = u \o (v \o w)
        BY ConcatAssociative
      <4> QED BY <1>2, <2>1, <4>1
    <3>2. wire \o Content(b) \in Seq(Piece)
      BY <1>2, ConcatProperties
    <3>3. \A u, v, w \in Seq(Piece) : u \o w = v \o w => u = v
      BY ConcatSimplifications
    <3> QED BY <1>2, <1>3, <3>1, <3>2, <3>3
  <2>3. TheCode' /\ TheAccepted' /\ accepted' = accepted
    <3>1. -5 \notin {1, -2} /\ length' = length
      BY <1>0
    <3> QED BY <1>0, <2>0, <3>1, Returning
  <2>4. calling' = "idle"
    BY <2>0 DEF Returns
  <2>5. SenderTypes'
    BY <1>0, <1>1, <2>0, <2>3, <2>4 DEF SenderTypes
  <2>6. TheStream'
    <3>1. wire' \o Content(pSendMsgBuf)' = accepted'
      BY <1>0, <2>0, <2>2, <2>3
    <3> QED BY <2>4, <3>1 DEF TheStream
  <2> QED BY <2>3, <2>5, <2>6
<1> QED BY <1>4, <1>5

\* close() keeps what it has not sent.
LEMMA CloseSocketKeeps ==
    ASSUME SenderTypes, TheCode, TheAccepted, TheStream, CloseSocket
    PROVE  SenderTypes' /\ TheCode' /\ TheAccepted' /\ TheStream'
<1>0. /\ calling = "idle" /\ m_socketState = "OPEN" /\ m_socketState' = "CLOSE"
      /\ UNCHANGED <<calling, code, length, wire, accepted, damage>>
      /\ pSendMsgBuf' = EmptyRing(Size) \/ pSendMsgBuf' = pSendMsgBuf
  BY DEF CloseSocket
<1>1. SendRing(pSendMsgBuf)'
  BY <1>0, EmptySendRing DEF SenderTypes
<1>2. SenderTypes' /\ TheCode' /\ TheAccepted'
  BY <1>0, <1>1 DEF SenderTypes, TheCode, TheAccepted
<1>3. TheStream'
  <2>1. CASE pSendMsgBuf' = EmptyRing(Size)
    BY <1>0, <2>1 DEF TheStream, HasUnsentCode, EmptyRing
  <2>2. CASE pSendMsgBuf' = pSendMsgBuf
    BY <1>0, <2>2 DEF TheStream, HasUnsentCode
  <2> QED BY <1>0, <2>1, <2>2
<1> QED BY <1>2, <1>3

\* open() starts a new stream with what was kept.
LEMMA OpenSocketKeeps ==
    ASSUME SenderTypes, TheCode, TheAccepted, TheStream, OpenSocket,
           damage = "none", damage' = "none"
    PROVE  SenderTypes' /\ TheCode' /\ TheAccepted' /\ TheStream'
<1>0. /\ m_socketState = "CLOSE" /\ m_socketState' = "OPEN" /\ wire' = <<>>
      /\ UNCHANGED <<pSendMsgBuf, calling, code, length>> /\ calling = "idle"
  BY DEF OpenSocket, TheCode
<1>1. PICK c : c = Content(pSendMsgBuf)
  OBVIOUS
<1>2. c \in Seq(Piece) /\ <<>> \in Seq(Piece) /\ <<>> \o c = c /\ Len(c) \in Nat
      /\ Len(c) = pSendMsgBuf.m_filledLength
  BY <1>1, ContentIs, EmptySeq, ConcatEmptySeq DEF SenderTypes
<1>3. accepted' = c /\ Unlike(c) /\ Below(c, Len(length) + 1)
  <2>1. CASE HasUnsentCode
    <3>1. accepted' = FromMessage(c[1][1]) /\ c[1][2] = 1
      BY <1>1, <2>1 DEF OpenSocket
    <3>2. c # <<>>
      BY <1>2, <2>1, EmptySeq DEF HasUnsentCode
    <3>3. /\ accepted \in Seq(Piece) /\ Unlike(accepted) /\ Below(accepted, Len(length) + 1)
          /\ wire \in Seq(Piece) /\ wire \o c = accepted
      BY <1>0, <1>1, <2>1 DEF SenderTypes, TheAccepted, TheStream
    <3> QED BY <1>2, <3>1, <3>2, <3>3, Remaining
  <2>2. CASE ~HasUnsentCode
    <3>1. accepted' = <<>> /\ c = <<>>
      BY <1>0, <1>1, <2>2, BufferFacts DEF OpenSocket, HasUnsentCode, SenderTypes
    <3> QED BY <1>2, <3>1, EmptySeq DEF Unlike, Below
  <2> QED BY <2>1, <2>2
<1>4. SenderTypes' /\ TheCode' /\ TheAccepted'
  BY <1>0, <1>2, <1>3 DEF SenderTypes, TheCode, TheAccepted
<1>5. TheStream'
  <2>1. wire' \o Content(pSendMsgBuf)' = accepted'
    BY <1>0, <1>1, <1>2, <1>3
  <2> QED BY <1>0, <2>1 DEF TheStream
<1> QED BY <1>4, <1>5

\* Until the stream is damaged, what the connection has and what waits is what was
\* accepted (CSocket::sendCode, _sendBuffToSocket, backupToSendBuff).
THEOREM StreamWhole == SenderSpec => []StreamIsWholeUntilDamaged
<1>1. SenderInit => SenderInv
  <2> SUFFICES ASSUME SenderInit PROVE SenderTypes /\ TheCode /\ TheAccepted /\ TheStream
    BY DEF SenderInv
  <2>1. <<>> \in Seq(Piece) /\ <<>> \in Seq(Lengths) /\ <<>> \o <<>> = <<>> /\ Len(<<>>) = 0
    <3>1. <<>> \in Seq(Piece) /\ <<>> \in Seq(Lengths) /\ Len(<<>>) = 0
      BY EmptySeq
    <3> QED BY <3>1, ConcatEmptySeq
  <2>2. SenderTypes /\ TheCode
    BY <2>1, EmptySendRing DEF SenderInit, SenderTypes, TheCode
  <2>3. TheAccepted
    BY <2>1 DEF SenderInit, TheAccepted, Unlike, Below
  <2>4. TheStream
    BY <2>1, EmptySendRing DEF SenderInit, TheStream
  <2> QED BY <2>2, <2>3, <2>4
<1>2. SenderInv /\ [SenderNext]_senderVars => SenderInv'
  <2> SUFFICES ASSUME SenderInv, [SenderNext]_senderVars, damage' = "none"
               PROVE  SenderTypes' /\ TheCode' /\ TheAccepted' /\ TheStream'
    BY DEF SenderInv
  <2>0. damage = "none"
    BY DEF SenderNext, SendCode, PreSendProcess, SendUnsentCode, Write, BackupToSendBuff,
           Damage, CloseSocket, OpenSocket, senderVars
  <2>00. SenderTypes /\ TheCode /\ TheAccepted /\ TheStream
    BY <2>0 DEF SenderInv
  <2>1. ASSUME NEW n \in Lengths, NEW flag \in {"normal", "emergency"}, SendCode(n, flag)
        PROVE  SenderTypes' /\ TheCode' /\ TheAccepted' /\ TheStream'
    BY <2>00, <2>1, SendCodeKeeps
  <2>2. CASE PreSendProcess
    BY <2>00, <2>2, PreSendProcessKeeps
  <2>3. CASE SendUnsentCode
    BY <2>0, <2>00, <2>3, SendUnsentCodeKeeps
  <2>4. CASE Write
    BY <2>00, <2>4, WriteKeeps
  <2>5. CASE BackupToSendBuff
    BY <2>0, <2>00, <2>5, BackupToSendBuffKeeps
  <2>6. CASE CloseSocket
    BY <2>00, <2>6, CloseSocketKeeps
  <2>7. CASE OpenSocket
    BY <2>0, <2>00, <2>7, OpenSocketKeeps
  <2>8. CASE UNCHANGED senderVars
    BY <2>00, <2>8 DEF senderVars, SenderTypes, TheCode, TheAccepted, TheStream, HasUnsentCode, Bytes
  <2> QED BY <2>1, <2>2, <2>3, <2>4, <2>5, <2>6, <2>7, <2>8 DEF SenderNext
<1>3. SenderInv => StreamIsWholeUntilDamaged
  BY DEF SenderInv, StreamIsWholeUntilDamaged, StreamIsWhole, TheStream
<1> QED BY <1>1, <1>2, <1>3, PTL DEF SenderSpec

-----------------------------------------------------------------------------
(* The client of a Redis cluster.                                          *)

Connected == {connections_[n] : n \in DOMAIN connections_}

\* The parts of NothingDangles: contexts, and rows.
Owned == /\ \A n, m \in DOMAIN connections_ : connections_[n] = connections_[m] => n = m
         /\ allocated = Connected \cup (IF Loading THEN {context} \ {NoContext} ELSE {})
         /\ step = "sending" => node \in DOMAIN connections_ /\ context = connections_[node]
Rows == m_pSelectResult.rowNum <= m_pSelectResult.rows

\* Where a command is decides whose the context in its hands is: nobody's, that of
\* a connection, or its own.
InHand == /\ step \in {"idle", "loading", "reloading", "choosing", "sending"}
          /\ allocated \subseteq Contexts
          /\ step \in {"idle", "choosing"} => context = NoContext
          /\ Loading => context \notin Connected

IInv == Owned /\ InHand

\* Every context has its owner at the start: there is none.
LEMMA InitOwned == ClusterInit => IInv
<1> SUFFICES ASSUME ClusterInit PROVE IInv
  OBVIOUS
<1>1. DOMAIN connections_ = {}
  BY DEF ClusterInit
<1>2. Connected = {}
  BY <1>1 DEF Connected
<1> QED
  BY <1>1, <1>2 DEF ClusterInit, IInv, Owned, InHand, Loading

\* One step, by what it does to the connections.
LEMMA NextOwned == IInv /\ [ClusterNext]_clusterVars => IInv'
<1> SUFFICES ASSUME IInv, [ClusterNext]_clusterVars PROVE IInv'
  OBVIOUS
<1> USE DEF IInv, Owned, InHand, Loading
<1>0. NoContext \notin Contexts
  BY ClusterAssumption
<1>1. CASE ConnDB
  <2>1. Connected' = Connected
    BY <1>1 DEF ConnDB, links, Connected
  <2> QED BY <1>0, <1>1, <2>1 DEF ConnDB, links
<1>2. CASE ExecSQL
  <2>1. Connected' = Connected
    BY <1>2 DEF ExecSQL, links, Connected
  <2> QED BY <1>0, <1>2, <2>1 DEF ExecSQL, Choose, links
<1>3. CASE LoadConnect
  <2>1. Connected' = Connected
    BY <1>3 DEF LoadConnect, Connected
  <2> QED BY <1>0, <1>3, <2>1 DEF LoadConnect, Connects
<1>4. CASE LoadReply
  <2>1. Connected' = Connected
    BY <1>4 DEF LoadReply, Connected
  <2>2. allocated' = Connected /\ context' = NoContext
    BY <1>4 DEF LoadReply, Free
  <2>3. NoContext \notin Connected
    BY <1>0
  <2> QED BY <1>4, <2>1, <2>2, <2>3 DEF LoadReply, Loaded, Choose
<1>5. CASE LoadFails
  <2>1. Connected' = Connected
    BY <1>5 DEF LoadFails, links, Connected
  <2> QED BY <1>5, <2>1 DEF LoadFails, Loaded, Choose, links
<1>6. CASE UseConnection
  <2>1. Connected' = Connected
    BY <1>6 DEF UseConnection, Connected
  <2> QED BY <1>6, <2>1 DEF UseConnection
<1>7. CASE NewConnection
  <2>1. PICK c \in Contexts :
           /\ Connects(c)
           /\ connections_' = [n \in DOMAIN connections_ \cup {node'} |->
                                  IF n = node' THEN c ELSE connections_[n]]
    BY <1>7 DEF NewConnection
  <2>2. node' \notin DOMAIN connections_ /\ step = "choosing" /\ step' = "sending"
    BY <1>7 DEF NewConnection
  <2>3. Connected' = Connected \cup {c}
    BY <2>1, <2>2 DEF Connected
  <2>4. \A n \in DOMAIN connections_ : connections_[n] # c
    BY <2>1, <2>2 DEF Connects, Connected
  <2>5. \A n, m \in DOMAIN connections_' : connections_'[n] = connections_'[m] => n = m
    BY <2>1, <2>4
  <2> QED BY <2>1, <2>2, <2>3, <2>5 DEF Connects
<1>8. CASE PassOver
  <2>1. Connected' = Connected
    BY <1>8 DEF PassOver, links, Connected
  <2> QED BY <1>8, <2>1 DEF PassOver, links
<1>9. CASE Refuse
  <2>1. Connected' = Connected
    BY <1>9 DEF Refuse, links, Connected
  <2> QED BY <1>9, <2>1 DEF Refuse, links
<1>10. CASE Lost
  <2>1. /\ connections_' = [n \in DOMAIN connections_ \ {node} |-> connections_[n]]
        /\ allocated' = allocated \ {context} /\ context' = NoContext
        /\ step = "sending" /\ step' = "idle"
    BY <1>10 DEF Lost, Free, DropConnection
  <2>2. Connected' = Connected \ {connections_[node]}
    BY <2>1 DEF Connected
  <2>3. allocated' = Connected'
    BY <2>1, <2>2
  <2>4. \A n, m \in DOMAIN connections_' : connections_'[n] = connections_'[m] => n = m
    BY <2>1
  <2> QED BY <2>1, <2>3, <2>4
<1>11. CASE Redirected
  <2>1. Connected' = Connected
    BY <1>11 DEF Redirected, Connected
  <2> QED BY <1>11, <2>1 DEF Redirected
<1>12. CASE Answered
  <2>1. Connected' = Connected
    BY <1>12 DEF Answered, Connected
  <2> QED BY <1>12, <2>1 DEF Answered
<1>13. CASE UNCHANGED clusterVars
  <2>1. Connected' = Connected
    BY <1>13 DEF clusterVars, links, Connected
  <2> QED BY <1>13, <2>1 DEF clusterVars, links
<1> QED
  BY <1>1, <1>2, <1>3, <1>4, <1>5, <1>6, <1>7, <1>8, <1>9, <1>10, <1>11, <1>12, <1>13
     DEF ClusterNext

\* The count of rows never exceeds the rows.
LEMMA RowsOfAnswer == \A a \in Answers : AnalystsResult(a).rowNum <= AnalystsResult(a).rows
<1> SUFFICES ASSUME NEW a \in Answers
             PROVE  AnalystsResult(a).rowNum <= AnalystsResult(a).rows
  OBVIOUS
<1>1. CASE a \in [kind : {"value", "status", "nil", "error"}]
  <2>1. a.kind \in {"value", "status", "nil", "error"}
    BY <1>1
  <2> QED BY <2>1 DEF AnalystsResult, FreeResult
<1>2. CASE a \in [kind : {"array"}, elements : 0..MaxElements, allNil : BOOLEAN]
  <2>1. a.kind = "array" /\ a.elements \in Nat
    BY <1>2, ClusterAssumption
  <2> QED BY <2>1 DEF AnalystsResult, FreeResult
<1> QED BY <1>1, <1>2 DEF Answers

\* No step reads past the rows of a result.
LEMMA NextRows == Rows /\ [ClusterNext]_clusterVars => Rows'
<1> SUFFICES ASSUME Rows, [ClusterNext]_clusterVars PROVE Rows'
  OBVIOUS
<1>1. CASE Answered
  BY <1>1, RowsOfAnswer DEF Answered, Rows
<1>2. CASE UNCHANGED m_pSelectResult
  BY <1>2 DEF Rows
<1> QED
  BY <1>1, <1>2 DEF ClusterNext, clusterVars, ConnDB, ExecSQL, LoadConnect, LoadReply, LoadFails,
     UseConnection, NewConnection, PassOver, Refuse, Lost, Redirected

\* Whatever the servers do, no pointer to a context dangles, none is lost, and the
\* rows of the result are at least as many as its count.
THEOREM Dangling == ClusterSpec => []NothingDangles
<1>1. ClusterInit => IInv /\ Rows
  BY InitOwned DEF ClusterInit, Rows
<1>2. IInv /\ Rows /\ [ClusterNext]_clusterVars => IInv' /\ Rows'
  BY NextOwned, NextRows
<1>3. IInv /\ Rows => NothingDangles
  BY DEF IInv, Owned, Rows, Connected, NothingDangles
<1> QED
  BY <1>1, <1>2, <1>3, PTL DEF ClusterSpec
-----------------------------------------------------------------------------
\* The search.  Around(i, k, c) is where it will be k turns after it was at i.
Count == Len(startup_nodes_)
Around(i, k, c) == IF i + k <= c THEN i + k ELSE i + k - c
Ahead == {startup_nodes_[Around(next, k, Count)] : k \in 0..left - 1}

SearchTypeOK == /\ startup_nodes_ \in Seq(Nodes)
                /\ next \in Nat /\ left \in Nat
                /\ step \in {"idle", "loading", "reloading", "choosing", "sending"}

\* A node is ahead of the search, or has been passed over; and nobody answers to
\* whom no connection was made.
Search == /\ step = "reloading" => unreachable = {}
          /\ Loading /\ context # NoContext => left > 0
          /\ step = "choosing" => /\ left <= Count /\ next \in 1..Count \cup {1}
                                  /\ unreachable \cup Ahead = ToSet(startup_nodes_)

\* parse_startup makes a sequence of addresses.
LEMMA NodesInSequence ==
    ASSUME NEW S \in SUBSET Nodes, NEW s \in SetToSeqs(S)
    PROVE  s \in Seq(Nodes)
<1>1. IsFiniteSet(S)
  BY ClusterAssumption, FS_Subset
<1>2. Cardinality(S) \in Nat
  BY <1>1, FS_CardinalityType
<1>3. s \in [1..Cardinality(S) -> S]
  BY DEF SetToSeqs
<1> QED
  BY <1>2, <1>3

\* As many turns as there are places visit each of them.
LEMMA TurnsVisitAll ==
    ASSUME NEW c \in Nat, NEW i \in 1..c \cup {1}
    PROVE  {Around(i, k, c) : k \in 0..c - 1} = 1..c
<1>1. ASSUME NEW k \in 0..c - 1
      PROVE  Around(i, k, c) \in 1..c
  <2>1. k \in Nat /\ k < c /\ i \in Nat /\ 1 <= i /\ i <= c
    OBVIOUS
  <2> QED BY <2>1 DEF Around
<1>2. ASSUME NEW n \in 1..c
      PROVE  \E k \in 0..c - 1 : Around(i, k, c) = n
  <2>1. n \in Nat /\ 1 <= n /\ n <= c /\ i \in Nat /\ 1 <= i /\ i <= c
    OBVIOUS
  <2>2. CASE n >= i
    <3>1. n - i \in 0..c - 1 /\ Around(i, n - i, c) = n
      BY <2>1, <2>2 DEF Around
    <3> QED BY <3>1
  <2>3. CASE n < i
    <3>1. n - i + c \in 0..c - 1 /\ Around(i, n - i + c, c) = n
      BY <2>1, <2>3 DEF Around
    <3> QED BY <3>1
  <2> QED BY <2>1, <2>2, <2>3
<1> QED
  BY <1>1, <1>2

\* A search that begins anywhere has all nodes ahead of it.
LEMMA AllAhead ==
    ASSUME SearchTypeOK, Choose, UNCHANGED startup_nodes_
    PROVE  /\ next' \in Nat /\ left' \in Nat /\ step' = "choosing"
           /\ left' <= Count' /\ next' \in 1..Count' \cup {1}
           /\ Ahead' = ToSet(startup_nodes_')
<1> DEFINE s == startup_nodes_
           i == next'
<1>1. Count \in Nat /\ Count' = Count /\ DOMAIN s = 1..Count
  BY DEF SearchTypeOK, Count
<1>2. left' = Count /\ step' = "choosing"
  BY DEF Choose, Count
<1>3. i \in 1..Count \cup {1}
  <2>1. Max({1, Count}) = IF Count = 0 THEN 1 ELSE Count
    BY <1>1 DEF Max
  <2>2. i \in 1..Max({1, Count})
    BY DEF Choose, Count
  <2> QED BY <1>1, <2>1, <2>2
<1>4. Ahead' = {s[Around(i, k, Count)] : k \in 0..Count - 1}
  BY <1>1, <1>2 DEF Ahead
<1>5. Ahead' = {s[n] : n \in 1..Count}
  BY <1>1, <1>3, <1>4, TurnsVisitAll
<1> QED
  BY <1>1, <1>2, <1>3, <1>5 DEF ToSet

\* The search has not begun at the start.
LEMMA InitSearch == ClusterInit => SearchTypeOK /\ Search
<1> SUFFICES ASSUME ClusterInit PROVE SearchTypeOK /\ Search
  OBVIOUS
<1> QED
  BY DEF ClusterInit, SearchTypeOK, Search, Loading

\* One turn: a node that is ahead is passed over.
LEMMA OneTurn ==
    ASSUME SearchTypeOK, Search, PassOver
    PROVE  SearchTypeOK' /\ Search'
<1> DEFINE s == startup_nodes_
<1>1. /\ step = "choosing" /\ step' = "choosing" /\ left > 0
      /\ unreachable' = unreachable \cup {s[next]}
      /\ next' = Following(next) /\ left' = left - 1 /\ startup_nodes_' = s
  BY DEF PassOver, links
<1>2. /\ Count \in Nat /\ Count' = Count /\ DOMAIN s = 1..Count
      /\ left \in Nat /\ left <= Count /\ left' \in Nat
  BY <1>1 DEF SearchTypeOK, Search, Count
<1>3. next \in 1..Count /\ Count > 0
  BY <1>1, <1>2 DEF Search
<1>4. next' = (IF next = Count THEN 1 ELSE next + 1) /\ next' \in 1..Count
  <2>1. next' = (IF next = Count THEN 1 ELSE next + 1)
    BY <1>1 DEF Following, Count
  <2> QED BY <1>2, <1>3, <2>1
<1>5. ASSUME NEW k \in 0..left - 2
      PROVE  Around(next', k, Count) = Around(next, k + 1, Count) /\ k + 1 \in 1..left - 1
  <2>1. k \in Nat /\ k <= left - 2
    BY <1>2
  <2>2. CASE next = Count
    BY <1>2, <1>3, <1>4, <2>1, <2>2 DEF Around
  <2>3. CASE next < Count
    BY <1>2, <1>3, <1>4, <2>1, <2>3 DEF Around
  <2> QED BY <1>2, <1>3, <2>2, <2>3
<1>6. ASSUME NEW k \in 1..left - 1
      PROVE  k - 1 \in 0..left - 2 /\ k = (k - 1) + 1
  BY <1>2
<1>7. Ahead' = {s[Around(next', k, Count)] : k \in 0..left - 2}
  BY <1>1, <1>2 DEF Ahead
<1>8. Ahead' = {s[Around(next, k, Count)] : k \in 1..left - 1}
  BY <1>5, <1>6, <1>7
<1>9. Around(next, 0, Count) = next
  BY <1>2, <1>3 DEF Around
<1>10. 0..left - 1 = {0} \cup 1..left - 1
  BY <1>1, <1>2
<1>11. Ahead = {s[next]} \cup Ahead'
  BY <1>8, <1>9, <1>10 DEF Ahead
<1>12. unreachable' \cup Ahead' = ToSet(s)
  BY <1>1, <1>11 DEF Search
<1> QED
  BY <1>1, <1>2, <1>4, <1>12 DEF SearchTypeOK, Search, Loading

\* A step of the search excludes only nodes it could not reach.
LEMMA NextSearch ==
    InHand /\ SearchTypeOK /\ Search /\ [ClusterNext]_clusterVars => SearchTypeOK' /\ Search'
<1> SUFFICES ASSUME InHand, SearchTypeOK, Search, [ClusterNext]_clusterVars
             PROVE  SearchTypeOK' /\ Search'
  OBVIOUS
<1> USE DEF Loading
<1>1. CASE ConnDB
  <2>1. startup_nodes_' \in Seq(Nodes)
    BY <1>1, NodesInSequence DEF ConnDB
  <2>2. next' \in Nat /\ left' \in Nat /\ step' \in {"idle", "loading"}
    BY <1>1, <2>1 DEF ConnDB
  <2>3. context' = NoContext
    BY <1>1 DEF ConnDB, links, InHand
  <2> QED BY <2>1, <2>2, <2>3 DEF SearchTypeOK, Search
<1>2. CASE Choose /\ UNCHANGED startup_nodes_ /\ unreachable' = {}
  BY <1>2, AllAhead DEF SearchTypeOK, Search
<1>3. CASE ExecSQL
  <2>1. CASE load_slots_asap_
    BY <1>3, <2>1 DEF ExecSQL, links, InHand, SearchTypeOK, Search
  <2>2. CASE ~load_slots_asap_
    BY <1>2, <1>3, <2>2 DEF ExecSQL
  <2> QED BY <2>1, <2>2
<1>4. CASE Loading /\ Loaded /\ UNCHANGED <<startup_nodes_, unreachable>>
  <2>1. CASE step = "loading"
    BY <1>4, <2>1 DEF Loaded, SearchTypeOK, Search
  <2>2. CASE step = "reloading"
    BY <1>2, <1>4, <2>2 DEF Loaded, Search
  <2> QED BY <1>4, <2>1, <2>2 DEF Loading
<1>5. CASE LoadConnect
  BY <1>5 DEF LoadConnect, Connects, SearchTypeOK, Search
<1>6. CASE LoadReply
  <2>1. CASE Loaded
    BY <1>4, <1>6, <2>1 DEF LoadReply
  <2>2. CASE left' = left - 1 /\ UNCHANGED <<step, next>>
    BY <1>6, <2>2 DEF LoadReply, Free, SearchTypeOK, Search
  <2> QED BY <1>6, <2>1, <2>2 DEF LoadReply
<1>7. CASE LoadFails
  BY <1>4, <1>7 DEF LoadFails
<1>8. CASE UseConnection
  BY <1>8 DEF UseConnection, search, SearchTypeOK, Search
<1>9. CASE NewConnection
  BY <1>9 DEF NewConnection, search, SearchTypeOK, Search
<1>10. CASE PassOver
  BY <1>10, OneTurn
<1>11. CASE Refuse
  BY <1>11 DEF Refuse, search, SearchTypeOK, Search
<1>12. CASE Lost
  BY <1>12 DEF Lost, search, SearchTypeOK, Search
<1>13. CASE Redirected
  BY <1>13 DEF Redirected, search, SearchTypeOK, Search
<1>14. CASE Answered
  BY <1>14 DEF Answered, search, SearchTypeOK, Search
<1>15. CASE UNCHANGED clusterVars
  BY <1>15 DEF clusterVars, links, search, SearchTypeOK, Search, Ahead, Count
<1> QED
  BY <1>1, <1>3, <1>5, <1>6, <1>7, <1>8, <1>9, <1>10, <1>11, <1>12, <1>13, <1>14, <1>15
     DEF ClusterNext

\* A command is refused only after every node has been tried.
THEOREM Refused == ClusterSpec => []RefusedAfterTryingAll
<1>1. SearchTypeOK /\ Search => RefusedAfterTryingAll
  <2> SUFFICES ASSUME SearchTypeOK, Search, step = "choosing", left = 0
               PROVE  unreachable = ToSet(startup_nodes_)
    BY DEF RefusedAfterTryingAll
  <2>1. 0..left - 1 = {}
    OBVIOUS
  <2>2. Ahead = {}
    BY <2>1 DEF Ahead
  <2> QED BY <2>2 DEF Search
<1>2. IInv => InHand
  BY DEF IInv
<1> QED
  BY InitOwned, NextOwned, InitSearch, NextSearch, <1>1, <1>2, PTL DEF ClusterSpec
=============================================================================
