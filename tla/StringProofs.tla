----------------------------- MODULE StringProofs -----------------------------
(***************************************************************************)
(* Theorems of CStr, for any array size, any strings and any number of     *)
(* objects.                                                                *)
(***************************************************************************)
EXTENDS CStr, FiniteSetTheorems, SequenceTheorems, WellFoundedInduction, TLAPS

-----------------------------------------------------------------------------
(* What it means to hold a text, and copying within an array.             *)

\* What a cell of an array may hold.
Cell == Char \cup {Unwritten}

\* A string whose array has the size that its capacity says.
Roomy(s) == /\ s \in [m_buffer : Seq(Cell), m_length : Nat, m_capacity : Nat]
            /\ Len(s.m_buffer) = s.m_capacity + 1

\* A string has these bytes in front.
Has(s, t) == /\ t \in Seq(Char) /\ Len(t) <= s.m_capacity
             /\ \A i \in 1..Len(t) : s.m_buffer[i] = t[i]

\* A string holds a text: its bytes, a zero behind them, and their number.
Holds(s, t) == /\ Roomy(s) /\ Has(s, t)
               /\ s.m_length = Len(t)
               /\ s.m_buffer[Len(t) + 1] = Nul

\* An array b in which w has been copied to offset at.
CopyOf(c, b, at, w) ==
    /\ c \in Seq(Cell) /\ Len(c) = Len(b)
    /\ \A i \in 1..Len(b) : c[i] = IF i <= at THEN b[i]
                                   ELSE IF i <= at + Len(w) THEN w[i - at] ELSE b[i]

\* Copying within an array changes the cells that are copied to and no other.
LEMMA CopiedIs ==
    ASSUME NEW b \in Seq(Cell), NEW at \in Nat, NEW w \in Seq(Cell), at + Len(w) <= Len(b)
    PROVE  CopyOf(Copied(b, at, w), b, at, w)
<1> DEFINE n == Len(b)
           m == Len(w)
           front == SubSeq(b, 1, at)
           back == SubSeq(b, at + m + 1, n)
<1>1. n \in Nat /\ m \in Nat
  BY LenProperties
<1>2. front \in Seq(Cell) /\ Len(front) = at /\ \A i \in 1..at : front[i] = b[i]
  BY <1>1, SubSeqProperties
<1>3. /\ back \in Seq(Cell) /\ Len(back) = n - (at + m)
      /\ \A i \in 1..n - (at + m) : back[i] = b[at + m + i]
  BY <1>1, SubSeqProperties
<1> HIDE DEF front, back
<1>4. /\ front \o w \in Seq(Cell) /\ Len(front \o w) = at + m
      /\ \A i \in 1..at + m : (front \o w)[i] = IF i <= at THEN front[i] ELSE w[i - at]
  BY <1>1, <1>2, ConcatProperties
<1> DEFINE u == front \o w
<1> HIDE DEF u
<1>5. /\ u \o back \in Seq(Cell) /\ Len(u \o back) = n
      /\ \A i \in 1..n : (u \o back)[i] = IF i <= at + m THEN u[i] ELSE back[i - (at + m)]
  BY <1>1, <1>3, <1>4, ConcatProperties DEF u
<1>6. Copied(b, at, w) = u \o back
  BY DEF Copied, u, front, back
<1>7. ASSUME NEW i \in 1..n PROVE Copied(b, at, w)[i] = IF i <= at THEN b[i]
                                       ELSE IF i <= at + Len(w) THEN w[i - at] ELSE b[i]
  <2>1. CASE i <= at + m
    <3>1. i \in 1..at + m /\ Copied(b, at, w)[i] = u[i]
      BY <1>1, <1>5, <1>6, <2>1
    <3>2. i <= at => i \in 1..at
      BY <1>1
    <3> QED BY <1>2, <1>4, <2>1, <3>1, <3>2 DEF u
  <2>2. CASE ~(i <= at + m)
    <3>1. i - (at + m) \in 1..n - (at + m) /\ at + m + (i - (at + m)) = i /\ ~(i <= at)
      BY <1>1, <2>2
    <3>2. Copied(b, at, w)[i] = back[i - (at + m)]
      BY <1>5, <1>6, <2>2
    <3> QED BY <1>3, <2>2, <3>1, <3>2
  <2> QED BY <2>1, <2>2
<1> QED BY <1>5, <1>6, <1>7 DEF CopyOf

\* A text with a zero put behind it is held.
LEMMA EndedIs ==
    ASSUME NEW s, NEW t, Roomy(s), Has(s, t)
    PROVE  Holds(Ended(s, Len(t)), t)
<1> DEFINE n == Len(t)
           c == Copied(s.m_buffer, n, <<Nul>>)
           e == Ended(s, n)
<1>1. /\ s \in [m_buffer : Seq(Cell), m_length : Nat, m_capacity : Nat]
      /\ Len(s.m_buffer) = s.m_capacity + 1
  BY DEF Roomy
<1>2. t \in Seq(Char) /\ n \in Nat /\ n <= s.m_capacity /\ \A i \in 1..n : s.m_buffer[i] = t[i]
  BY LenProperties DEF Has
<1>3. s.m_buffer \in Seq(Cell) /\ s.m_capacity \in Nat
  BY <1>1
<1>4. <<Nul>> \in Seq(Cell) /\ Len(<<Nul>>) = 1 /\ <<Nul>>[1] = Nul
  BY DEF Cell, Char
<1>5. /\ c \in Seq(Cell) /\ Len(c) = s.m_capacity + 1
      /\ \A i \in 1..s.m_capacity + 1 : c[i] = IF i <= n THEN s.m_buffer[i]
                            ELSE IF i <= n + 1 THEN <<Nul>>[i - n] ELSE s.m_buffer[i]
  <2> DEFINE b == s.m_buffer
             w == <<Nul>>
  <2>1. b \in Seq(Cell) /\ w \in Seq(Cell) /\ n \in Nat /\ Len(w) = 1
        /\ Len(b) = s.m_capacity + 1 /\ n <= s.m_capacity /\ s.m_capacity \in Nat
    BY <1>1, <1>2, <1>3, <1>4
  <2> HIDE DEF b, w, n
  <2>2. n + Len(w) <= Len(b)
    BY <2>1
  <2>3. CopyOf(Copied(b, n, w), b, n, w)
    BY <2>1, <2>2, CopiedIs
  <2> QED BY <2>1, <2>3 DEF b, w, CopyOf
<1>6. e = [s EXCEPT !.m_length = n, !.m_buffer = c]
  BY DEF Ended
<1> HIDE DEF c
<1>7. /\ e \in [m_buffer : Seq(Cell), m_length : Nat, m_capacity : Nat]
      /\ e.m_buffer = c /\ e.m_length = n /\ e.m_capacity = s.m_capacity
  BY <1>1, <1>2, <1>5, <1>6
<1> HIDE DEF e
<1>8. \A i \in 1..n : c[i] = t[i]
  BY <1>2, <1>3, <1>5
<1>9. c[n + 1] = Nul
  <2>1. n + 1 \in 1..s.m_capacity + 1 /\ ~(n + 1 <= n) /\ n + 1 - n = 1
    BY <1>2, <1>3
  <2> QED BY <1>4, <1>5, <2>1
<1>10. Roomy(e) /\ Has(e, t) /\ e.m_length = n /\ e.m_buffer[n + 1] = Nul
  BY <1>2, <1>5, <1>7, <1>8, <1>9 DEF Roomy, Has
<1> QED BY <1>10 DEF Holds, e

\* What is copied begins with a text.
Begins(w, v) == /\ w \in Seq(Cell) /\ v \in Seq(Char) /\ Len(v) <= Len(w)
                /\ \A i \in 1..Len(v) : w[i] = v[i]

\* The byte behind a text.
Behind(s, t, c) == s.m_buffer[Len(t) + 1] = c

\* What was copied behind a text is there.
LEMMA WrittenIs ==
    ASSUME NEW s, NEW u, Roomy(s), Has(s, u),
           NEW w, NEW v, Begins(w, v),
           Len(u) + Len(w) <= s.m_capacity + 1, Len(u) + Len(v) <= s.m_capacity
    PROVE  LET r == [s EXCEPT !.m_buffer = Copied(@, Len(u), w)] IN
           /\ Roomy(r) /\ Has(r, u \o v)
           /\ r.m_capacity = s.m_capacity /\ r.m_length = s.m_length
           /\ Len(v) < Len(w) => Behind(r, u \o v, w[Len(v) + 1])
<1> DEFINE b == s.m_buffer
           k == Len(u)
           c == Copied(b, k, w)
           r == [s EXCEPT !.m_buffer = c]
           x == u \o v
<1>1. /\ s \in [m_buffer : Seq(Cell), m_length : Nat, m_capacity : Nat]
      /\ Len(b) = s.m_capacity + 1 /\ b \in Seq(Cell) /\ s.m_capacity \in Nat
  BY DEF Roomy
<1>2. u \in Seq(Char) /\ k \in Nat /\ \A i \in 1..k : b[i] = u[i]
  BY LenProperties DEF Has
<1>3. /\ w \in Seq(Cell) /\ v \in Seq(Char) /\ Len(v) \in Nat /\ Len(w) \in Nat
      /\ Len(v) <= Len(w) /\ \A i \in 1..Len(v) : w[i] = v[i]
  BY LenProperties DEF Begins
<1>4. CopyOf(c, b, k, w)
  <2>1. k + Len(w) <= Len(b)
    BY <1>1
  <2> QED BY <1>1, <1>2, <1>3, <2>1, CopiedIs
<1>5. /\ x \in Seq(Char) /\ Len(x) = k + Len(v)
      /\ \A i \in 1..k + Len(v) : x[i] = IF i <= k THEN u[i] ELSE v[i - k]
  BY <1>2, <1>3, ConcatProperties
<1>6. r \in [m_buffer : Seq(Cell), m_length : Nat, m_capacity : Nat] /\ r.m_buffer = c
      /\ r.m_capacity = s.m_capacity /\ r.m_length = s.m_length /\ Len(c) = s.m_capacity + 1
  <2> HIDE DEF c
  <2> QED BY <1>1, <1>4 DEF CopyOf
<1> HIDE DEF c, r, x
<1>7. \A i \in 1..k + Len(w) : c[i] = IF i <= k THEN b[i] ELSE w[i - k]
  <2> TAKE i \in 1..k + Len(w)
  <2>1. i \in 1..Len(b) /\ i <= k + Len(w)
    BY <1>1, <1>2, <1>3
  <2> HIDE DEF b, k
  <2> QED BY <1>4, <2>1 DEF CopyOf
<1>8. ASSUME NEW i \in 1..Len(x) PROVE c[i] = x[i]
  <2>1. i \in 1..k + Len(v) /\ i \in 1..k + Len(w)
    BY <1>2, <1>3, <1>5
  <2>2. CASE i <= k
    <3>1. i \in 1..k
      BY <2>1, <2>2
    <3> QED BY <1>2, <1>5, <1>7, <2>1, <2>2, <3>1
  <2>3. CASE ~(i <= k)
    <3>1. i - k \in 1..Len(v)
      BY <1>2, <1>3, <2>1, <2>3
    <3> QED BY <1>3, <1>5, <1>7, <2>1, <2>3, <3>1
  <2> QED BY <2>2, <2>3
<1>9. ASSUME Len(v) < Len(w) PROVE c[Len(x) + 1] = w[Len(v) + 1]
  <2>1. Len(x) + 1 \in 1..k + Len(w) /\ ~(Len(x) + 1 <= k) /\ Len(x) + 1 - k = Len(v) + 1
    BY <1>2, <1>3, <1>5, <1>9
  <2> QED BY <1>7, <2>1
<1>10. Roomy(r)
  BY <1>6 DEF Roomy
<1>11. Has(r, x)
  BY <1>5, <1>6, <1>8 DEF Has
<1>12. Len(v) < Len(w) => Behind(r, x, w[Len(v) + 1])
  BY <1>6, <1>9 DEF Behind
<1> QED BY <1>6, <1>10, <1>11, <1>12 DEF r, c, x, b, k

\* Nothing is in front of every string.
LEMMA HasNothing == \A s : Roomy(s) => Has(s, <<>>)
<1>1. <<>> \in Seq(Char) /\ Len(<<>>) = 0 /\ \A i \in 1..0 : FALSE
  OBVIOUS
<1> QED BY <1>1 DEF Has, Roomy

\* Behind a text is a zero; the array in front of it is the text.
LEMMA FrontIs ==
    ASSUME NEW s, NEW t, Holds(s, t), NEW k \in 0..Len(t)
    PROVE  /\ SubSeq(s.m_buffer, 1, k) = SubSeq(t, 1, k)
           /\ SubSeq(s.m_buffer, 1, Len(t) + 1) = Append(t, Nul)
<1> DEFINE b == s.m_buffer
           n == Len(t)
<1>1. /\ b \in Seq(Cell) /\ Len(b) = s.m_capacity + 1 /\ s.m_capacity \in Nat
      /\ t \in Seq(Char) /\ n \in Nat /\ n <= s.m_capacity
      /\ (\A i \in 1..n : b[i] = t[i]) /\ b[n + 1] = Nul
  BY LenProperties DEF Holds, Roomy, Has
<1>2. SubSeq(b, 1, k) = [i \in 1..k |-> b[i]] /\ SubSeq(t, 1, k) = [i \in 1..k |-> t[i]]
  <2>1. k \in Nat /\ k <= Len(b) /\ k <= n
    BY <1>1
  <2> HIDE DEF b, n
  <2>2. /\ SubSeq(b, 1, k) \in Seq(Cell) /\ Len(SubSeq(b, 1, k)) = k
        /\ \A i \in 1..k : SubSeq(b, 1, k)[i] = b[i]
    BY <1>1, <2>1, SubSeqProperties
  <2>3. /\ SubSeq(t, 1, k) \in Seq(Char) /\ Len(SubSeq(t, 1, k)) = k
        /\ \A i \in 1..k : SubSeq(t, 1, k)[i] = t[i]
    BY <1>1, <2>1, SubSeqProperties DEF n
  <2> QED BY <2>2, <2>3
<1>3. \A i \in 1..k : b[i] = t[i]
  BY <1>1
<1>4. /\ SubSeq(b, 1, n + 1) \in Seq(Cell) /\ Len(SubSeq(b, 1, n + 1)) = n + 1
      /\ \A i \in 1..n + 1 : SubSeq(b, 1, n + 1)[i] = b[i]
  <2>1. n + 1 \in Nat /\ n + 1 <= Len(b)
    BY <1>1
  <2> HIDE DEF b, n
  <2> QED BY <1>1, <2>1, SubSeqProperties
<1>5. /\ Append(t, Nul) \in Seq(Char) /\ Len(Append(t, Nul)) = n + 1
      /\ (\A i \in 1..n : Append(t, Nul)[i] = t[i]) /\ Append(t, Nul)[n + 1] = Nul
  BY <1>1, AppendProperties DEF Char
<1>6. \A i \in 1..n + 1 : SubSeq(b, 1, n + 1)[i] = Append(t, Nul)[i]
  <2> TAKE i \in 1..n + 1
  <2>1. i \in 1..n \/ i = n + 1
    BY <1>1
  <2> QED BY <1>1, <1>4, <1>5, <2>1
<1>7. SubSeq(b, 1, n + 1) = Append(t, Nul)
  <2> HIDE DEF b, n
  <2> QED BY <1>4, <1>5, <1>6, SeqEqual
<1> QED BY <1>2, <1>3, <1>7

-----------------------------------------------------------------------------
(* Arrays that are made larger, and what is put into them.                *)

\* A whole number of blocks is more than the length asked for.
LEMMA RealCapacityIs == \A n \in Nat : RealCapacity(n) \in Nat /\ n < RealCapacity(n)
<1> SUFFICES ASSUME NEW n \in Nat PROVE RealCapacity(n) \in Nat /\ n < RealCapacity(n)
  OBVIOUS
<1> DEFINE M == MaxCStrBufferLen
           d == n \div M
           x == n % M
<1>1. M \in Nat /\ M > 0
  BY StringAssumption
<1> HIDE DEF M
<1>2. d \in Nat /\ x \in 0..M - 1 /\ n = M * d + x
  BY <1>1
<1> HIDE DEF d, x
<1>3. (d + 1) * M = M * d + M /\ M * d \in Nat
  BY <1>1, <1>2
<1>4. (d + 1) * M \in Nat /\ n < (d + 1) * M
  BY <1>1, <1>2, <1>3
<1> QED BY <1>4 DEF RealCapacity, d, M

\* A new array.
LEMMA FreshIs == \A n \in Nat : Fresh(n) \in Seq(Cell) /\ Len(Fresh(n)) = n
  BY DEF Fresh, Cell

\* A text copied with its zero is there with its zero.
LEMMA WithZero ==
    ASSUME NEW s, NEW u, Roomy(s), Has(s, u),
           NEW v \in Seq(Char), Len(u) + Len(v) <= s.m_capacity
    PROVE  LET r == [s EXCEPT !.m_buffer = Copied(@, Len(u), Append(v, Nul))] IN
           /\ Roomy(r) /\ Has(r, u \o v) /\ Behind(r, u \o v, Nul)
           /\ r.m_capacity = s.m_capacity /\ r.m_length = s.m_length
<1> DEFINE w == Append(v, Nul)
           r == [s EXCEPT !.m_buffer = Copied(@, Len(u), w)]
<1>1. u \in Seq(Char) /\ Len(u) \in Nat /\ Len(v) \in Nat /\ s.m_capacity \in Nat
  BY LenProperties DEF Has, Roomy
<1>2. /\ w \in Seq(Cell) /\ Len(w) = Len(v) + 1
      /\ (\A i \in 1..Len(v) : w[i] = v[i]) /\ w[Len(v) + 1] = Nul
  BY <1>1, AppendProperties DEF Char, Cell
<1> HIDE DEF w
<1>3. Begins(w, v)
  BY <1>1, <1>2 DEF Begins
<1>4. Len(u) + Len(w) <= s.m_capacity + 1 /\ Len(v) < Len(w)
  BY <1>1, <1>2
<1>5. /\ Roomy(r) /\ Has(r, u \o v) /\ r.m_capacity = s.m_capacity /\ r.m_length = s.m_length
      /\ Len(v) < Len(w) => Behind(r, u \o v, w[Len(v) + 1])
  BY <1>3, <1>4, WrittenIs
<1> HIDE DEF r
<1>6. Behind(r, u \o v, Nul)
  BY <1>2, <1>4, <1>5
<1> QED BY <1>5, <1>6 DEF r, w

\* The same at the front of an array.
LEMMA AtFront ==
    ASSUME NEW s, Roomy(s), NEW v \in Seq(Char), Len(v) <= s.m_capacity
    PROVE  LET r == [s EXCEPT !.m_buffer = Copied(@, 0, Append(v, Nul))] IN
           /\ Roomy(r) /\ Has(r, v) /\ Behind(r, v, Nul)
           /\ r.m_capacity = s.m_capacity /\ r.m_length = s.m_length
<1> DEFINE none == <<>>
           r == [s EXCEPT !.m_buffer = Copied(@, 0, Append(v, Nul))]
           q == [s EXCEPT !.m_buffer = Copied(@, Len(none), Append(v, Nul))]
<1>1. none \o v = v /\ Len(none) = 0 /\ Len(v) \in Nat
  BY LenProperties
<1>2. Has(s, none)
  BY HasNothing
<1>3. q = r
  BY <1>1
<1> HIDE DEF none
<1>4. Len(none) + Len(v) <= s.m_capacity
  BY <1>1
<1>5. /\ Roomy(q) /\ Has(q, none \o v) /\ Behind(q, none \o v, Nul)
      /\ q.m_capacity = s.m_capacity /\ q.m_length = s.m_length
  BY <1>2, <1>4, WithZero
<1> HIDE DEF q, r
<1> QED BY <1>1, <1>3, <1>5 DEF r

\* A string made larger holds what it held, with room for what was asked for.
LEMMA ResizeIs ==
    ASSUME NEW s, NEW t, Holds(s, t), NEW n \in Nat
    PROVE  /\ Holds(Resize(s, n), t) /\ n <= Resize(s, n).m_capacity
           /\ s.m_capacity <= Resize(s, n).m_capacity
<1>1. /\ s \in [m_buffer : Seq(Cell), m_length : Nat, m_capacity : Nat]
      /\ Len(s.m_buffer) = s.m_capacity + 1 /\ s.m_capacity \in Nat /\ s.m_length = Len(t)
      /\ t \in Seq(Char) /\ Len(t) \in Nat /\ Len(t) <= s.m_capacity
  BY LenProperties DEF Holds, Roomy, Has
<1>2. CASE n <= s.m_capacity
  BY <1>1, <1>2 DEF Resize
<1>3. CASE ~(n <= s.m_capacity)
  <2> DEFINE m == RealCapacity(n)
             a == Fresh(m)
             f == [s EXCEPT !.m_buffer = a, !.m_capacity = m - 1]
             r == [f EXCEPT !.m_buffer = Copied(@, 0, Append(t, Nul))]
  <2>1. m \in Nat /\ n < m
    BY RealCapacityIs
  <2>2. SubSeq(s.m_buffer, 1, s.m_length + 1) = Append(t, Nul)
    BY <1>1, FrontIs
  <2>3. a \in Seq(Cell) /\ Len(a) = m
    BY <2>1, FreshIs
  <2>4. Resize(s, n) = [s EXCEPT !.m_buffer = Copied(a, 0, Append(t, Nul)),
                                   !.m_capacity = m - 1]
    BY <1>3, <2>2 DEF Resize
  <2> HIDE DEF m, a
  <2>5. m - 1 \in Nat /\ Len(t) <= m - 1 /\ s.m_capacity <= m - 1 /\ n <= m - 1
    BY <1>1, <1>3, <2>1
  <2>6. /\ f \in [m_buffer : Seq(Cell), m_length : Nat, m_capacity : Nat]
        /\ f.m_length = Len(t) /\ f.m_capacity = m - 1 /\ f.m_buffer = a
    BY <1>1, <2>3, <2>5
  <2>7. Resize(s, n) = r
    BY <1>1, <2>4
  <2> HIDE DEF f
  <2>8. Roomy(f)
    BY <2>1, <2>3, <2>6 DEF Roomy
  <2>9. /\ Roomy(r) /\ Has(r, t) /\ Behind(r, t, Nul)
        /\ r.m_capacity = f.m_capacity /\ r.m_length = f.m_length
    BY <1>1, <2>5, <2>6, <2>8, AtFront
  <2> HIDE DEF r
  <2>10. Holds(r, t)
    BY <2>6, <2>9 DEF Holds, Behind
  <2> QED BY <2>5, <2>6, <2>7, <2>9, <2>10
<1> QED BY <1>2, <1>3

\* What is put behind a text is behind it, with a zero at the end.
LEMMA PutBehind ==
    ASSUME NEW s, NEW u, Roomy(s), Has(s, u),
           NEW v \in Seq(Char), Len(u) + Len(v) <= s.m_capacity
    PROVE  Holds(Ended([s EXCEPT !.m_buffer = Copied(@, Len(u), v)], Len(u) + Len(v)),
                 u \o v)
<1> DEFINE r == [s EXCEPT !.m_buffer = Copied(@, Len(u), v)]
<1>1. u \in Seq(Char) /\ Len(u) \in Nat /\ Len(v) \in Nat /\ s.m_capacity \in Nat
  BY LenProperties DEF Has, Roomy
<1>2. Begins(v, v)
  BY <1>1 DEF Begins, Cell
<1>3. Len(u) + Len(v) <= s.m_capacity + 1 /\ Len(v) <= Len(v)
  BY <1>1
<1>4. Roomy(r) /\ Has(r, u \o v)
  BY <1>2, <1>3, WrittenIs
<1>5. Len(u \o v) = Len(u) + Len(v)
  BY <1>1, ConcatProperties
<1> HIDE DEF r
<1>6. Holds(Ended(r, Len(u \o v)), u \o v)
  BY <1>4, EndedIs
<1> QED BY <1>5, <1>6 DEF r

\* nCat.
LEMMA NCatIs ==
    ASSUME NEW s, NEW t, Holds(s, t), NEW v \in Seq(Char)
    PROVE  Holds(NCat(s, v), t \o v)
<1> DEFINE n == s.m_length + Len(v)
           r == Resize(s, n)
<1>1. s.m_length = Len(t) /\ t \in Seq(Char) /\ Len(t) \in Nat /\ Len(v) \in Nat
  BY LenProperties DEF Holds, Has
<1>2. n \in Nat /\ n = Len(t) + Len(v)
  BY <1>1
<1> HIDE DEF n
<1>3. Holds(r, t) /\ n <= r.m_capacity
  BY <1>2, ResizeIs
<1> HIDE DEF r
<1>6. Roomy(r) /\ Has(r, t) /\ Len(t) + Len(v) <= r.m_capacity
  BY <1>2, <1>3 DEF Holds
<1>4. Holds(Ended([r EXCEPT !.m_buffer = Copied(@, Len(t), v)], Len(t) + Len(v)), t \o v)
  BY <1>6, PutBehind
<1> QED BY <1>1, <1>4 DEF NCat, r, n

\* set.
LEMMA SetIs ==
    ASSUME NEW s, NEW t, Holds(s, t), NEW v \in Seq(Char)
    PROVE  Holds(Set(s, v), v)
<1> DEFINE r == Resize(s, Len(v))
<1>1. Len(v) \in Nat /\ Len(<<>>) = 0 /\ <<>> \o v = v
  BY LenProperties
<1>2. Holds(r, t) /\ Len(v) <= r.m_capacity
  BY <1>1, ResizeIs
<1> HIDE DEF r
<1>3. Roomy(r) /\ Has(r, <<>>) /\ Len(<<>>) + Len(v) <= r.m_capacity
  BY <1>1, <1>2, HasNothing DEF Holds
<1>4. Holds(Ended([r EXCEPT !.m_buffer = Copied(@, Len(<<>>), v)], Len(<<>>) + Len(v)), <<>> \o v)
  BY <1>3, PutBehind
<1> QED BY <1>1, <1>4 DEF Set, r

-----------------------------------------------------------------------------
(* Assignment, appending, cutting, overwriting.                           *)

\* What holding a text means for its fields.
LEMMA HoldsFacts ==
    ASSUME NEW s, NEW t, Holds(s, t)
    PROVE  /\ s \in [m_buffer : Seq(Cell), m_length : Nat, m_capacity : Nat]
           /\ Len(s.m_buffer) = s.m_capacity + 1 /\ s.m_capacity \in Nat
           /\ s.m_buffer \in Seq(Cell)
           /\ s.m_length = Len(t) /\ t \in Seq(Char) /\ Len(t) \in Nat /\ Len(t) <= s.m_capacity
           /\ (\A i \in 1..Len(t) : s.m_buffer[i] = t[i]) /\ s.m_buffer[Len(t) + 1] = Nul
  BY LenProperties DEF Holds, Roomy, Has

\* Assignment.
LEMMA AssignStringIs ==
    ASSUME NEW s, NEW t, Holds(s, t), NEW from, NEW u, Holds(from, u)
    PROVE  Holds(AssignString(s, from), u)
<1> DEFINE r == Resize(s, Len(u))
           q == [r EXCEPT !.m_buffer = Copied(@, 0, Append(u, Nul))]
           a == [q EXCEPT !.m_length = Len(u)]
<1>1. from.m_length = Len(u) /\ u \in Seq(Char) /\ Len(u) \in Nat
  BY HoldsFacts
<1>2. Len(u) \in 0..Len(u)
  BY <1>1
<1>3. SubSeq(from.m_buffer, 1, from.m_length + 1) = Append(u, Nul)
  BY <1>1, <1>2, FrontIs
<1>4. Holds(r, t) /\ Len(u) <= r.m_capacity
  BY <1>1, ResizeIs
<1>5. AssignString(s, from) = [r EXCEPT !.m_length = Len(u),
                                       !.m_buffer = Copied(@, 0, Append(u, Nul))]
  BY <1>1, <1>3 DEF AssignString
<1> HIDE DEF r
<1>6. /\ r \in [m_buffer : Seq(Cell), m_length : Nat, m_capacity : Nat] /\ Roomy(r)
  BY <1>4, HoldsFacts DEF Holds
<1>7. AssignString(s, from) = a
  BY <1>5, <1>6
<1>8. /\ Roomy(q) /\ Has(q, u) /\ Behind(q, u, Nul)
  BY <1>1, <1>4, <1>6, AtFront
<1> HIDE DEF q
<1>9. /\ a \in [m_buffer : Seq(Cell), m_length : Nat, m_capacity : Nat]
      /\ a.m_buffer = q.m_buffer /\ a.m_capacity = q.m_capacity /\ a.m_length = Len(u)
  BY <1>1, <1>8 DEF Roomy
<1> HIDE DEF a
<1>10. Holds(a, u)
  BY <1>8, <1>9 DEF Holds, Roomy, Has, Behind
<1> QED BY <1>7, <1>10

\* Appending a string, be it another or the same.
LEMMA AppendStringIs ==
    ASSUME NEW s, NEW t, Holds(s, t), NEW from, NEW u, Holds(from, u)
    PROVE  Holds(AppendString(s, from), t \o u)
<1> DEFINE n == s.m_length + from.m_length
           r == Resize(s, n)
           q == [r EXCEPT !.m_buffer = Copied(@, Len(t), Append(u, Nul))]
<1>1. /\ from.m_length = Len(u) /\ u \in Seq(Char) /\ Len(u) \in Nat
      /\ s.m_length = Len(t) /\ t \in Seq(Char) /\ Len(t) \in Nat
  BY HoldsFacts
<1>2. n \in Nat /\ n = Len(t) + Len(u) /\ Len(u) \in 0..Len(u)
  BY <1>1
<1>3. SubSeq(from.m_buffer, 1, from.m_length + 1) = Append(u, Nul)
  BY <1>1, <1>2, FrontIs
<1>4. AppendString(s, from) = Ended(q, n)
  BY <1>1, <1>3 DEF AppendString
<1> HIDE DEF n
<1>5. Holds(r, t) /\ n <= r.m_capacity
  BY <1>2, ResizeIs
<1> HIDE DEF r
<1>6. Roomy(r) /\ Has(r, t) /\ Len(t) + Len(u) <= r.m_capacity
  BY <1>2, <1>5 DEF Holds
<1>7. Roomy(q) /\ Has(q, t \o u)
  BY <1>1, <1>6, WithZero
<1>8. Len(t \o u) = n
  BY <1>1, <1>2, ConcatProperties
<1> HIDE DEF q
<1>9. Holds(Ended(q, Len(t \o u)), t \o u)
  BY <1>7, EndedIs
<1> QED BY <1>4, <1>8, <1>9

\* The text of an array cut off at k.
LEMMA CutFrontIs ==
    ASSUME NEW s, NEW t, Roomy(s), Has(s, t), NEW k \in 0..Len(t)
    PROVE  Holds(Ended(s, k), SubSeq(t, 1, k)) /\ SubSeq(t, 1, k) \in Seq(Char)
<1> DEFINE u == SubSeq(t, 1, k)
<1>1. /\ t \in Seq(Char) /\ Len(t) \in Nat /\ Len(t) <= s.m_capacity /\ s.m_capacity \in Nat
      /\ \A i \in 1..Len(t) : s.m_buffer[i] = t[i]
  BY LenProperties DEF Roomy, Has
<1>2. u \in Seq(Char) /\ Len(u) = k /\ \A i \in 1..k : u[i] = t[i]
  BY <1>1, SubSeqProperties
<1> HIDE DEF u
<1>3. Has(s, u)
  <2>1. \A i \in 1..k : i \in 1..Len(t)
    BY <1>1
  <2> QED BY <1>1, <1>2, <2>1 DEF Has
<1>4. Holds(Ended(s, Len(u)), u)
  BY <1>3, EndedIs
<1> QED BY <1>2, <1>4 DEF u

\* A string cut off at k.
LEMMA CutTextIs ==
    ASSUME NEW s, NEW t, Holds(s, t), NEW k \in 0..Len(t)
    PROVE  Holds(Ended(s, k), SubSeq(t, 1, k)) /\ SubSeq(t, 1, k) \in Seq(Char)
  BY CutFrontIs DEF Holds

\* cut(length).
LEMMA CutAtIs ==
    ASSUME NEW s, NEW t, Holds(s, t), NEW n \in Int
    PROVE  Holds(CutAt(s, n), IF n \notin -Len(t)..Len(t) THEN t
                              ELSE SubSeq(t, 1, IF n < 0 THEN Len(t) + n ELSE n))
<1>1. s.m_length = Len(t) /\ t \in Seq(Char) /\ Len(t) \in Nat
  BY HoldsFacts
<1>2. CASE n \notin -Len(t)..Len(t)
  BY <1>1, <1>2 DEF CutAt
<1>3. CASE n = Len(t)
  <2>1. SubSeq(t, 1, Len(t)) = t
    BY <1>1
  <2>2. CutAt(s, n) = s /\ n \in -Len(t)..Len(t) /\ ~(n < 0)
    BY <1>1, <1>3 DEF CutAt
  <2> QED BY <1>3, <2>1, <2>2
<1>4. CASE n \in -Len(t)..Len(t) /\ n # Len(t)
  <2> DEFINE k == IF n < 0 THEN Len(t) + n ELSE n
  <2>1. k \in 0..Len(t) /\ CutAt(s, n) = Ended(s, k)
    BY <1>1, <1>4 DEF CutAt
  <2> HIDE DEF k
  <2>2. Holds(Ended(s, k), SubSeq(t, 1, k))
    BY <2>1, CutTextIs
  <2> QED BY <1>4, <2>1, <2>2 DEF k
<1> QED BY <1>2, <1>3, <1>4

\* setByte, at a place counted from either end.
LEMMA SetByteIs ==
    ASSUME NEW s, NEW t, Holds(s, t), NEW c \in Char, NEW n \in 1..Len(t),
           NEW pos \in {n - 1, n - 1 - Len(t)}
    PROVE  Holds(SetByte(s, c, pos), [t EXCEPT ![n] = c])
<1> DEFINE b == s.m_buffer
           one == <<c>>
           d == Copied(b, n - 1, one)
           r == [s EXCEPT !.m_buffer = d]
           u == [t EXCEPT ![n] = c]
<1>1. /\ s \in [m_buffer : Seq(Cell), m_length : Nat, m_capacity : Nat]
      /\ Len(b) = s.m_capacity + 1 /\ s.m_capacity \in Nat /\ b \in Seq(Cell)
      /\ s.m_length = Len(t) /\ t \in Seq(Char) /\ Len(t) \in Nat /\ Len(t) <= s.m_capacity
      /\ (\A i \in 1..Len(t) : b[i] = t[i]) /\ b[Len(t) + 1] = Nul
  BY HoldsFacts
<1>2. SetByte(s, c, pos) = r
  <2>1. /\ ~(pos >= s.m_length \/ pos < -s.m_length)
        /\ (IF pos >= 0 THEN pos ELSE s.m_length + pos) = n - 1
    BY <1>1
  <2> QED BY <2>1 DEF SetByte
<1>3. one \in Seq(Cell) /\ Len(one) = 1 /\ one[1] = c
  BY DEF Cell
<1>4. n - 1 \in Nat /\ n - 1 + 1 = n /\ n \in Nat /\ n <= Len(t) /\ n >= 1
  BY <1>1
<1> HIDE DEF b, one
<1>5. CopyOf(d, b, n - 1, one)
  <2>1. n - 1 + Len(one) <= Len(b)
    BY <1>1, <1>3, <1>4
  <2> QED BY <1>1, <1>3, <1>4, <2>1, CopiedIs
<1> HIDE DEF d
<1>6. /\ d \in Seq(Cell) /\ Len(d) = Len(b)
      /\ \A i \in 1..Len(b) : d[i] = IF i = n THEN c ELSE b[i]
  <2>1. ASSUME NEW i \in 1..Len(b) PROVE d[i] = IF i = n THEN c ELSE b[i]
    <3>1. i = n => i - (n - 1) = 1 /\ ~(i <= n - 1) /\ i <= n - 1 + Len(one)
      BY <1>3, <1>4
    <3>2. i # n => i <= n - 1 \/ ~(i <= n - 1 + Len(one))
      BY <1>1, <1>3, <1>4
    <3> QED BY <1>3, <1>5, <3>1, <3>2 DEF CopyOf
  <2> QED BY <1>5, <2>1 DEF CopyOf
<1>7. /\ r \in [m_buffer : Seq(Cell), m_length : Nat, m_capacity : Nat]
      /\ r.m_buffer = d /\ r.m_length = Len(t) /\ r.m_capacity = s.m_capacity
  BY <1>1, <1>6 DEF b
<1>8. /\ u \in Seq(Char) /\ Len(u) = Len(t)
      /\ \A i \in 1..Len(t) : u[i] = IF i = n THEN c ELSE t[i]
  BY <1>1, ExceptSeq
<1> HIDE DEF r, u
<1>9. \A i \in 1..Len(t) : d[i] = u[i]
  <2>1. \A i \in 1..Len(t) : i \in 1..Len(b)
    BY <1>1
  <2> QED BY <1>1, <1>6, <1>8, <2>1
<1>10. d[Len(t) + 1] = Nul
  <2>1. Len(t) + 1 \in 1..Len(b) /\ Len(t) + 1 # n
    BY <1>1, <1>4
  <2> QED BY <1>1, <1>6, <2>1
<1>11. Holds(r, u)
  BY <1>1, <1>6, <1>7, <1>8, <1>9, <1>10 DEF Holds, Roomy, Has
<1> QED BY <1>2, <1>11 DEF u

-----------------------------------------------------------------------------
(* Constructors, steal, encode, and what strlen sees.                     *)

\* The least of a set of numbers.
LEMMA LeastIs ==
    ASSUME NEW S \in SUBSET Int, NEW x \in S, \A y \in S : x <= y
    PROVE  Min(S) = x
<1> DEFINE m == Min(S)
<1>1. m \in S /\ \A y \in S : m <= y
  BY DEF Min
<1> HIDE DEF m
<1>2. m \in Int /\ x \in Int /\ m <= x /\ x <= m
  BY <1>1
<1>3. m = x
  BY <1>2
<1> QED BY <1>3 DEF m

\* The greatest of a set of numbers.
LEMMA GreatestIs ==
    ASSUME NEW S \in SUBSET Int, NEW x \in S, \A y \in S : x >= y
    PROVE  Max(S) = x
<1> DEFINE m == Max(S)
<1>1. m \in S /\ \A y \in S : m >= y
  BY DEF Max
<1> HIDE DEF m
<1>2. m \in Int /\ x \in Int /\ m >= x /\ x >= m
  BY <1>1
<1>3. m = x
  BY <1>2
<1> QED BY <1>3 DEF m

\* A new string has what it was made from.
LEMMA NewStringIs == \A cs \in Seq(Char) : Holds(NewString(cs), cs)
<1> SUFFICES ASSUME NEW cs \in Seq(Char) PROVE Holds(NewString(cs), cs)
  OBVIOUS
<1> DEFINE n == Len(cs)
           cap == IF n > MaxCStrBufferLen - 1 THEN n ELSE MaxCStrBufferLen - 1
           a == Fresh(cap + 1)
           f == [m_buffer |-> a, m_length |-> n, m_capacity |-> cap]
           r == [f EXCEPT !.m_buffer = Copied(@, 0, Append(cs, Nul))]
<1>1. n \in Nat /\ cap \in Nat /\ n <= cap
  BY StringAssumption, LenProperties
<1>2. a \in Seq(Cell) /\ Len(a) = cap + 1
  <2>1. cap + 1 \in Nat
    BY <1>1
  <2> HIDE DEF cap
  <2> QED BY <2>1, FreshIs
<1>3. NewString(cs) = [m_buffer |-> Copied(a, 0, Append(cs, Nul)), m_length |-> n,
                          m_capacity |-> cap]
  BY DEF NewString
<1> HIDE DEF cap, a, n
<1>4. NewString(cs) = r
  BY <1>3
<1>5. Roomy(f) /\ f.m_length = n /\ f.m_capacity = cap
  BY <1>1, <1>2 DEF Roomy
<1> HIDE DEF f
<1>6. Roomy(r) /\ Has(r, cs) /\ Behind(r, cs, Nul) /\ r.m_length = f.m_length
  BY <1>1, <1>5, AtFront DEF n
<1> HIDE DEF r
<1>7. Holds(r, cs)
  BY <1>5, <1>6 DEF Holds, Behind, n
<1> QED BY <1>4, <1>7

\* The empty string.
LEMMA EmptyIs == Holds(Empty, <<>>)
<1>1. Append(<<>>, Nul) = <<Nul>> /\ <<>> \in Seq(Char) /\ Len(<<>>) = 0
  OBVIOUS
<1>2. ~(0 > MaxCStrBufferLen - 1) /\ MaxCStrBufferLen - 1 + 1 = MaxCStrBufferLen
  BY StringAssumption
<1>3. NewString(<<>>) = Empty
  BY <1>1, <1>2 DEF NewString, Empty
<1> QED BY <1>1, <1>3, NewStringIs

\* steal: what is given away is the text, and nothing is left.
LEMMA StealIs ==
    ASSUME NEW s, NEW t, Holds(s, t)
    PROVE  Stolen(s) = t /\ Holds(Steal(s), <<>>)
<1>1. s.m_length = Len(t) /\ t \in Seq(Char) /\ Len(t) \in Nat
  BY HoldsFacts
<1>2. Len(t) \in 0..Len(t) /\ 0 \in 0..Len(t)
  BY <1>1
<1>3. Stolen(s) = t
  <2>1. SubSeq(s.m_buffer, 1, Len(t)) = SubSeq(t, 1, Len(t))
    BY <1>2, FrontIs
  <2>2. SubSeq(t, 1, Len(t)) = t
    BY <1>1
  <2> QED BY <1>1, <2>1, <2>2 DEF Stolen
<1>4. Holds(Ended(s, 0), <<>>)
  <2>1. SubSeq(t, 1, 0) = <<>>
    BY <1>1
  <2>2. Holds(Ended(s, 0), SubSeq(t, 1, 0))
    BY <1>2, CutTextIs
  <2> QED BY <2>1, <2>2
<1> QED BY <1>3, <1>4, EmptyIs DEF Steal

\* encode: the text, or what of it the length can say.
LEMMA EncodeIs ==
    ASSUME NEW s, NEW t, Holds(s, t), NEW short \in BOOLEAN
    PROVE  \E n \in 0..Len(t) :
              /\ Encode(s, short) = [length |-> n, bytes |-> SubSeq(t, 1, n)]
              /\ n = IF short THEN Min({ShortMax, Len(t)}) ELSE Len(t)
<1> DEFINE n == IF short /\ s.m_length > ShortMax THEN ShortMax ELSE s.m_length
<1>1. s.m_length = Len(t) /\ t \in Seq(Char) /\ Len(t) \in Nat
  BY HoldsFacts
<1>2. n \in 0..Len(t)
  BY <1>1, StringAssumption
<1>3. short => Min({ShortMax, Len(t)}) = n
  <2>1. n \in {ShortMax, Len(t)} /\ \A y \in {ShortMax, Len(t)} : short => n <= y
    BY <1>1, StringAssumption
  <2>2. {ShortMax, Len(t)} \in SUBSET Int
    BY <1>1, StringAssumption
  <2> HIDE DEF n
  <2> QED BY <2>1, <2>2, LeastIs
<1>4. ~short => n = Len(t)
  BY <1>1
<1>5. Encode(s, short) = [length |-> n, bytes |-> SubSeq(s.m_buffer, 1, n)]
  BY DEF Encode
<1> HIDE DEF n
<1>6. SubSeq(s.m_buffer, 1, n) = SubSeq(t, 1, n)
  BY <1>2, FrontIs
<1> QED BY <1>2, <1>3, <1>4, <1>5, <1>6

\* What CStrShort makes of a text is a text: as many bytes as its length says.
LEMMA MisreadIs ==
    ASSUME NEW t \in Seq(Char), NEW n, n = Min({ShortMax, Len(t)})
    PROVE  /\ n \in Nat /\ n <= ShortMax
           /\ Misread(t) \in Seq(Char) /\ Len(Misread(t)) = n
           /\ \A i \in 1..n : Misread(t)[i] = IF i = 1 THEN LengthByte[n] ELSE t[i - 1]
<1>1. Len(t) \in Nat /\ ShortMax \in Nat
  BY LenProperties, StringAssumption
<1>2. PICK m \in {ShortMax, Len(t)} : m \in Nat /\ m <= ShortMax /\ m <= Len(t)
  <2>1. CASE ShortMax <= Len(t)
    BY <1>1, <2>1
  <2>2. CASE ~(ShortMax <= Len(t))
    BY <1>1, <2>2
  <2> QED BY <2>1, <2>2
<1>3. n = m /\ n \in Nat
  <2>1. {ShortMax, Len(t)} \in SUBSET Int /\ \A y \in {ShortMax, Len(t)} : m <= y
    BY <1>1, <1>2
  <2>2. n = m
    BY <2>1, LeastIs
  <2> QED BY <1>2, <2>2
<1> DEFINE u == [i \in 1..n |-> IF i = 1 THEN LengthByte[n] ELSE t[i - 1]]
<1>4. Misread(t) = u
  BY DEF Misread
<1>5. \A i \in 1..n : u[i] \in Char
  <2>1. LengthByte[n] \in Char
    BY <1>1, <1>2, <1>3, StringAssumption
  <2>2. ASSUME NEW i \in 1..n, i # 1 PROVE t[i - 1] \in Char
    <3>1. i - 1 \in 1..Len(t)
      BY <1>1, <1>2, <1>3, <2>2
    <3> QED BY <3>1, ElementOfSeq
  <2> QED BY <2>1, <2>2
<1>6. u \in Seq(Char) /\ Len(u) = n
  <2>1. u \in [1..n -> Char]
    BY <1>5
  <2> HIDE DEF u
  <2>2. u \in Seq(Char)
    BY <1>3, <2>1, SeqDef
  <2>3. DOMAIN u = 1..n /\ DOMAIN u = 1..Len(u) /\ Len(u) \in Nat
    BY <2>1, <2>2, LenProperties
  <2> QED BY <1>3, <2>2, <2>3
<1> QED BY <1>2, <1>3, <1>4, <1>6

\* The front of a text.
LEMMA TextFrontIs ==
    ASSUME NEW t \in Seq(Char), NEW n \in Nat, n <= Len(t)
    PROVE  /\ SubSeq(t, 1, n) \in Seq(Char) /\ Len(SubSeq(t, 1, n)) = n
           /\ \A i \in 1..n : SubSeq(t, 1, n)[i] = t[i]
<1>1. Len(t) \in Nat
  BY LenProperties
<1>2. \A i \in 1..n : t[i] \in Char
  BY <1>1, ElementOfSeq
<1>3. /\ SubSeq(t, 1, n) \in Seq(Char)
      /\ Len(SubSeq(t, 1, n)) = IF 1 <= n THEN n - 1 + 1 ELSE 0
      /\ \A i \in 1..n - 1 + 1 : SubSeq(t, 1, n)[i] = t[1 + i - 1]
  BY <1>2, SubSeqProperties
<1>4. (IF 1 <= n THEN n - 1 + 1 ELSE 0) = n /\ 1..n - 1 + 1 = 1..n
  OBVIOUS
<1>5. \A i \in 1..n : 1 + i - 1 = i
  OBVIOUS
<1> QED BY <1>3, <1>4, <1>5

\* decode: the text that was encoded, in CStrShort what it makes of it.
LEMMA DecodedIs ==
    ASSUME NEW s, NEW t, Holds(s, t), NEW short \in BOOLEAN
    PROVE  LET u == IF short THEN Misread(t) ELSE t IN
           Decoded(Encode(s, short), short) = u /\ u \in Seq(Char)
<1>1. t \in Seq(Char) /\ Len(t) \in Nat
  BY HoldsFacts
<1>2. PICK n \in 0..Len(t) :
         /\ Encode(s, short) = [length |-> n, bytes |-> SubSeq(t, 1, n)]
         /\ n = IF short THEN Min({ShortMax, Len(t)}) ELSE Len(t)
  BY EncodeIs
<1>3. CASE ~short
  <2>1. SubSeq(t, 1, n) = t
    BY <1>1, <1>2, <1>3, SubSeqFull
  <2> QED BY <1>1, <1>2, <1>3, <2>1 DEF Decoded
<1>4. CASE short
  <2> DEFINE b == SubSeq(t, 1, n)
             first == <<LengthByte[n]>>
             w == first \o b
  <2>1. /\ n <= ShortMax /\ n \in Nat
        /\ Misread(t) \in Seq(Char) /\ Len(Misread(t)) = n
        /\ \A i \in 1..n : Misread(t)[i] = IF i = 1 THEN LengthByte[n] ELSE t[i - 1]
    BY <1>1, <1>2, <1>4, MisreadIs
  <2>2. Decoded(Encode(s, short), short) = SubSeq(w, 1, n)
    <3> DEFINE e == Encode(s, short)
    <3>1. e = [length |-> n, bytes |-> b]
      BY <1>2
    <3> HIDE DEF e, b
    <3>2. e.length = n /\ e.bytes = b
      BY <3>1
    <3>3. Decoded(e, short) = SubSeq(<<LengthByte[e.length]>> \o e.bytes, 1, e.length)
      BY <1>4, Zenon DEF Decoded
    <3> QED BY <3>2, <3>3 DEF e
  <2>3. b \in Seq(Char) /\ Len(b) = n /\ \A i \in 1..n : b[i] = t[i]
    <3>1. n <= Len(t)
      BY <1>1, <1>2
    <3> QED BY <1>1, <2>1, <3>1, TextFrontIs
  <2>4. first \in Seq(Char) /\ Len(first) = 1 /\ first[1] = LengthByte[n]
    <3>1. LengthByte[n] \in Char
      BY <2>1, StringAssumption
    <3> QED BY <3>1
  <2> HIDE DEF b, first
  <2>5. /\ w \in Seq(Char) /\ Len(w) = 1 + n
        /\ \A i \in 1..1 + n : w[i] = IF i <= 1 THEN first[i] ELSE b[i - 1]
    <3>1. /\ w \in Seq(Char) /\ Len(w) = Len(first) + Len(b)
          /\ \A i \in 1..Len(first) + Len(b) :
                w[i] = IF i <= Len(first) THEN first[i] ELSE b[i - Len(first)]
      BY <2>3, <2>4, ConcatProperties
    <3> HIDE DEF w
    <3> QED BY <2>3, <2>4, <3>1
  <2> HIDE DEF w
  <2>6. /\ SubSeq(w, 1, n) \in Seq(Char) /\ Len(SubSeq(w, 1, n)) = n
        /\ \A i \in 1..n : SubSeq(w, 1, n)[i] = w[i]
    <3>1. n <= Len(w)
      BY <2>1, <2>5
    <3> QED BY <2>1, <2>5, <3>1, TextFrontIs
  <2>7. ASSUME NEW i \in 1..n PROVE SubSeq(w, 1, n)[i] = Misread(t)[i]
    <3>1. CASE i = 1
      BY <2>1, <2>4, <2>5, <2>6, <3>1
    <3>2. CASE i # 1
      <4>1. i - 1 \in 1..n /\ i \in 1..1 + n /\ ~(i <= 1)
        BY <2>1, <3>2
      <4> QED BY <2>1, <2>3, <2>5, <2>6, <3>2, <4>1
    <3> QED BY <3>1, <3>2
  <2>8. SubSeq(w, 1, n) = Misread(t)
    BY <2>1, <2>6, <2>7, SeqEqual
  <2> QED BY <1>4, <2>1, <2>2, <2>8
<1> QED BY <1>3, <1>4

\* What is decoded, for every string: CStr gives back what it encoded, but CStrShort
\* (comtypedef_vchar.C:2673) only a string without bytes.  Of any other, the byte of the
\* length comes first, each byte of the text stands one place further back, and the
\* last that was encoded is missing.
THEOREM DecodeOfShortShifts ==
    ASSUME NEW s, NEW t, Holds(s, t)
    PROVE  /\ Decoded(Encode(s, FALSE), FALSE) = t
           /\ LET e == Encode(s, TRUE)
                  u == Decoded(e, TRUE)
              IN /\ Len(u) = Len(e.bytes)
                 /\ \A i \in 1..Len(u) : u[i] = IF i = 1 THEN LengthByte[e.length]
                                                ELSE e.bytes[i - 1]
<1>1. Decoded(Encode(s, FALSE), FALSE) = t
  BY DecodedIs
<1> DEFINE e == Encode(s, TRUE)
           u == Decoded(e, TRUE)
<1>2. t \in Seq(Char) /\ Len(t) \in Nat
  BY HoldsFacts
<1>3. PICK n \in 0..Len(t) : /\ e = [length |-> n, bytes |-> SubSeq(t, 1, n)]
                             /\ n = Min({ShortMax, Len(t)})
  BY EncodeIs
<1>4. u = Misread(t)
  BY DecodedIs
<1>5. /\ Len(Misread(t)) = n
      /\ \A i \in 1..n : Misread(t)[i] = IF i = 1 THEN LengthByte[n] ELSE t[i - 1]
  BY <1>2, <1>3, MisreadIs
<1> HIDE DEF e, u
<1>6. e.length = n /\ e.bytes = SubSeq(t, 1, n)
  BY <1>3
<1>7. Len(SubSeq(t, 1, n)) = n /\ \A i \in 1..n : SubSeq(t, 1, n)[i] = t[i]
  <2>1. n \in Nat /\ n <= Len(t)
    BY <1>2, <1>3
  <2> QED BY <1>2, <2>1, TextFrontIs
<1>8. ASSUME NEW i \in 1..n, i # 1 PROVE SubSeq(t, 1, n)[i - 1] = t[i - 1]
  <2>1. i - 1 \in 1..n
    BY <1>2, <1>8
  <2> QED BY <1>7, <2>1
<1>9. /\ Len(u) = Len(e.bytes)
      /\ \A i \in 1..Len(u) : u[i] = IF i = 1 THEN LengthByte[e.length] ELSE e.bytes[i - 1]
  BY <1>4, <1>5, <1>6, <1>7, <1>8
<1> QED BY <1>1, <1>9 DEF e, u

\* The first zero byte of a text without any is the one behind it.
LEMMA CStringIs ==
    ASSUME NEW s, NEW t, Holds(s, t), Nul \notin ToSet(t)
    PROVE  CString(s) = t
<1> DEFINE b == s.m_buffer
           zeros == {i \in DOMAIN b : b[i] = Nul}
           n == Len(t)
<1>1. /\ b \in Seq(Cell) /\ Len(b) = s.m_capacity + 1 /\ s.m_capacity \in Nat
      /\ t \in Seq(Char) /\ n \in Nat /\ n <= s.m_capacity
      /\ (\A i \in 1..n : b[i] = t[i]) /\ b[n + 1] = Nul
  BY HoldsFacts
<1>2. n + 1 \in zeros
  BY <1>1
<1>3. \A i \in zeros : n + 1 <= i
  <2> SUFFICES ASSUME NEW i \in zeros, ~(n + 1 <= i) PROVE FALSE
    OBVIOUS
  <2>1. i \in 1..n
    BY <1>1
  <2>2. t[i] = Nul
    BY <1>1, <2>1
  <2> QED BY <1>1, <2>1, <2>2 DEF ToSet
<1>4. Min(zeros) = n + 1
  <2>1. zeros \in SUBSET Int
    BY <1>1
  <2> HIDE DEF zeros, n
  <2> QED BY <1>2, <1>3, <2>1, LeastIs
<1>5. CString(s) = SubSeq(b, 1, n)
  <2>1. Min(zeros) - 1 = n
    BY <1>1, <1>4
  <2>2. CString(s) = SubSeq(b, 1, Min(zeros) - 1)
    BY DEF CString
  <2> HIDE DEF zeros, b, n
  <2> QED BY <2>1, <2>2
<1>6. SubSeq(b, 1, n) = SubSeq(t, 1, n)
  <2>1. n \in 0..n
    BY <1>1
  <2> QED BY <2>1, FrontIs
<1>7. SubSeq(t, 1, n) = t
  BY <1>1
<1> QED BY <1>5, <1>6, <1>7

-----------------------------------------------------------------------------
(* The first and the last of some numbers, and induction up to a number.  *)

\* The first of some numbers.
LEMMA FirstOf ==
    ASSUME NEW L, L \subseteq Nat, L # {}
    PROVE  \E i \in L : \A j \in L : i <= j
<1> DEFINE R == OpToRel(<, Nat)
<1>1. \A i, j \in Nat : j < i => <<j, i>> \in R
  BY DEF OpToRel
<1> HIDE DEF R
<1>2. IsWellFoundedOn(R, Nat)
  BY NatLessThanWellFounded DEF R
<1>3. PICK i \in L : \A j \in L : ~(<<j, i>> \in R)
  BY <1>2, WFMin
<1>4. ASSUME NEW j \in L PROVE i <= j
  <2>1. i \in Nat /\ j \in Nat /\ ~(<<j, i>> \in R)
    BY <1>3
  <2>2. ~(j < i)
    BY <1>1, <2>1
  <2> QED BY <2>1, <2>2
<1> QED BY <1>4

\* The last of some numbers.
LEMMA LastOf ==
    ASSUME NEW n \in Nat, NEW L, L \subseteq 0..n, L # {}
    PROVE  \E i \in L : \A j \in L : i >= j
<1> DEFINE M == {n - i : i \in L}
<1>1. M \subseteq Nat /\ M # {}
  <2>1. \A i \in L : n - i \in Nat
    OBVIOUS
  <2> QED BY <2>1
<1>2. PICK m \in M : \A k \in M : m <= k
  <2> HIDE DEF M
  <2> QED BY <1>1, FirstOf
<1>3. PICK i \in L : m = n - i
  OBVIOUS
<1>4. ASSUME NEW j \in L PROVE i >= j
  <2>1. n - j \in M /\ i \in 0..n /\ j \in 0..n
    OBVIOUS
  <2>2. n - i <= n - j
    BY <1>2, <1>3, <2>1
  <2> QED BY <2>1, <2>2
<1> QED BY <1>4

\* Whoever has 0, and with each number the next, has all.
LEMMA UpTo ==
    ASSUME NEW n \in Nat, NEW G, 0 \in G, \A i \in 1..n : i - 1 \in G => i \in G
    PROVE  \A i \in 0..n : i \in G
<1> SUFFICES ASSUME NEW k \in 0..n, k \notin G PROVE FALSE
  OBVIOUS
<1> DEFINE L == {i \in 0..n : i \notin G}
<1>1. L \subseteq Nat /\ L # {}
  OBVIOUS
<1>2. PICK i \in L : \A j \in L : i <= j
  <2> HIDE DEF L
  <2> QED BY <1>1, FirstOf
<1>3. i \in 1..n /\ i - 1 \in 0..n /\ ~(i <= i - 1)
  OBVIOUS
<1>4. i - 1 \in G
  BY <1>2, <1>3
<1> QED BY <1>3, <1>4

-----------------------------------------------------------------------------
(* trim.                                                                   *)

\* Where the bytes are that are not spaces.
Solid(t) == {i \in 1..Len(t) : t[i] # Space}

\* Spaces are taken from both ends.
LEMMA TrimIs ==
    ASSUME NEW s, NEW t, Holds(s, t), Nul \notin ToSet(t)
    PROVE  LET in == {i \in DOMAIN t : t[i] # Space}
               u == IF in = {} THEN <<>> ELSE SubSeq(t, Min(in), Max(in))
           IN Holds(Trim(s), u) /\ u \in Seq(Char)
<1> DEFINE n == Len(t)
           in == Solid(t)
           u == IF in = {} THEN <<>> ELSE SubSeq(t, Min(in), Max(in))
           k == IF in # {} THEN Min(in) - 1 ELSE n
           v == SubSeq(t, k + 1, n)
           front == Copied(s.m_buffer, 0, Append(v, Nul))
           r == [s EXCEPT !.m_buffer = Copied(@, 0, Append(v, Nul))]
           J == {j \in 1..n - k : front[j] # Space}
           last == IF J # {} THEN Max(J) ELSE 0
<1>1. /\ t \in Seq(Char) /\ n \in Nat /\ n <= s.m_capacity /\ s.m_length = n
      /\ Roomy(s) /\ s.m_capacity \in Nat
  BY HoldsFacts DEF Holds
<1>2. DOMAIN t = 1..n /\ in \subseteq 1..n
  BY <1>1 DEF Solid
<1>3. k \in 0..n /\ (in # {} => Min(in) = k + 1 /\ k + 1 \in in /\ \A i \in in : k + 1 <= i)
  <2>1. CASE in = {}
    BY <1>1, <2>1
  <2>2. CASE in # {}
    <3>1. in \subseteq Nat
      BY <1>2
    <3>2. PICK i \in in : \A j \in in : i <= j
      <4> HIDE DEF in
      <4> QED BY <2>2, <3>1, FirstOf
    <3>3. Min(in) = i
      <4>1. in \in SUBSET Int
        BY <3>1
      <4> HIDE DEF in
      <4> QED BY <3>2, <4>1, LeastIs
    <3> HIDE DEF in
    <3>4. i \in 1..n
      BY <1>2, <3>2
    <3> QED BY <1>1, <2>2, <3>2, <3>3, <3>4
  <2> QED BY <2>1, <2>2
<1>4. Trim(s) = Ended(r, last)
  <2>1. CString(s) = t
    BY CStringIs
  <2>2. SelectInSeq(t, LAMBDA c : c # Space) = IF in # {} THEN Min(in) ELSE 0
    BY DEF SelectInSeq, Solid
  <2>3. k = IF SelectInSeq(t, LAMBDA c : c # Space) = 0 THEN Len(t)
            ELSE SelectInSeq(t, LAMBDA c : c # Space) - 1
    <3> HIDE DEF in
    <3> QED BY <1>1, <1>3, <2>2
  <2>4. SelectLastInSubSeq(front, 1, n - k, LAMBDA c : c # Space) = last
    BY DEF SelectLastInSubSeq
  <2> HIDE DEF in, k, last
  <2> QED BY <1>1, <2>1, <2>3, <2>4 DEF Trim
<1> HIDE DEF r
<1>5. /\ v \in Seq(Char) /\ Len(v) = n - k
      /\ \A j \in 1..n - k : v[j] = t[k + j] /\ k + j \in 1..n
  <2> HIDE DEF k, n
  <2>1. k + 1 \in Nat /\ n \in Nat /\ k + 1 >= 1 /\ n <= Len(t)
    BY <1>1, <1>3 DEF n
  <2>2. v \in Seq(Char) /\ Len(v) = n - k /\ \A j \in 1..n - k : v[j] = t[k + j]
    BY <1>1, <1>3, <2>1 DEF n
  <2> QED BY <1>1, <1>3, <2>2
<1> HIDE DEF v
<1>6. Roomy(r) /\ Has(r, v) /\ r.m_buffer = front
  <2>1. Len(v) <= s.m_capacity
    BY <1>1, <1>3, <1>5
  <2>2. Roomy(r) /\ Has(r, v)
    BY <1>1, <1>5, <2>1, AtFront DEF r
  <2>3. s \in [m_buffer : Seq(Cell), m_length : Nat, m_capacity : Nat]
    BY HoldsFacts
  <2> HIDE DEF front
  <2> QED BY <2>2, <2>3 DEF r, front
<1>7. \A j \in 1..n - k : front[j] = t[k + j] /\ k + j \in 1..n
  BY <1>5, <1>6 DEF Has
<1> HIDE DEF front
<1>8. Solid(t) = {i \in DOMAIN t : t[i] # Space}
  BY <1>2 DEF Solid
<1>9. last \in 0..Len(v) /\ SubSeq(v, 1, last) = u
  <2>1. CASE in = {}
    <3>1. k = n /\ n - k = 0 /\ J = {}
      BY <1>1, <2>1
    <3>2. last = 0 /\ Len(v) = 0
      BY <1>5, <3>1
    <3>3. SubSeq(v, 1, 0) = <<>>
      BY <1>5
    <3> QED BY <2>1, <3>2, <3>3
  <2>2. CASE in # {}
    <3>1. PICK g \in in : \A j \in in : g >= j
      <4>1. in \subseteq 0..n
        BY <1>2
      <4> HIDE DEF in
      <4> QED BY <1>1, <2>2, <4>1, LastOf
    <3>2. Max(in) = g
      <4>1. in \in SUBSET Int
        BY <1>2
      <4> HIDE DEF in
      <4> QED BY <3>1, <4>1, GreatestIs
    <3>3. g \in 1..n /\ k + 1 <= g /\ k \in 0..n
      BY <1>2, <1>3, <2>2, <3>1
    <3>4. g - k \in 1..n - k /\ k + (g - k) = g
      BY <1>1, <3>3
    <3>5. g - k \in J
      <4>1. t[g] # Space
        BY <3>1 DEF Solid
      <4> QED BY <1>7, <3>4, <4>1
    <3>6. ASSUME NEW j \in J PROVE g - k >= j
      <4>1. j \in 1..n - k /\ k + j \in 1..n /\ t[k + j] # Space
        BY <1>7
      <4>2. k + j \in in
        BY <4>1 DEF Solid
      <4> QED BY <3>1, <3>3, <4>1, <4>2
    <3>7. last = g - k
      <4>1. J \in SUBSET Int
        OBVIOUS
      <4> HIDE DEF J, k
      <4>2. Max(J) = g - k
        BY <3>5, <3>6, <4>1, GreatestIs
      <4> QED BY <3>5, <4>2
    <3> HIDE DEF in, k, last, J
    <3>8. /\ SubSeq(v, 1, g - k) \in Seq(Char) /\ Len(SubSeq(v, 1, g - k)) = g - k
          /\ \A j \in 1..g - k : SubSeq(v, 1, g - k)[j] = v[j]
      BY <1>5, <3>4, SubSeqProperties
    <3>9. /\ SubSeq(t, k + 1, g) \in Seq(Char) /\ Len(SubSeq(t, k + 1, g)) = g - k
          /\ \A j \in 1..g - k : SubSeq(t, k + 1, g)[j] = t[k + j]
      <4>1. k + 1 \in Nat /\ k + 1 >= 1 /\ g \in Nat /\ g <= Len(t) /\ g - (k + 1) + 1 = g - k
        BY <1>1, <3>3
      <4> HIDE DEF n
      <4> QED BY <1>1, <3>3, <4>1
    <3>10. \A j \in 1..g - k : v[j] = t[k + j]
      BY <1>1, <1>5, <3>3
    <3>11. SubSeq(v, 1, g - k) = SubSeq(t, k + 1, g)
      BY <3>8, <3>9, <3>10, SeqEqual
    <3>12. Min(in) = k + 1
      BY <1>3, <2>2
    <3>13. u = SubSeq(t, k + 1, g)
      BY <2>2, <3>2, <3>12
    <3>14. last \in 0..Len(v)
      BY <1>5, <3>4, <3>7
    <3> QED BY <3>7, <3>11, <3>13, <3>14
  <2> QED BY <2>1, <2>2
<1> HIDE DEF last
<1>10. Holds(Ended(r, last), SubSeq(v, 1, last)) /\ SubSeq(v, 1, last) \in Seq(Char)
  BY <1>6, <1>9, CutFrontIs
<1>11. Holds(Trim(s), u) /\ u \in Seq(Char)
  BY <1>4, <1>9, <1>10
<1> QED BY <1>8, <1>11

-----------------------------------------------------------------------------
(* trimAll and replace.                                                    *)

\* A turn of one of the loops over the bytes of a string.
Turn(what, x, c, by) ==
    IF what = "letters" THEN IF c = Letter THEN Append(x, Letter) ELSE x
    ELSE IF what = "array" THEN NCat(x, Piece(c, Space, by)) ELSE x \o Piece(c, Space, by)
\* What it has after each of n turns.
Turns(f, what, b, cs, by, n) ==
    f = [i \in 0..n |-> IF i = 0 THEN b ELSE Turn(what, f[i - 1], cs[i], by)]

\* A loop of n turns has a value after each.
LEMMA TurnsAre ==
    ASSUME NEW what, NEW b, NEW cs, NEW by, NEW n \in Nat
    PROVE  \E f : Turns(f, what, b, cs, by, n)
<1> DEFINE G == {m \in 0..n : \E f : Turns(f, what, b, cs, by, m)}
<1>1. 0 \in G
  <2> DEFINE f == [i \in 0..0 |-> b]
  <2>1. Turns(f, what, b, cs, by, 0)
    BY DEF Turns
  <2> QED BY <2>1
<1>2. ASSUME NEW m \in 1..n, m - 1 \in G PROVE m \in G
  <2>1. PICK g : Turns(g, what, b, cs, by, m - 1)
    BY <1>2
  <2> DEFINE f == [i \in 0..m |-> IF i = m THEN Turn(what, g[m - 1], cs[m], by) ELSE g[i]]
  <2>2. ASSUME NEW i \in 0..m PROVE f[i] = IF i = 0 THEN b ELSE Turn(what, f[i - 1], cs[i], by)
    <3>1. i # 0 => i - 1 \in 0..m /\ i - 1 # m
      OBVIOUS
    <3>2. i # 0 => f[i - 1] = g[i - 1]
      BY <3>1
    <3>3. CASE i = m
      BY <3>2, <3>3
    <3>4. CASE i # m
      <4>1. i \in 0..m - 1 /\ f[i] = g[i]
        BY <3>4
      <4> QED BY <2>1, <3>2, <4>1 DEF Turns
    <3> QED BY <3>3, <3>4
  <2>3. f = [i \in 0..m |-> f[i]]
    OBVIOUS
  <2>4. Turns(f, what, b, cs, by, m)
    <3> HIDE DEF f
    <3> QED BY <2>2, <2>3 DEF Turns
  <2>5. m \in 0..n
    OBVIOUS
  <2> QED BY <2>4, <2>5
<1>3. n \in G
  <2>1. n \in 0..n
    OBVIOUS
  <2> HIDE DEF G
  <2> QED BY <1>1, <1>2, <2>1, UpTo
<1> QED BY <1>3

\* There are no more letters than bytes.
LEMMA LettersAre == \A t \in Seq(Char) : Letters(t) \in Seq(Char) /\ Len(Letters(t)) <= Len(t)
<1> SUFFICES ASSUME NEW t \in Seq(Char)
             PROVE  Letters(t) \in Seq(Char) /\ Len(Letters(t)) <= Len(t)
  OBVIOUS
<1> DEFINE n == Len(t)
           kept[i \in 0..Len(t)] == IF i = 0 THEN <<>>
                                    ELSE IF t[i] = Letter THEN Append(kept[i - 1], Letter) ELSE kept[i - 1]
           G == {i \in 0..n : kept[i] \in Seq(Char) /\ Len(kept[i]) <= i}
<1>1. n \in Nat
  BY LenProperties
<1>2. Letters(t) = kept[n]
  BY DEF Letters
<1>3. Turns(kept, "letters", <<>>, t, {}, n)
  <2>1. PICK g : Turns(g, "letters", <<>>, t, {}, n)
    BY <1>1, TurnsAre
  <2>2. kept = CHOOSE f : f = [i \in 0..n |-> IF i = 0 THEN <<>>
                       ELSE IF t[i] = Letter THEN Append(f[i - 1], Letter) ELSE f[i - 1]]
    BY DEF kept
  <2> HIDE DEF kept, n
  <2>3. \A f, i : Turn("letters", f[i - 1], t[i], {}) = IF t[i] = Letter THEN Append(f[i - 1], Letter) ELSE f[i - 1]
    BY DEF Turn
  <2>4. \A f : Turns(f, "letters", <<>>, t, {}, n) <=> f = [i \in 0..n |-> IF i = 0 THEN <<>>
                       ELSE IF t[i] = Letter THEN Append(f[i - 1], Letter) ELSE f[i - 1]]
    BY <2>3 DEF Turns
  <2> QED BY <2>1, <2>2, <2>4
<1> HIDE DEF kept, n
<1>4. 0 \in G
  <2>1. 0 \in 0..n
    BY <1>1
  <2>2. kept[0] = <<>>
    BY <1>3, <2>1 DEF Turns
  <2>3. <<>> \in Seq(Char) /\ Len(<<>>) <= 0
    OBVIOUS
  <2> QED BY <2>1, <2>2, <2>3
<1>5. ASSUME NEW i \in 1..n, i - 1 \in G PROVE i \in G
  <2>1. i \in 0..n /\ i # 0 /\ i - 1 \in Nat
    BY <1>1
  <2>2. kept[i] = IF t[i] = Letter THEN Append(kept[i - 1], Letter) ELSE kept[i - 1]
    BY <1>3, <2>1 DEF Turns, Turn
  <2>3. kept[i - 1] \in Seq(Char) /\ Len(kept[i - 1]) <= i - 1 /\ Len(kept[i - 1]) \in Nat
    BY <1>5, LenProperties
  <2>4. /\ Append(kept[i - 1], Letter) \in Seq(Char)
        /\ Len(Append(kept[i - 1], Letter)) = Len(kept[i - 1]) + 1
    BY <2>3, AppendProperties DEF Char
  <2>5. kept[i] \in Seq(Char) /\ Len(kept[i]) <= i
    BY <2>1, <2>2, <2>3, <2>4
  <2> QED BY <2>1, <2>5
<1>6. n \in G
  <2>1. n \in 0..n
    BY <1>1
  <2> HIDE DEF G
  <2> QED BY <1>1, <1>4, <1>5, <2>1, UpTo
<1> QED BY <1>2, <1>6 DEF n

\* Only letters are left.
LEMMA TrimAllIs ==
    ASSUME NEW s, NEW t, Holds(s, t), Nul \notin ToSet(t)
    PROVE  Holds(TrimAll(s), Letters(t)) /\ Letters(t) \in Seq(Char)
<1> DEFINE v == Letters(t)
           none == <<>>
<1>1. CString(s) = t
  BY CStringIs
<1>2. t \in Seq(Char) /\ Len(t) \in Nat /\ Len(t) <= s.m_capacity /\ s.m_capacity \in Nat
  BY HoldsFacts
<1>3. v \in Seq(Char) /\ Len(v) <= Len(t) /\ Len(v) \in Nat
  BY <1>2, LettersAre, LenProperties
<1>4. TrimAll(s) = Ended([s EXCEPT !.m_buffer = Copied(@, 0, v)], Len(v))
  BY <1>1 DEF TrimAll
<1>5. Len(none) = 0 /\ none \o v = v
  BY <1>3
<1> HIDE DEF v
<1>6. Roomy(s) /\ Has(s, none)
  BY HasNothing DEF Holds
<1>7. TrimAll(s) = Ended([s EXCEPT !.m_buffer = Copied(@, Len(none), v)], Len(none) + Len(v))
  BY <1>3, <1>4, <1>5
<1> HIDE DEF none
<1>8. Len(none) + Len(v) <= s.m_capacity
  BY <1>2, <1>3, <1>5
<1>9. Holds(Ended([s EXCEPT !.m_buffer = Copied(@, Len(none), v)], Len(none) + Len(v)), none \o v)
  BY <1>3, <1>6, <1>8, PutBehind
<1> QED BY <1>3, <1>5, <1>7, <1>9 DEF v

\* What replaces a byte is a text.
LEMMA PieceIs == \A c \in Char, by \in Seq(Char) : Piece(c, Space, by) \in Seq(Char)
  BY DEF Piece

\* replace, with an array that is put together piece by piece.
LEMMA ReplaceIs ==
    ASSUME NEW s, NEW t, Holds(s, t), Nul \notin ToSet(t), NEW by \in Seq(Char)
    PROVE  Holds(ReplaceIn(s, Space, by), WithReplaced(t, Space, by))
<1> DEFINE n == Len(t)
           dest[i \in 0..Len(t)] ==
              IF i = 0 THEN Empty ELSE NCat(dest[i - 1], Piece(t[i], Space, by))
           joined[i \in 0..Len(t)] ==
              IF i = 0 THEN <<>> ELSE joined[i - 1] \o Piece(t[i], Space, by)
           G == {i \in 0..n : Holds(dest[i], joined[i])}
<1>1. t \in Seq(Char) /\ n \in Nat
  BY HoldsFacts
<1>2. ReplaceIn(s, Space, by) = AssignString(s, dest[n])
  <2>1. CString(s) = t
    BY CStringIs
  <2> QED BY <2>1 DEF ReplaceIn
<1>3. WithReplaced(t, Space, by) = joined[n]
  BY DEF WithReplaced
<1>4. Turns(dest, "array", Empty, t, by, n)
  <2>1. PICK g : Turns(g, "array", Empty, t, by, n)
    BY <1>1, TurnsAre
  <2>2. dest = CHOOSE f : f = [i \in 0..n |-> IF i = 0 THEN Empty
                                              ELSE NCat(f[i - 1], Piece(t[i], Space, by))]
    BY DEF dest
  <2> HIDE DEF dest, n
  <2>3. \A f, i : Turn("array", f[i - 1], t[i], by) = NCat(f[i - 1], Piece(t[i], Space, by))
    BY DEF Turn
  <2>4. \A f : Turns(f, "array", Empty, t, by, n)
               <=> f = [i \in 0..n |-> IF i = 0 THEN Empty
                                       ELSE NCat(f[i - 1], Piece(t[i], Space, by))]
    BY <2>3 DEF Turns
  <2> QED BY <2>1, <2>2, <2>4
<1>5. Turns(joined, "text", <<>>, t, by, n)
  <2>1. PICK g : Turns(g, "text", <<>>, t, by, n)
    BY <1>1, TurnsAre
  <2>2. joined = CHOOSE f : f = [i \in 0..n |-> IF i = 0 THEN <<>>
                                                ELSE f[i - 1] \o Piece(t[i], Space, by)]
    BY DEF joined
  <2> HIDE DEF joined, n
  <2>3. \A f, i : Turn("text", f[i - 1], t[i], by) = f[i - 1] \o Piece(t[i], Space, by)
    BY DEF Turn
  <2>4. \A f : Turns(f, "text", <<>>, t, by, n)
               <=> f = [i \in 0..n |-> IF i = 0 THEN <<>>
                                       ELSE f[i - 1] \o Piece(t[i], Space, by)]
    BY <2>3 DEF Turns
  <2> QED BY <2>1, <2>2, <2>4
<1> HIDE DEF dest, joined
<1>6. 0 \in G
  <2>1. 0 \in 0..n
    BY <1>1
  <2> HIDE DEF n
  <2>2. dest[0] = Empty /\ joined[0] = <<>>
    BY <1>4, <1>5, <2>1 DEF Turns
  <2> QED BY <2>1, <2>2, EmptyIs
<1>7. ASSUME NEW i \in 1..n, i - 1 \in G PROVE i \in G
  <2>1. i \in 0..n /\ i # 0
    BY <1>1
  <2>2. t[i] \in Char
    BY <1>1
  <2> DEFINE p == Piece(t[i], Space, by)
  <2>3. p \in Seq(Char)
    BY <2>2, PieceIs
  <2>4. dest[i] = NCat(dest[i - 1], p)
    <3> HIDE DEF n
    <3>1. dest[i] = Turn("array", dest[i - 1], t[i], by)
      BY <1>4, <2>1 DEF Turns
    <3> QED BY <3>1 DEF Turn
  <2>5. joined[i] = joined[i - 1] \o p
    <3> HIDE DEF n
    <3>1. joined[i] = Turn("text", joined[i - 1], t[i], by)
      BY <1>5, <2>1 DEF Turns
    <3> QED BY <3>1 DEF Turn
  <2> HIDE DEF p, n
  <2>6. Holds(dest[i - 1], joined[i - 1])
    BY <1>7
  <2>7. Holds(dest[i], joined[i])
    BY <2>3, <2>4, <2>5, <2>6, NCatIs
  <2> QED BY <2>1, <2>7
<1>8. n \in G
  <2>1. n \in 0..n
    BY <1>1
  <2> HIDE DEF G, n
  <2> QED BY <1>1, <1>6, <1>7, <2>1, UpTo
<1>9. Holds(dest[n], joined[n])
  BY <1>8
<1>10. Holds(AssignString(s, dest[n]), joined[n])
  <2> HIDE DEF n
  <2> QED BY <1>9, AssignStringIs
<1> QED BY <1>2, <1>3, <1>10

\* The place of the separator is a place of the text, or 0.
LEMMA FindIs == \A t \in Seq(Char) : Find(t, Space) \in 0..Len(t)
<1> SUFFICES ASSUME NEW t \in Seq(Char) PROVE Find(t, Space) \in 0..Len(t)
  OBVIOUS
<1> DEFINE I == {i \in 1..Len(t) : t[i] = Space}
<1>1. Find(t, Space) = IF I # {} THEN Min(I) ELSE 0
  BY DEF Find, SelectInSeq
<1>2. Len(t) \in Nat
  BY LenProperties
<1>3. CASE I = {}
  BY <1>1, <1>2, <1>3
<1>4. CASE I # {}
  <2>1. I \subseteq Nat /\ I \in SUBSET Int
    BY <1>2
  <2>2. PICK i \in I : \A j \in I : i <= j
    <3> HIDE DEF I
    <3> QED BY <1>4, <2>1, FirstOf
  <2>3. Min(I) = i
    <3> HIDE DEF I
    <3> QED BY <2>1, <2>2, LeastIs
  <2>4. i \in 0..Len(t)
    BY <1>2
  <2> HIDE DEF I
  <2> QED BY <1>1, <1>4, <2>3, <2>4
<1> QED BY <1>3, <1>4

\* cut(sep, result): what stays, and what goes.
LEMMA DividedIs ==
    ASSUME NEW s, NEW t, Holds(s, t), Nul \notin ToSet(t), NEW r, NEW u, Holds(r, u)
    PROVE  LET i == Find(t, Space) IN
           /\ Holds(CutOff(s, Space), IF i = 0 THEN <<>> ELSE SubSeq(t, i + 1, Len(t)))
           /\ Holds(CutTo(r, s, Space), IF i = 0 THEN t ELSE SubSeq(t, 1, i - 1))
<1> DEFINE i == Find(t, Space)
           n == Len(t)
<1>1. CString(s) = t
  BY CStringIs
<1>2. t \in Seq(Char) /\ n \in Nat
  BY HoldsFacts
<1>3. i \in 0..n
  BY <1>2, FindIs
<1>4. CutOff(s, Space) = IF i = 0 THEN Ended(s, 0) ELSE Set(s, SubSeq(t, i + 1, n))
  BY <1>1 DEF CutOff
<1>5. CutTo(r, s, Space) = IF i = 0 THEN AssignString(r, s)
                           ELSE NCat(Ended(r, 0), SubSeq(t, 1, i - 1))
  BY <1>1 DEF CutTo
<1>6. Holds(Ended(s, 0), <<>>) /\ Holds(Ended(r, 0), <<>>)
  <2>1. /\ 0 \in 0..Len(t) /\ 0 \in 0..Len(u)
        /\ SubSeq(t, 1, 0) = <<>> /\ SubSeq(u, 1, 0) = <<>>
    BY HoldsFacts
  <2>2. Holds(Ended(s, 0), SubSeq(t, 1, 0)) /\ Holds(Ended(r, 0), SubSeq(u, 1, 0))
    BY <2>1, CutTextIs
  <2> QED BY <2>1, <2>2
<1>7. CASE i = 0
  <2>1. Holds(AssignString(r, s), t)
    BY AssignStringIs
  <2> QED BY <1>4, <1>5, <1>6, <1>7, <2>1
<1>8. CASE i # 0
  <2> DEFINE v == SubSeq(t, i + 1, n)
             w == SubSeq(t, 1, i - 1)
  <2> HIDE DEF i
  <2>1. v \in Seq(Char) /\ w \in Seq(Char)
    BY <1>2, <1>3, <1>8
  <2>2. <<>> \o w = w
    BY <2>1
  <2> HIDE DEF v, w
  <2>3. Holds(Set(s, v), v)
    BY <2>1, SetIs
  <2>4. Holds(NCat(Ended(r, 0), w), <<>> \o w)
    BY <1>6, <2>1, NCatIs
  <2> QED BY <1>4, <1>5, <1>8, <2>2, <2>3, <2>4 DEF v, w, i
<1> QED BY <1>7, <1>8

-----------------------------------------------------------------------------
(* Every operation keeps what is held.                                    *)

\* Each object is a string that holds its text.
StringInv == /\ str = [o \in Objects |-> str[o]]
             /\ text = [o \in Objects |-> text[o]]
             /\ \A o \in Objects : Holds(str[o], text[o])

\* A string that is held where it is put.
LEMMA BecomeKeeps ==
    ASSUME StringInv, NEW o \in Objects, NEW s, NEW t, Holds(s, t), Become(o, s, t)
    PROVE  StringInv'
<1>1. /\ str' = [p \in Objects |-> IF p = o THEN s ELSE str[p]]
      /\ text' = [p \in Objects |-> IF p = o THEN t ELSE text[p]]
  <2>1. str' = [str EXCEPT ![o] = s] /\ text' = [text EXCEPT ![o] = t]
    BY DEF Become
  <2>2. str = [p \in Objects |-> str[p]] /\ text = [p \in Objects |-> text[p]]
    BY DEF StringInv
  <2> QED BY <2>1, <2>2
<1>2. str' = [p \in Objects |-> str'[p]] /\ text' = [p \in Objects |-> text'[p]]
  BY <1>1
<1>3. ASSUME NEW p \in Objects PROVE Holds(str'[p], text'[p])
  <2>1. CASE p = o
    BY <1>1, <2>1
  <2>2. CASE p # o
    <3>1. str'[p] = str[p] /\ text'[p] = text[p] /\ Holds(str[p], text[p])
      BY <1>1, <2>2 DEF StringInv
    <3> QED BY <3>1
  <2> QED BY <2>1, <2>2
<1> QED BY <1>2, <1>3 DEF StringInv

\* The same of two.
LEMMA Become2Keeps ==
    ASSUME StringInv, NEW o \in Objects, NEW s, NEW t, Holds(s, t),
           NEW p \in Objects, NEW r, NEW u, Holds(r, u), Become2(o, s, t, p, r, u)
    PROVE  StringInv'
<1>1. /\ str' = [q \in Objects |-> IF q = p THEN r ELSE IF q = o THEN s ELSE str[q]]
      /\ text' = [q \in Objects |-> IF q = p THEN u ELSE IF q = o THEN t ELSE text[q]]
  <2>1. str' = [str EXCEPT ![o] = s, ![p] = r] /\ text' = [text EXCEPT ![o] = t, ![p] = u]
    BY DEF Become2
  <2>2. str = [q \in Objects |-> str[q]] /\ text = [q \in Objects |-> text[q]]
    BY DEF StringInv
  <2> QED BY <2>1, <2>2
<1>2. str' = [q \in Objects |-> str'[q]] /\ text' = [q \in Objects |-> text'[q]]
  BY <1>1
<1>3. ASSUME NEW q \in Objects PROVE Holds(str'[q], text'[q])
  <2>1. CASE q = p
    BY <1>1, <2>1
  <2>2. CASE q = o /\ q # p
    BY <1>1, <2>2
  <2>3. CASE q # o /\ q # p
    <3>1. str'[q] = str[q] /\ text'[q] = text[q] /\ Holds(str[q], text[q])
      BY <1>1, <2>3 DEF StringInv
    <3> QED BY <3>1
  <2> QED BY <2>1, <2>2, <2>3
<1> QED BY <1>2, <1>3 DEF StringInv

\* The strings that are passed are texts.
LEMMA PassedIs == \A cs \in Literals \cup Blocks : cs \in Seq(Char)
  BY StringAssumption

\* Constructors make a string of what they are given.
LEMMA MakeKeeps == ASSUME StringInv, NEW o \in Objects, Make(o) PROVE StringInv'
<1>1. ASSUME NEW cs \in Literals, Become(o, NewString(cs), cs) PROVE StringInv'
  <2>1. Holds(NewString(cs), cs)
    BY PassedIs, NewStringIs
  <2> QED BY <1>1, <2>1, BecomeKeeps
<1>2. ASSUME NEW p \in Objects, Become(o, NewString(Stolen(str[p])), text[p]) PROVE StringInv'
  <2>1. Holds(str[p], text[p])
    BY DEF StringInv
  <2>2. Stolen(str[p]) = text[p] /\ text[p] \in Seq(Char)
    BY <2>1, StealIs DEF Holds, Has
  <2>3. Holds(NewString(Stolen(str[p])), text[p])
    BY <2>2, NewStringIs
  <2> QED BY <1>2, <2>3, BecomeKeeps
<1> QED BY <1>1, <1>2 DEF Make

\* set and = hold what they are given, decoded or not.
LEMMA ReplacedKeeps == ASSUME StringInv, NEW o \in Objects, Replaced(o) PROVE StringInv'
<1>1. Holds(str[o], text[o])
  BY DEF StringInv
<1>2. ASSUME NEW cs \in Literals \cup Blocks, Become(o, Set(str[o], cs), cs) PROVE StringInv'
  <2>1. Holds(Set(str[o], cs), cs)
    BY <1>1, PassedIs, SetIs
  <2> QED BY <1>2, <2>1, BecomeKeeps
<1>3. ASSUME NEW p \in Objects, Become(o, AssignString(str[o], str[p]), text[p]) PROVE StringInv'
  <2>1. Holds(str[p], text[p])
    BY DEF StringInv
  <2>2. Holds(AssignString(str[o], str[p]), text[p])
    BY <1>1, <2>1, AssignStringIs
  <2> QED BY <1>3, <2>2, BecomeKeeps
<1>4. ASSUME NEW p \in Objects, NEW short \in BOOLEAN,
             Become(o, Set(str[o], Decoded(Encode(str[p], short), short)),
                    IF short THEN Misread(text[p]) ELSE text[p])
      PROVE  StringInv'
  <2> DEFINE u == IF short THEN Misread(text[p]) ELSE text[p]
             v == Decoded(Encode(str[p], short), short)
  <2>1. Holds(str[p], text[p])
    BY DEF StringInv
  <2>2. v = u /\ u \in Seq(Char)
    BY <2>1, DecodedIs
  <2>3. Become(o, Set(str[o], v), u)
    BY <1>4
  <2> HIDE DEF u, v
  <2>4. Holds(Set(str[o], v), u)
    BY <1>1, <2>2, SetIs
  <2> QED BY <2>3, <2>4, BecomeKeeps
<1> QED BY <1>2, <1>3, <1>4 DEF Replaced

\* What is appended is behind what was there, also when a string is appended to itself.
LEMMA ExtendedKeeps == ASSUME StringInv, NEW o \in Objects, Extended(o) PROVE StringInv'
<1>1. Holds(str[o], text[o])
  BY DEF StringInv
<1>2. ASSUME NEW cs \in Literals \cup Blocks, Become(o, NCat(str[o], cs), text[o] \o cs)
      PROVE  StringInv'
  <2>1. Holds(NCat(str[o], cs), text[o] \o cs)
    BY <1>1, PassedIs, NCatIs
  <2> QED BY <1>2, <2>1, BecomeKeeps
<1>3. ASSUME NEW p \in Objects, Become(o, AppendString(str[o], str[p]), text[o] \o text[p])
      PROVE  StringInv'
  <2>1. Holds(str[p], text[p])
    BY DEF StringInv
  <2>2. Holds(AppendString(str[o], str[p]), text[o] \o text[p])
    BY <1>1, <2>1, AppendStringIs
  <2> QED BY <1>3, <2>2, BecomeKeeps
<1> QED BY <1>2, <1>3 DEF Extended

\* cut(length), from either end.
LEMMA ShortenedKeeps == ASSUME StringInv, NEW o \in Objects, Shortened(o) PROVE StringInv'
<1>1. PICK n \in -MaxText..MaxText :
         Become(o, CutAt(str[o], n),
                IF n \notin -Len(text[o])..Len(text[o]) THEN text[o]
                ELSE SubSeq(text[o], 1, IF n < 0 THEN Len(text[o]) + n ELSE n))
  BY DEF Shortened
<1>2. n \in Int
  BY StringAssumption
<1>3. Holds(str[o], text[o])
  BY DEF StringInv
<1>4. Holds(CutAt(str[o], n),
            IF n \notin -Len(text[o])..Len(text[o]) THEN text[o]
            ELSE SubSeq(text[o], 1, IF n < 0 THEN Len(text[o]) + n ELSE n))
  BY <1>2, <1>3, CutAtIs
<1> QED BY <1>1, <1>4, BecomeKeeps

\* setByte, also of a zero byte.
LEMMA OverwrittenKeeps == ASSUME StringInv, NEW o \in Objects, Overwritten(o) PROVE StringInv'
<1>1. PICK c \in Char, n \in 1..Len(text[o]) : \E pos \in {n - 1, n - 1 - Len(text[o])} :
         Become(o, SetByte(str[o], c, pos), [text[o] EXCEPT ![n] = c])
  BY DEF Overwritten, Char
<1>4. PICK pos \in {n - 1, n - 1 - Len(text[o])} :
         Become(o, SetByte(str[o], c, pos), [text[o] EXCEPT ![n] = c])
  BY <1>1
<1>2. Holds(str[o], text[o])
  BY DEF StringInv
<1>3. Holds(SetByte(str[o], c, pos), [text[o] EXCEPT ![n] = c])
  BY <1>2, SetByteIs
<1> QED BY <1>3, <1>4, BecomeKeeps

\* trim and trimAll.
LEMMA TrimmedKeeps == ASSUME StringInv, NEW o \in Objects, Trimmed(o) PROVE StringInv'
<1> DEFINE in == {i \in DOMAIN text[o] : text[o][i] # Space}
           u == IF in = {} THEN <<>> ELSE SubSeq(text[o], Min(in), Max(in))
<1>1. Holds(str[o], text[o]) /\ Nul \notin ToSet(text[o])
  BY DEF StringInv, Trimmed, Plain
<1>2. Holds(Trim(str[o]), u)
  BY <1>1, TrimIs
<1>3. Holds(TrimAll(str[o]), Letters(text[o]))
  BY <1>1, TrimAllIs
<1>4. Become(o, Trim(str[o]), u) \/ Become(o, TrimAll(str[o]), Letters(text[o]))
  BY DEF Trimmed
<1> HIDE DEF u
<1> QED BY <1>2, <1>3, <1>4, BecomeKeeps

\* replace.
LEMMA EditedKeeps == ASSUME StringInv, NEW o \in Objects, Edited(o) PROVE StringInv'
<1>1. Holds(str[o], text[o]) /\ Nul \notin ToSet(text[o])
  BY DEF StringInv, Edited, Plain
<1>2. PICK by \in Literals :
         Become(o, ReplaceIn(str[o], Space, by), WithReplaced(text[o], Space, by))
  BY DEF Edited
<1>3. by \in Seq(Char)
  BY PassedIs
<1>4. Holds(ReplaceIn(str[o], Space, by), WithReplaced(text[o], Space, by))
  BY <1>1, <1>3, ReplaceIs
<1> QED BY <1>2, <1>4, BecomeKeeps

\* cut(sep, result).
LEMMA DividedKeeps ==
    ASSUME StringInv, NEW o \in Objects, NEW p \in Objects, Divided(o, p) PROVE StringInv'
<1> DEFINE i == Find(text[o], Space)
           v == IF i = 0 THEN <<>> ELSE SubSeq(text[o], i + 1, Len(text[o]))
           w == IF i = 0 THEN text[o] ELSE SubSeq(text[o], 1, i - 1)
<1>1. /\ Holds(str[o], text[o]) /\ Nul \notin ToSet(text[o]) /\ Holds(str[p], text[p])
  BY DEF StringInv, Divided, Plain
<1>2. Become2(o, CutOff(str[o], Space), v, p, CutTo(str[p], str[o], Space), w)
  BY DEF Divided
<1>3. Holds(CutOff(str[o], Space), v) /\ Holds(CutTo(str[p], str[o], Space), w)
  BY <1>1, DividedIs
<1> HIDE DEF v, w
<1> QED BY <1>2, <1>3, Become2Keeps

\* steal.
LEMMA GivenAwayKeeps ==
    ASSUME StringInv, NEW o \in Objects, NEW p \in Objects, GivenAway(o, p) PROVE StringInv'
<1>1. Holds(str[o], text[o]) /\ Holds(str[p], text[p])
  BY DEF StringInv
<1>2. Become2(o, Steal(str[o]), <<>>, p, Set(str[p], Stolen(str[o])), text[o])
  BY DEF GivenAway
<1>3. /\ Stolen(str[o]) = text[o] /\ text[o] \in Seq(Char) /\ Holds(Steal(str[o]), <<>>)
  BY <1>1, StealIs DEF Holds, Has
<1>4. Holds(Set(str[p], Stolen(str[o])), text[o])
  BY <1>1, <1>3, SetIs
<1> QED BY <1>2, <1>3, <1>4, Become2Keeps

\* At first each object is an empty string.
LEMMA StringsStart == StringInit => StringInv
<1> SUFFICES ASSUME StringInit PROVE StringInv
  OBVIOUS
<1>1. str = [o \in Objects |-> Empty] /\ text = [o \in Objects |-> <<>>]
  BY DEF StringInit
<1>2. \A o \in Objects : Holds(str[o], text[o])
  BY <1>1, EmptyIs
<1> QED BY <1>1, <1>2 DEF StringInv

\* No operation leaves a string that does not hold its text.
LEMMA StringsStep == StringInv /\ [StringNext]_stringVars => StringInv'
<1> SUFFICES ASSUME StringInv, [StringNext]_stringVars PROVE StringInv'
  OBVIOUS
<1>1. ASSUME NEW o \in Objects,
             \/ Make(o) \/ Replaced(o) \/ Extended(o) \/ Shortened(o) \/ Overwritten(o)
             \/ Trimmed(o) \/ Edited(o)
      PROVE  StringInv'
  BY <1>1, MakeKeeps, ReplacedKeeps, ExtendedKeeps, ShortenedKeeps, OverwrittenKeeps,
     TrimmedKeeps, EditedKeeps
<1>2. ASSUME NEW o \in Objects, NEW p \in Objects, Divided(o, p) \/ GivenAway(o, p)
      PROVE  StringInv'
  BY <1>2, DividedKeeps, GivenAwayKeeps
<1>3. CASE UNCHANGED stringVars
  BY <1>3 DEF StringInv, stringVars
<1> QED BY <1>1, <1>2, <1>3 DEF StringNext

\* A string that holds its text has it and a zero at the front of its array.
LEMMA TextsAreHeld == StringInv => HoldsText
<1> SUFFICES ASSUME StringInv, NEW o \in Objects
             PROVE  /\ str[o].m_length = Len(text[o])
                    /\ IsPrefix(Append(text[o], Nul), str[o].m_buffer)
                    /\ Len(str[o].m_buffer) = str[o].m_capacity + 1
  BY DEF HoldsText
<1> DEFINE s == str[o]
           t == text[o]
           b == s.m_buffer
           w == Append(t, Nul)
<1>1. Holds(s, t)
  BY DEF StringInv
<1> HIDE DEF s, t
<1>2. /\ s.m_length = Len(t) /\ Len(b) = s.m_capacity + 1 /\ Len(t) \in Nat
      /\ Len(t) <= s.m_capacity /\ s.m_capacity \in Nat /\ t \in Seq(Char) /\ b \in Seq(Cell)
  BY <1>1, HoldsFacts
<1>3. SubSeq(b, 1, Len(t) + 1) = w
  <2>1. 0 \in 0..Len(t)
    BY <1>2
  <2> QED BY <1>1, <2>1, FrontIs
<1>4. Len(w) = Len(t) + 1
  BY <1>2
<1>5. IsPrefix(w, b)
  <2>1. Len(w) <= Len(b)
    BY <1>2, <1>4
  <2>2. SubSeq(w, 1, Len(w)) = w
    BY <1>2, <1>4 DEF Char
  <2> HIDE DEF w, b
  <2> QED BY <1>3, <1>4, <2>1, <2>2 DEF IsPrefix
<1> QED BY <1>2, <1>5 DEF s, t

\* After any sequence of operations every string holds its text, within its array.
THEOREM StringsHoldText == StringSpec => []HoldsText
<1>1. StringSpec => []StringInv
  BY StringsStart, StringsStep, PTL DEF StringSpec
<1> QED BY <1>1, TextsAreHeld, PTL
=============================================================================
