---------------------------- MODULE ContainerProofs ----------------------------
(***************************************************************************)
(* Theorems of the containers: the queue with limits, for any size and any *)
(* limit of time; the hash table, for any keys, lengths and load factor;   *)
(* the expiring buffer, for any keys, limit and living time; and the list, *)
(* for any values and any memory for its entries.                          *)
(***************************************************************************)
EXTENDS TimeLimitFifo, HashTable, ExpireBuffer, LinkedList, FiniteSetTheorems, SequenceTheorems, TLAPS

-----------------------------------------------------------------------------
(* The queue with limits.                                                  *)

Message == [usage : Usages, mTime : 0..MaxClock]

\* The places of the external messages of a queue.
Outside(s) == {i \in DOMAIN s : s[i].usage # "internal"}

\* Every state is well typed, and the count that the limits are compared with is
\* that of the messages queued, through clear() too.
THEOREM TypeCorrect == LimitSpec => [](LimitTypeOK /\ count = Len(limited))
<1> DEFINE Inv == LimitTypeOK /\ count = Len(limited)
<1>1. LimitInit => Inv
  BY LimitAssumption DEF LimitInit, LimitTypeOK
<1>2. Inv /\ [LimitNext]_limitVars => Inv'
  <2> SUFFICES ASSUME Inv, [LimitNext]_limitVars PROVE Inv'
    OBVIOUS
  <2> USE DEF LimitTypeOK
  <2>1. ASSUME NEW usage \in Usages, AddLimited(usage) PROVE Inv'
    <3>1. CASE WouldAccept(usage)
      <4>1. limited' = Append(limited, [usage |-> usage, mTime |-> seconds])
        BY <2>1, <3>1 DEF AddLimited
      <4>2. [usage |-> usage, mTime |-> seconds] \in Message
        BY DEF Message
      <4>3. limited' \in Seq(Message) /\ Len(limited') = Len(limited) + 1
        BY <4>1, <4>2, AppendProperties DEF Message
      <4> QED BY <2>1, <3>1, <4>3 DEF AddLimited, Message
    <3>2. CASE ~WouldAccept(usage)
      BY <2>1, <3>2 DEF AddLimited
    <3> QED BY <3>1, <3>2
  <2>2. CASE NextLimited
    <3>1. limited' \in Seq(Message) /\ Len(limited') = Len(limited) - 1
      BY <2>2, HeadTailProperties DEF NextLimited, Message
    <3> QED BY <2>2, <3>1 DEF NextLimited, Message
  <2>3. CASE ClearLimited
    BY <2>3 DEF ClearLimited
  <2>4. CASE Second
    BY <2>4, LimitAssumption DEF Second
  <2>5. CASE UNCHANGED limitVars
    BY <2>5 DEF limitVars
  <2> QED BY <2>1, <2>2, <2>3, <2>4, <2>5 DEF LimitNext
<1> QED
  BY <1>1, <1>2, PTL DEF LimitSpec

\* The first n places.
LEMMA FirstPlaces ==
    ASSUME NEW n \in Nat
    PROVE  IsFiniteSet(1..n) /\ Cardinality(1..n) = n
<1>1. n \in Int /\ 1 \in Int
  OBVIOUS
<1>2. IsFiniteSet(1..n) /\ Cardinality(1..n) = IF 1 > n THEN 0 ELSE n - 1 + 1
  BY <1>1, FS_Interval
<1> QED
  BY <1>2

\* External messages are no more than there are messages.
LEMMA OutsideFinite ==
    ASSUME NEW s \in Seq(Message)
    PROVE  /\ IsFiniteSet(Outside(s)) /\ Cardinality(Outside(s)) \in Nat
           /\ Cardinality(Outside(s)) <= Len(s)
<1>1. Len(s) \in Nat /\ Outside(s) \in SUBSET (1..Len(s))
  BY DEF Outside
<1>2. IsFiniteSet(1..Len(s)) /\ Cardinality(1..Len(s)) = Len(s)
  BY <1>1, FirstPlaces
<1> QED
  BY <1>1, <1>2, FS_Subset, FS_CardinalityType

\* Appending an internal message, or taking the first, makes them no more.
LEMMA OutsideAppend ==
    ASSUME NEW s \in Seq(Message), NEW m \in Message, m.usage = "internal"
    PROVE  Outside(Append(s, m)) = Outside(s)
<1>1. /\ DOMAIN s = 1..Len(s) /\ DOMAIN Append(s, m) = 1..Len(s) + 1 /\ Len(s) \in Nat
      /\ \A i \in 1..Len(s) : Append(s, m)[i] = s[i]
      /\ Append(s, m)[Len(s) + 1] = m
  BY AppendProperties
<1> QED
  BY <1>1 DEF Outside

\* Taking the head leaves no more messages from outside.
LEMMA OutsideTail ==
    ASSUME NEW s \in Seq(Message), s # <<>>
    PROVE  Cardinality(Outside(Tail(s))) <= Cardinality(Outside(s))
<1> DEFINE t == Tail(s)
           f == [i \in Outside(t) |-> i + 1]
<1>1. /\ t \in Seq(Message) /\ Len(t) = Len(s) - 1 /\ Len(s) \in Nat
      /\ \A i \in 1..Len(t) : t[i] = s[i + 1]
  BY HeadTailProperties
<1>2. \A i \in Outside(t) : i \in Int /\ i + 1 \in Outside(s)
  BY <1>1 DEF Outside
<1>3. f \in [Outside(t) -> Outside(s)]
  BY <1>2
<1>4. \A i, j \in Outside(t) : f[i] = f[j] => i = j
  BY <1>2
<1>5. f \in Injection(Outside(t), Outside(s))
  BY <1>3, <1>4 DEF Injection, IsInjective
<1> QED
  BY <1>5, OutsideFinite, FS_Injection

\* The reserve is kept free, and a full queue that refuses an internal message has
\* at least so many internal ones.
ReserveInv == UnreservedMaxSize # 0 => /\ Cardinality(Outside(limited)) <= UnreservedMaxSize
                                       /\ refused = "internal" => count >= MaxSize

\* What outside messages may fill is a natural number, 0 when there is no room at all.
LEMMA UnreservedIsNatural == UnreservedMaxSize \in Nat /\ (MaxSize = 0 => UnreservedMaxSize = 0)
  BY LimitAssumption DEF UnreservedMaxSize

\* An empty queue holds none.
LEMMA EmptyOutside == Cardinality(Outside(<<>>)) = 0
<1>1. Outside(<<>>) = {}
  BY DEF Outside
<1> QED BY <1>1, FS_EmptySet

\* Every step keeps the invariant of the reserve.
LEMMA ReserveStep ==
    ASSUME LimitTypeOK, count = Len(limited), ReserveInv, [LimitNext]_limitVars,
           count' = Len(limited'), limited' \in Seq(Message)
    PROVE  ReserveInv'
<1> SUFFICES ASSUME UnreservedMaxSize # 0
             PROVE  /\ Cardinality(Outside(limited')) <= UnreservedMaxSize
                    /\ refused' = "internal" => count' >= MaxSize
  BY DEF ReserveInv, Outside, UnreservedMaxSize
<1>1. limited \in Seq(Message) /\ Cardinality(Outside(limited)) <= UnreservedMaxSize
  BY DEF LimitTypeOK, Message, ReserveInv
<1>2. /\ Cardinality(Outside(limited)) \in Nat /\ Cardinality(Outside(limited')) \in Nat
      /\ Cardinality(Outside(limited')) <= Len(limited')
  BY <1>1, OutsideFinite
<1>3. ASSUME NEW usage \in Usages, AddLimited(usage), WouldAccept(usage)
      PROVE  Cardinality(Outside(limited')) <= UnreservedMaxSize /\ refused' = "none"
  <2> DEFINE m == [usage |-> usage, mTime |-> seconds]
  <2>1. /\ limited' = Append(limited, m) /\ count' = count + 1 /\ refused' = "none"
        /\ m \in Message
    BY <1>3 DEF AddLimited, LimitTypeOK, Message
  <2>2. CASE usage = "internal"
    <3>1. Outside(limited') = Outside(limited)
      BY <1>1, <2>1, <2>2, OutsideAppend
    <3> QED BY <1>1, <2>1, <3>1
  <2>3. CASE usage # "internal"
    <3>1. count < UnreservedMaxSize
      BY <1>3, <2>3 DEF WouldAccept, WithinReserve
    <3>2. count' <= UnreservedMaxSize
      BY <2>1, <3>1, UnreservedIsNatural DEF LimitTypeOK
    <3> QED BY <1>2, <2>1, <3>2, UnreservedIsNatural DEF LimitTypeOK
  <2> QED BY <2>2, <2>3
<1>4. ASSUME NEW usage \in Usages, AddLimited(usage), ~WouldAccept(usage)
      PROVE  /\ UNCHANGED <<limited, count>>
             /\ refused' = "internal" => count >= MaxSize
  BY <1>4, UnreservedIsNatural, LimitAssumption DEF AddLimited, WouldAccept, LimitTypeOK
<1>5. CASE NextLimited
  <2>1. limited # <<>> /\ limited' = Tail(limited) /\ refused' = "none"
    BY <1>5 DEF NextLimited
  <2>2. Cardinality(Outside(limited')) <= Cardinality(Outside(limited))
    BY <1>1, <2>1, OutsideTail
  <2> QED BY <1>1, <1>2, <2>1, <2>2, UnreservedIsNatural
<1>6. CASE ClearLimited
  BY <1>6, EmptyOutside, UnreservedIsNatural DEF ClearLimited
<1>7. CASE Second
  BY <1>1, <1>7 DEF Second
<1>8. CASE UNCHANGED limitVars
  BY <1>1, <1>8 DEF limitVars, ReserveInv
<1> QED
  BY <1>1, <1>3, <1>4, <1>5, <1>6, <1>7, <1>8 DEF LimitNext

\* The invariant implies the property of the run.
LEMMA ReserveImplied ==
    ASSUME LimitTypeOK, count = Len(limited), ReserveInv
    PROVE  ReserveIsForInternal
<1> SUFFICES ASSUME UnreservedMaxSize # 0
             PROVE  /\ Cardinality(External) <= UnreservedMaxSize
                    /\ refused = "internal" =>
                           Cardinality(Internal) >= MaxSize - UnreservedMaxSize
  BY DEF ReserveIsForInternal
<1>1. limited \in Seq(Message)
  BY DEF LimitTypeOK, Message
<1>2. External = Outside(limited)
  BY DEF External, Internal, Outside
<1>3. /\ Internal = 1..count \ External /\ 1..count \cap External = External
  BY <1>1, <1>2 DEF External, Internal
<1>4. Cardinality(External) \in Nat /\ Cardinality(External) <= UnreservedMaxSize
  BY <1>1, <1>2, OutsideFinite DEF ReserveInv
<1>5. IsFiniteSet(1..count) /\ Cardinality(1..count) = count
  BY FirstPlaces DEF LimitTypeOK
<1>6. Cardinality(Internal) = count - Cardinality(External)
  <2>1. Cardinality(1..count \ External) = Cardinality(1..count) - Cardinality(1..count \cap External)
    BY <1>5, FS_Difference
  <2> QED BY <1>3, <1>5, <2>1
<1>7. refused = "internal" => count >= MaxSize
  BY DEF ReserveInv
<1> QED
  BY <1>4, <1>6, <1>7, UnreservedIsNatural, LimitAssumption DEF LimitTypeOK

\* External messages leave the reserve to internal ones, whatever the limits.
THEOREM ReserveKept == LimitSpec => []ReserveIsForInternal
<1>1. LimitInit => ReserveInv
  BY EmptyOutside, UnreservedIsNatural DEF LimitInit, ReserveInv
<1>2. LimitTypeOK /\ count = Len(limited) /\ ReserveInv /\ [LimitNext]_limitVars
        /\ (LimitTypeOK /\ count = Len(limited))' => ReserveInv'
  <2> SUFFICES ASSUME LimitTypeOK, count = Len(limited), ReserveInv, [LimitNext]_limitVars,
                      (LimitTypeOK /\ count = Len(limited))'
               PROVE  ReserveInv'
    OBVIOUS
  <2>1. limited' \in Seq(Message) /\ count' = Len(limited')
    BY DEF LimitTypeOK, Message
  <2> QED BY <2>1, ReserveStep
<1>3. LimitTypeOK /\ count = Len(limited) /\ ReserveInv => ReserveIsForInternal
  BY ReserveImplied
<1> QED
  BY TypeCorrect, <1>1, <1>2, <1>3, PTL DEF LimitSpec

-----------------------------------------------------------------------------
(* The hash table.                                                         *)
-----------------------------------------------------------------------------
\* Sequences without repetitions, and what taking an element out does to them.

\* The place of an element of such a sequence.
LEMMA PlaceIs ==
    ASSUME NEW S, NEW s \in Seq(S), IsInjective(s)
    PROVE  /\ \A i \in 1..Len(s) : Place(s, s[i]) = i
           /\ \A k \in ToSet(s) : Place(s, k) \in 1..Len(s) /\ s[Place(s, k)] = k
  BY DEF Place, ToSet, IsInjective

\* A key taken out of a sequence: those behind it move up by one place.
LEMMA WithoutKeyIs ==
    ASSUME NEW S, NEW s \in Seq(S), IsInjective(s), NEW e \in ToSet(s)
    PROVE  /\ WithoutKey(s, e) \in Seq(S)
           /\ Len(WithoutKey(s, e)) = Len(s) - 1
           /\ \A i \in 1..Len(s) - 1 :
                 WithoutKey(s, e)[i] = IF i < Place(s, e) THEN s[i] ELSE s[i + 1]
           /\ IsInjective(WithoutKey(s, e))
           /\ ToSet(WithoutKey(s, e)) = ToSet(s) \ {e}
<1> DEFINE k == Place(s, e)
           w == WithoutKey(s, e)
<1>1. k \in 1..Len(s) /\ s[k] = e /\ Len(s) \in Nat /\ DOMAIN s = 1..Len(s)
  BY PlaceIs
<1> HIDE DEF k
<1>2. w = SubSeq(s, 1, k - 1) \o SubSeq(s, k + 1, Len(s))
  BY DEF WithoutKey, RemoveAt, k
<1>3. /\ SubSeq(s, 1, k - 1) \in Seq(S)
      /\ Len(SubSeq(s, 1, k - 1)) = k - 1
      /\ \A j \in 1..k - 1 : SubSeq(s, 1, k - 1)[j] = s[j]
  BY <1>1, SubSeqProperties
<1>4. /\ SubSeq(s, k + 1, Len(s)) \in Seq(S)
      /\ Len(SubSeq(s, k + 1, Len(s))) = Len(s) - k
      /\ \A j \in 1..Len(s) - k : SubSeq(s, k + 1, Len(s))[j] = s[k + j]
  <2>1. k + 1 \in Int /\ Len(s) \in Int /\ \A j \in k + 1..Len(s) : s[j] \in S
    BY <1>1
  <2>2. /\ SubSeq(s, k + 1, Len(s)) \in Seq(S)
        /\ Len(SubSeq(s, k + 1, Len(s)))
              = IF k + 1 <= Len(s) THEN Len(s) - (k + 1) + 1 ELSE 0
        /\ \A j \in 1..Len(s) - (k + 1) + 1 :
              SubSeq(s, k + 1, Len(s))[j] = s[k + 1 + j - 1]
    BY <2>1, SubSeqProperties
  <2>3. ASSUME NEW j \in 1..Len(s) - k PROVE SubSeq(s, k + 1, Len(s))[j] = s[k + j]
    <3>1. j \in 1..Len(s) - (k + 1) + 1 /\ k + 1 + j - 1 = k + j
      BY <1>1
    <3> HIDE <1>1
    <3> QED BY <2>2, <3>1
  <2>4. (IF k + 1 <= Len(s) THEN Len(s) - (k + 1) + 1 ELSE 0) = Len(s) - k
    <3>1. k \in Int /\ Len(s) \in Int /\ k <= Len(s)
      BY <1>1
    <3>2. \A x, y \in Int : x <= y => (IF x + 1 <= y THEN y - (x + 1) + 1 ELSE 0) = y - x
      OBVIOUS
    <3> QED BY <3>1, <3>2, Zenon
  <2>5. Len(SubSeq(s, k + 1, Len(s))) = Len(s) - k
    BY <2>2, <2>4
  <2> QED BY <2>2, <2>3, <2>5
<1> DEFINE a == SubSeq(s, 1, k - 1)
           b == SubSeq(s, k + 1, Len(s))
<1>5. /\ w \in Seq(S) /\ Len(w) = Len(s) - 1
      /\ DOMAIN w = 1..Len(s) - 1
      /\ \A j \in 1..Len(s) - 1 : w[j] = IF j < k THEN s[j] ELSE s[j + 1]
  <2>1. a \in Seq(S) /\ b \in Seq(S) /\ w = a \o b
        /\ Len(a) = k - 1 /\ Len(b) = Len(s) - k
        /\ (\A j \in 1..k - 1 : a[j] = s[j])
        /\ (\A j \in 1..Len(s) - k : b[j] = s[k + j])
    BY <1>2, <1>3, <1>4
  <2> HIDE DEF a, b, w
  <2>2. /\ w \in Seq(S) /\ Len(w) = Len(a) + Len(b)
        /\ \A j \in 1..Len(a) + Len(b) : w[j] = IF j <= Len(a) THEN a[j] ELSE b[j - Len(a)]
    BY <2>1, ConcatProperties
  <2>3. Len(a) + Len(b) = Len(s) - 1
    BY <1>1, <2>1
  <2>4. DOMAIN w = 1..Len(s) - 1
    BY <2>2, <2>3
  <2>5. ASSUME NEW j \in 1..Len(s) - 1 PROVE w[j] = IF j < k THEN s[j] ELSE s[j + 1]
    <3>1. CASE j < k
      BY <1>1, <2>1, <2>2, <2>3, <3>1
    <3>2. CASE j >= k
      <4>1. w[j] = b[j - Len(a)] /\ j - Len(a) \in 1..Len(s) - k
        BY <1>1, <2>1, <2>2, <2>3, <3>2
      <4>2. k + (j - Len(a)) = j + 1
        BY <1>1, <2>1
      <4>3. b[j - Len(a)] = s[k + (j - Len(a))]
        BY <2>1, <4>1
      <4> QED BY <1>1, <3>2, <4>1, <4>2, <4>3
    <3> QED BY <1>1, <3>1, <3>2
  <2> QED BY <2>2, <2>3, <2>4, <2>5
<1> HIDE DEF w
<1>6. IsInjective(w)
  <2>1. \A x, y \in 1..Len(s) : s[x] = s[y] => x = y
    BY <1>1 DEF IsInjective
  <2>2. ASSUME NEW x \in 1..Len(s) - 1, NEW y \in 1..Len(s) - 1, w[x] = w[y]
        PROVE  x = y
    <3>1. (IF x < k THEN x ELSE x + 1) \in 1..Len(s) /\ (IF y < k THEN y ELSE y + 1) \in 1..Len(s)
      BY <1>1
    <3>2. s[IF x < k THEN x ELSE x + 1] = s[IF y < k THEN y ELSE y + 1]
      BY <1>5, <2>2
    <3>3. (IF x < k THEN x ELSE x + 1) = (IF y < k THEN y ELSE y + 1)
      BY <2>1, <3>1, <3>2
    <3> QED BY <1>1, <3>3
  <2> QED BY <1>5, <2>2 DEF IsInjective
<1>7. \A x : x \in ToSet(w) <=> x \in ToSet(s) \ {e}
  <2> TAKE x
  <2>1. ASSUME NEW j \in 1..Len(s) - 1, x = w[j] PROVE x \in ToSet(s) \ {e}
    <3> DEFINE i == IF j < k THEN j ELSE j + 1
    <3>1. i \in 1..Len(s) /\ i # k
      BY <1>1
    <3>2. x = s[i]
      BY <1>5, <2>1
    <3> HIDE DEF i
    <3>3. s[i] \in ToSet(s) /\ s[i] # s[k]
      BY <1>1, <3>1 DEF ToSet, IsInjective
    <3> QED BY <1>1, <3>2, <3>3
  <2>2. ASSUME NEW j \in 1..Len(s), x = s[j], x # e PROVE x \in ToSet(w)
    <3>1. CASE j < k
      BY <1>1, <1>5, <2>2, <3>1 DEF ToSet
    <3>2. CASE j > k
      <4>1. j - 1 \in 1..Len(s) - 1 /\ w[j - 1] = s[j]
        BY <1>1, <1>5, <3>2
      <4> QED BY <1>5, <2>2, <4>1 DEF ToSet
    <3> QED BY <1>1, <2>2, <3>1, <3>2
  <2> QED BY <1>1, <1>5, <2>1, <2>2 DEF ToSet
<1> QED
  BY <1>5, <1>6, <1>7 DEF w, k


\* What comes behind an element.
LEMMA BehindIs ==
    ASSUME NEW S, NEW s \in Seq(S), IsInjective(s), NEW k \in ToSet(s)
    PROVE  /\ Behind(s, k) \subseteq ToSet(s) /\ k \notin Behind(s, k)
           /\ \A l \in ToSet(s) : l \in Behind(s, k) <=> Place(s, l) > Place(s, k)
           /\ Place(s, k) = Len(s) => Behind(s, k) = {}
           /\ Place(s, k) < Len(s) => LET n == s[Place(s, k) + 1] IN
                 n \in ToSet(s) /\ Behind(s, k) = {n} \cup Behind(s, n)
<1>1. /\ Place(s, k) \in 1..Len(s) /\ s[Place(s, k)] = k
      /\ DOMAIN s = 1..Len(s) /\ Len(s) \in Nat
      /\ \A l \in ToSet(s) : Place(s, l) \in 1..Len(s) /\ s[Place(s, l)] = l
      /\ \A i \in 1..Len(s) : Place(s, s[i]) = i
  BY PlaceIs
<1>2. \A l : l \in ToSet(s) <=> \E i \in 1..Len(s) : l = s[i]
  BY <1>1 DEF ToSet
<1>3. Behind(s, k) \subseteq ToSet(s)
  BY <1>1, <1>2 DEF Behind
<1>4. \A l \in ToSet(s) : l \in Behind(s, k) <=> Place(s, l) > Place(s, k)
  BY <1>1 DEF Behind
<1>5. k \notin Behind(s, k)
  BY <1>1, <1>4
<1>6. Place(s, k) = Len(s) => Behind(s, k) = {}
  BY <1>1 DEF Behind
<1>7. ASSUME Place(s, k) < Len(s)
      PROVE  LET n == s[Place(s, k) + 1] IN
             n \in ToSet(s) /\ Behind(s, k) = {n} \cup Behind(s, n)
  <2> DEFINE n == s[Place(s, k) + 1]
  <2>1. Place(s, k) + 1 \in 1..Len(s)
    BY <1>1, <1>7
  <2>2. n \in ToSet(s) /\ Place(s, n) = Place(s, k) + 1
    BY <1>1, <1>2, <2>1
  <2>3. \A i \in Int : i \in Place(s, k) + 1..Len(s)
                         <=> i = Place(s, k) + 1 \/ i \in Place(s, k) + 1 + 1..Len(s)
    BY <1>1, <2>1
  <2>4. Behind(s, k) = {n} \cup Behind(s, n)
    BY <1>1, <2>1, <2>2, <2>3 DEF Behind
  <2> QED BY <2>2, <2>4
<1> QED BY <1>3, <1>4, <1>5, <1>6, <1>7

\* The first element and what comes behind it are all.
LEMMA BehindFirst ==
    ASSUME NEW S, NEW s \in Seq(S), IsInjective(s), s # <<>>
    PROVE  Head(s) \in ToSet(s) /\ ToSet(s) = {Head(s)} \cup Behind(s, Head(s))
<1>1. 1 \in 1..Len(s) /\ Head(s) = s[1] /\ DOMAIN s = 1..Len(s) /\ Len(s) \in Nat
  BY EmptySeq
<1>2. Place(s, Head(s)) = 1
  BY <1>1, PlaceIs
<1>3. \A l : l \in ToSet(s) <=> \E i \in 1..Len(s) : l = s[i]
  BY <1>1 DEF ToSet
<1>4. \A i \in Int : i \in 1..Len(s) <=> i = 1 \/ i \in 1 + 1..Len(s)
  BY <1>1
<1> QED BY <1>1, <1>2, <1>3, <1>4 DEF Behind

\* What comes behind an element when another has been taken out.
LEMMA BehindWithout ==
    ASSUME NEW S, NEW s \in Seq(S), IsInjective(s), NEW e \in ToSet(s), NEW k \in ToSet(s), k # e
    PROVE  Behind(WithoutKey(s, e), k) = Behind(s, k) \ {e}
<1> DEFINE w == WithoutKey(s, e)
           new(l) == IF Place(s, l) < Place(s, e) THEN Place(s, l) ELSE Place(s, l) - 1
<1>1. /\ Place(s, e) \in 1..Len(s) /\ DOMAIN s = 1..Len(s) /\ Len(s) \in Nat
      /\ \A l \in ToSet(s) : Place(s, l) \in 1..Len(s) /\ s[Place(s, l)] = l
      /\ s[Place(s, e)] = e
  BY PlaceIs
<1>2. /\ w \in Seq(S) /\ IsInjective(w) /\ ToSet(w) = ToSet(s) \ {e} /\ Len(w) = Len(s) - 1
      /\ \A i \in 1..Len(s) - 1 : w[i] = IF i < Place(s, e) THEN s[i] ELSE s[i + 1]
  BY WithoutKeyIs
<1> HIDE DEF w
<1>3. \A l \in ToSet(w) : Place(w, l) = new(l)
  <2> SUFFICES ASSUME NEW l \in ToSet(w) PROVE Place(w, l) = new(l)
    OBVIOUS
  <2>1. l \in ToSet(s) /\ Place(s, l) # Place(s, e)
    BY <1>1, <1>2
  <2>2. new(l) \in 1..Len(w) /\ w[new(l)] = l
    BY <1>1, <1>2, <2>1
  <2> QED BY <1>2, <2>2, PlaceIs
<1>4. \A l \in ToSet(w) : new(l) > new(k) <=> Place(s, l) > Place(s, k)
  <2> SUFFICES ASSUME NEW l \in ToSet(w) PROVE new(l) > new(k) <=> Place(s, l) > Place(s, k)
    OBVIOUS
  <2>1. Place(s, l) # Place(s, e) /\ Place(s, k) # Place(s, e) /\ l \in ToSet(s)
    BY <1>1, <1>2
  <2>2. Place(s, l) \in Int /\ Place(s, k) \in Int /\ Place(s, e) \in Int
    BY <1>1, <2>1
  <2> QED BY <2>1, <2>2
<1>5. k \in ToSet(w)
  BY <1>2
<1>6. Behind(w, k) \subseteq ToSet(w) /\ \A l \in ToSet(w) : l \in Behind(w, k) <=> new(l) > new(k)
  BY <1>2, <1>3, <1>5, BehindIs
<1>7. Behind(s, k) \subseteq ToSet(s) /\ \A l \in ToSet(s) : l \in Behind(s, k) <=> Place(s, l) > Place(s, k)
  BY BehindIs
<1> HIDE DEF new
<1>8. Behind(w, k) = Behind(s, k) \ {e}
  BY <1>2, <1>4, <1>6, <1>7
<1> QED BY <1>8 DEF w

-----------------------------------------------------------------------------
\* A set in a strict order: d[k] are the elements on one side of k.
Ordered(A, d) == /\ \A k \in A : d[k] \subseteq A /\ k \notin d[k]
                 /\ \A k, l \in A : k # l => l \in d[k] \/ k \in d[l]
                 /\ \A k, l \in A : l \in d[k] => d[l] \subseteq d[k]

\* Each element of such a set, when it is finite, has a number of its own on that
\* side of it, from 0 on.
LEMMA Ranks ==
    ASSUME NEW A, NEW d, IsFiniteSet(A), Ordered(A, d)
    PROVE  /\ Cardinality(A) \in Nat
           /\ \A k \in A : Cardinality(d[k]) \in 0..Cardinality(A) - 1
           /\ \A k, l \in A : Cardinality(d[k]) = Cardinality(d[l]) => k = l
           /\ \A p \in 0..Cardinality(A) - 1 : \E k \in A : Cardinality(d[k]) = p
<1> USE DEF Ordered
<1> DEFINE N == Cardinality(A)
           f == [k \in A |-> Cardinality(d[k])]
<1>1. N \in Nat
  BY FS_CardinalityType
<1>2. ASSUME NEW k \in A PROVE IsFiniteSet(d[k]) /\ Cardinality(d[k]) \in 0..N - 1
  <2>1. /\ IsFiniteSet(d[k]) /\ Cardinality(d[k]) <= N /\ Cardinality(d[k]) \in Nat
        /\ (Cardinality(d[k]) = N => d[k] = A)
    BY FS_Subset, FS_CardinalityType
  <2>2. Cardinality(d[k]) # N
    BY <2>1
  <2> QED BY <1>1, <2>1, <2>2
<1>3. ASSUME NEW k \in A, NEW l \in A, l \in d[k] PROVE Cardinality(d[l]) # Cardinality(d[k])
  <2>1. d[l] \subseteq d[k] /\ l \notin d[l]
    BY <1>3
  <2> QED BY <1>2, <1>3, <2>1, FS_Subset
<1>4. ASSUME NEW k \in A, NEW l \in A, Cardinality(d[k]) = Cardinality(d[l]) PROVE k = l
  BY <1>3, <1>4
<1>5. f \in Injection(A, 0..N - 1)
  BY <1>2, <1>4 DEF Injection, IsInjective
<1>6. IsFiniteSet(0..N - 1) /\ Cardinality(0..N - 1) = N
  BY <1>1, FS_Interval
<1>7. f \in Surjection(A, 0..N - 1)
  BY <1>5, <1>6, FS_Injection
<1>8. \A p \in 0..N - 1 : \E k \in A : Cardinality(d[k]) = p
  BY <1>7 DEF Surjection
<1> QED BY <1>1, <1>2, <1>4, <1>8

\* So that one of them has none.
LEMMA Least ==
    ASSUME NEW A, NEW d, IsFiniteSet(A), A # {}, Ordered(A, d)
    PROVE  \E k \in A : d[k] = {}
<1>1. Cardinality(A) \in Nat /\ Cardinality(A) # 0
  BY FS_EmptySet, FS_CardinalityType
<1>2. \A p \in 0..Cardinality(A) - 1 : \E k \in A : Cardinality(d[k]) = p
  BY Ranks
<1>3. PICK k \in A : Cardinality(d[k]) = 0
  BY <1>1, <1>2
<1>4. IsFiniteSet(d[k])
  BY FS_Subset DEF Ordered
<1> QED BY <1>3, <1>4, FS_EmptySet

\* The first of some places.
LEMMA FirstOfPlaces ==
    ASSUME NEW n \in Nat, NEW L, L \subseteq 0..n, L # {}
    PROVE  \E i \in L : \A j \in L : i <= j
<1>1. L \subseteq Int
  OBVIOUS
<1>2. IsFiniteSet(L)
  <2>1. IsFiniteSet(0..n)
    BY FS_Interval
  <2> QED BY <2>1, FS_Subset
<1>3. PICK d : d = [i \in L |-> {j \in L : j < i}]
  OBVIOUS
<1>4. Ordered(L, d)
  <2>1. \A k \in L : d[k] \subseteq L /\ k \notin d[k]
    BY <1>1, <1>3
  <2>2. \A k, l \in L : k # l => l \in d[k] \/ k \in d[l]
    BY <1>1, <1>3
  <2>3. ASSUME NEW k \in L, NEW l \in L, l \in d[k], NEW j \in d[l] PROVE j \in d[k]
    <3>1. j \in L /\ j < l /\ l < k
      BY <1>3, <2>3
    <3> QED BY <1>1, <1>3, <3>1
  <2> QED BY <2>1, <2>2, <2>3 DEF Ordered
<1>5. PICK i \in L : d[i] = {}
  BY <1>2, <1>4, Least
<1> QED BY <1>1, <1>3, <1>5
-----------------------------------------------------------------------------
\* The chains of a table hold the keys in S, each where its hash code belongs.
Chains(t, S) ==
    /\ t.m_tableLength \in Nat \ {0}
    /\ DOMAIN t.m_table = 0..t.m_tableLength - 1
    /\ \A i \in DOMAIN t.m_table :
          /\ t.m_table[i] \in Seq(HashKeys) /\ IsInjective(t.m_table[i])
          /\ ToSet(t.m_table[i]) = {k \in S : Index(t, k) = i}

\* Every key has a place in the table, and is found there if it is in it.
LEMMA KeysAre ==
    ASSUME NEW t, NEW S, S \subseteq HashKeys, Chains(t, S)
    PROVE  /\ \A k \in HashKeys : Index(t, k) \in DOMAIN t.m_table
           /\ \A k \in HashKeys : ContainsKey(t, k) <=> k \in S
           /\ KeysOf(t) = S
<1>1. \A k \in HashKeys : Index(t, k) \in DOMAIN t.m_table
  BY HashAssumption DEF Chains, Index
<1>2. \A k \in HashKeys : ContainsKey(t, k) <=> k \in S
  BY <1>1 DEF Chains, ContainsKey
<1>3. \A k : k \in KeysOf(t) <=> k \in S
  BY <1>1 DEF Chains, KeysOf
<1> QED BY <1>1, <1>2, <1>3

\* Where the chains are the same, so is what is read from them.
LEMMA SameChains ==
    ASSUME NEW t, NEW u, u.m_table = t.m_table, u.m_tableLength = t.m_tableLength
    PROVE  /\ \A S : Chains(u, S) <=> Chains(t, S)
           /\ KeysOf(u) = KeysOf(t)
           /\ \A k : Index(u, k) = Index(t, k) /\ Beyond(u, k) = Beyond(t, k)
<1>1. \A k : Index(u, k) = Index(t, k)
  BY DEF Index
<1>2. KeysOf(u) = KeysOf(t)
  BY DEF KeysOf
<1>3. \A S : Chains(u, S) <=> Chains(t, S)
  BY <1>1 DEF Chains
<1>4. \A k : Beyond(u, k) = Beyond(t, k)
  BY <1>1, <1>2 DEF Beyond
<1> QED BY <1>1, <1>2, <1>3, <1>4

\* What is beyond a key, told by the chains.
LEMMA BeyondIs ==
    ASSUME NEW t, NEW S, S \subseteq HashKeys, Chains(t, S), NEW k \in S
    PROVE  LET chain == t.m_table[Index(t, k)] IN
           /\ chain \in Seq(HashKeys) /\ IsInjective(chain) /\ k \in ToSet(chain)
           /\ Index(t, k) \in DOMAIN t.m_table /\ Index(t, k) \in Int
           /\ \A l \in S : Index(t, l) \in Int
           /\ \A l : l \in Beyond(t, k) <=> /\ l \in S
                                            /\ \/ Index(t, l) > Index(t, k)
                                               \/ Index(t, l) = Index(t, k) /\ l \in Behind(chain, k)
<1> DEFINE chain == t.m_table[Index(t, k)]
<1>1. /\ k \in HashKeys /\ Index(t, k) \in DOMAIN t.m_table
      /\ \A l \in S : Index(t, l) \in Int
  <2>1. \A l \in HashKeys : Index(t, l) \in DOMAIN t.m_table
    BY KeysAre
  <2>2. \A i \in DOMAIN t.m_table : i \in Int
    BY DEF Chains
  <2> QED BY <2>1, <2>2
<1>2. /\ chain \in Seq(HashKeys) /\ IsInjective(chain)
      /\ ToSet(chain) = {l \in S : Index(t, l) = Index(t, k)}
  BY <1>1 DEF Chains
<1>3. k \in ToSet(chain)
  BY <1>2
<1>4. Behind(chain, k) \subseteq ToSet(chain)
  BY <1>2, <1>3, BehindIs
<1>5. \A l : l \in Beyond(t, k) <=> l \in Behind(chain, k) \/ (l \in S /\ Index(t, l) > Index(t, k))
  BY KeysAre DEF Beyond
<1> QED BY <1>1, <1>2, <1>3, <1>4, <1>5

\* The keys of a table are in a strict order, the one in which it is walked.
LEMMA BeyondOrders ==
    ASSUME NEW t, NEW S, S \subseteq HashKeys, Chains(t, S)
    PROVE  Ordered(S, [k \in S |-> Beyond(t, k)])
<1> DEFINE chain(k) == t.m_table[Index(t, k)]
           at(k) == Place(chain(k), k)
<1>1. ASSUME NEW k \in S
      PROVE  /\ Index(t, k) \in Int /\ at(k) \in Int
             /\ \A l \in S : l \in Beyond(t, k) <=>
                    \/ Index(t, l) > Index(t, k)
                    \/ Index(t, l) = Index(t, k) /\ at(l) > at(k)
             /\ Beyond(t, k) \subseteq S
  <2>1. /\ chain(k) \in Seq(HashKeys) /\ IsInjective(chain(k)) /\ k \in ToSet(chain(k))
        /\ Index(t, k) \in Int
        /\ \A l : l \in Beyond(t, k) <=> /\ l \in S
                                         /\ \/ Index(t, l) > Index(t, k)
                                            \/ Index(t, l) = Index(t, k) /\ l \in Behind(chain(k), k)
    BY BeyondIs
  <2>2. at(k) \in Int
    BY <2>1, PlaceIs
  <2>3. ASSUME NEW l \in S, Index(t, l) = Index(t, k)
        PROVE  l \in Behind(chain(k), k) <=> at(l) > at(k)
    <3>1. l \in ToSet(chain(k)) /\ chain(l) = chain(k)
      BY <2>3, BeyondIs
    <3> QED BY <2>1, <3>1, BehindIs
  <2> QED BY <2>1, <2>2, <2>3
<1>2. \A k, l \in S : Index(t, l) = Index(t, k) /\ at(l) = at(k) => k = l
  <2> SUFFICES ASSUME NEW k \in S, NEW l \in S, Index(t, l) = Index(t, k), at(l) = at(k) PROVE k = l
    OBVIOUS
  <2>1. /\ chain(k) \in Seq(HashKeys) /\ IsInjective(chain(k)) /\ k \in ToSet(chain(k))
        /\ l \in ToSet(chain(k)) /\ chain(l) = chain(k)
    BY BeyondIs
  <2> QED BY <2>1, PlaceIs
<1> HIDE DEF at, chain
<1>3. \A k \in S : Beyond(t, k) \subseteq S /\ k \notin Beyond(t, k)
  BY <1>1
<1>4. \A k, l \in S : k # l => l \in Beyond(t, k) \/ k \in Beyond(t, l)
  BY <1>1, <1>2
<1>5. ASSUME NEW k \in S, NEW l \in S, l \in Beyond(t, k), NEW m \in Beyond(t, l) PROVE m \in Beyond(t, k)
  BY <1>1, <1>5
<1> QED BY <1>3, <1>4, <1>5 DEF Ordered

-----------------------------------------------------------------------------
\* Where a walk stands and what it owes: the entry at the cursor and all beyond it.
Walking(t, rest) ==
    IF t.m_pcurEntry = NoEntry THEN rest = {} /\ t.m_uicurIndex = 0
    ELSE /\ t.m_pcurEntry \in KeysOf(t)
         /\ t.m_uicurIndex = Index(t, t.m_pcurEntry)
         /\ rest = {t.m_pcurEntry} \cup Beyond(t, t.m_pcurEntry)

\* A table is the record of its fields.
Fields == {"m_table", "m_tableLength", "m_entryCount", "m_pcurEntry", "m_uicurIndex",
           "s_prev", "s_next", "seqHead", "seqTail", "seqCur"}
Record(t) == DOMAIN t = Fields /\ t = [f \in Fields |-> t[f]]
SameBut(t, u, changed) == \A f \in Fields \ changed : u[f] = t[f]

\* A cursor that has been put at an entry of the same chains.
LEMMA Standing ==
    ASSUME NEW t, NEW u, SameBut(t, u, {"m_pcurEntry", "m_uicurIndex"}),
           NEW S, S \subseteq HashKeys, Chains(t, S), u.m_pcurEntry \in S,
           u.m_uicurIndex = Index(t, u.m_pcurEntry)
    PROVE  Walking(u, {u.m_pcurEntry} \cup Beyond(t, u.m_pcurEntry))
<1>1. u.m_table = t.m_table /\ u.m_tableLength = t.m_tableLength
  BY DEF SameBut, Fields
<1>2. KeysOf(u) = S
  BY <1>1, SameChains, KeysAre
<1>3. u.m_pcurEntry # NoEntry
  BY HashAssumption
<1> QED BY <1>1, <1>2, <1>3, SameChains DEF Walking

\* A walk that begins with a chain owes that and the later ones.
LEMMA ChainBegins ==
    ASSUME NEW t, NEW S, S \subseteq HashKeys, Chains(t, S),
           NEW i \in DOMAIN t.m_table, t.m_table[i] # <<>>
    PROVE  LET n == Head(t.m_table[i]) IN
           /\ n \in S /\ Index(t, n) = i
           /\ {n} \cup Beyond(t, n) = {l \in S : Index(t, l) >= i}
<1> DEFINE chain == t.m_table[i]
           n == Head(chain)
<1>1. /\ chain \in Seq(HashKeys) /\ IsInjective(chain)
      /\ ToSet(chain) = {k \in S : Index(t, k) = i} /\ i \in Int
  BY DEF Chains
<1>2. n \in ToSet(chain) /\ ToSet(chain) = {n} \cup Behind(chain, n)
  BY <1>1, BehindFirst
<1>3. n \in S /\ Index(t, n) = i
  BY <1>1, <1>2
<1>4. /\ \A l \in S : Index(t, l) \in Int
      /\ \A l : l \in Beyond(t, n) <=> /\ l \in S
                                       /\ \/ Index(t, l) > i
                                          \/ Index(t, l) = i /\ l \in Behind(chain, n)
  BY <1>3, BeyondIs
<1> HIDE DEF chain, n
<1>5. \A l : l \in {n} \cup Beyond(t, n) <=> l \in S /\ Index(t, l) >= i
  BY <1>1, <1>2, <1>3, <1>4
<1> QED BY <1>3, <1>5 DEF n, chain

\* SearchNextEntry(): the walk owes what it owed but for the entry it stood at.
LEMMA SearchNextWalks ==
    ASSUME NEW t, NEW S, S \subseteq HashKeys, Chains(t, S), Record(t),
           NEW rest, Walking(t, rest), t.m_pcurEntry # NoEntry
    PROVE  LET u == SearchNextEntry(t) IN
           /\ Record(u) /\ SameBut(t, u, {"m_pcurEntry", "m_uicurIndex"})
           /\ Walking(u, rest \ {t.m_pcurEntry})
<1> DEFINE c == t.m_pcurEntry
           i == t.m_uicurIndex
           chain == t.m_table[i]
           place == Place(chain, c)
           later == {j \in i + 1..t.m_tableLength - 1 : t.m_table[j] # <<>>}
           first == CHOOSE j \in later : \A k \in later : j <= k
           u == SearchNextEntry(t)
<1>1. c \in S /\ i = Index(t, c) /\ rest = {c} \cup Beyond(t, c)
  BY KeysAre DEF Walking
<1>2. /\ chain \in Seq(HashKeys) /\ IsInjective(chain) /\ c \in ToSet(chain)
      /\ i \in DOMAIN t.m_table /\ i \in Int
      /\ \A l \in S : Index(t, l) \in Int
      /\ \A l : l \in Beyond(t, c) <=> /\ l \in S
                                       /\ \/ Index(t, l) > i
                                          \/ Index(t, l) = i /\ l \in Behind(chain, c)
  BY <1>1, BeyondIs
<1>3. rest \ {c} = Beyond(t, c)
  BY <1>1, <1>2, BehindIs
<1>4. place \in 1..Len(chain) /\ Len(chain) \in Nat
  BY <1>2, PlaceIs
<1>5. /\ t.m_tableLength \in Nat \ {0} /\ DOMAIN t.m_table = 0..t.m_tableLength - 1
      /\ \A j \in DOMAIN t.m_table : ToSet(t.m_table[j]) = {k \in S : Index(t, k) = j}
  BY DEF Chains
<1>6. CASE place < Len(chain)
  <2>1. u = [t EXCEPT !.m_pcurEntry = chain[place + 1]]
    BY <1>6 DEF SearchNextEntry
  <2>2. /\ Record(u) /\ SameBut(t, u, {"m_pcurEntry", "m_uicurIndex"})
        /\ u.m_pcurEntry = chain[place + 1] /\ u.m_uicurIndex = i
    BY <2>1 DEF Record, SameBut, Fields
  <2> DEFINE n == chain[place + 1]
  <2>3. n \in ToSet(chain) /\ Behind(chain, c) = {n} \cup Behind(chain, n)
    BY <1>2, <1>6, BehindIs
  <2>4. n \in S /\ Index(t, n) = i
    BY <1>2, <1>5, <2>3
  <2>5. \A l : l \in Beyond(t, n) <=> /\ l \in S
                                      /\ \/ Index(t, l) > i
                                         \/ Index(t, l) = i /\ l \in Behind(chain, n)
    BY <2>4, BeyondIs
  <2>6. Beyond(t, c) = {n} \cup Beyond(t, n)
    BY <1>2, <2>3, <2>4, <2>5
  <2> QED BY <1>3, <2>2, <2>4, <2>6, Standing
<1>7. CASE place = Len(chain) /\ later # {}
  <2>1. PICK j \in later : \A k \in later : j <= k
    <3>1. later \subseteq 0..t.m_tableLength /\ t.m_tableLength \in Nat
      BY <1>2, <1>5
    <3> HIDE DEF later
    <3> QED BY <1>7, <3>1, FirstOfPlaces
  <2>2. first \in later /\ \A k \in later : first <= k
    BY <2>1
  <2>3. u = [t EXCEPT !.m_pcurEntry = Head(t.m_table[first]), !.m_uicurIndex = first]
    BY <1>4, <1>7 DEF SearchNextEntry
  <2> HIDE DEF first
  <2> DEFINE n == Head(t.m_table[first])
  <2>4. /\ Record(u) /\ SameBut(t, u, {"m_pcurEntry", "m_uicurIndex"})
        /\ u.m_pcurEntry = n /\ u.m_uicurIndex = first
    BY <2>3 DEF Record, SameBut, Fields
  <2>5. first \in DOMAIN t.m_table /\ t.m_table[first] # <<>> /\ first > i /\ first \in Int
    BY <1>2, <1>5, <2>2
  <2>6. n \in S /\ Index(t, n) = first /\ {n} \cup Beyond(t, n) = {l \in S : Index(t, l) >= first}
    BY <2>5, ChainBegins
  <2>7. Behind(chain, c) = {}
    BY <1>2, <1>7, BehindIs
  <2>8. ASSUME NEW l \in S, Index(t, l) > i PROVE Index(t, l) >= first
    <3>1. Index(t, l) \in DOMAIN t.m_table /\ Index(t, l) \in i + 1..t.m_tableLength - 1
      BY <1>2, <1>5, <2>8, KeysAre
    <3>2. l \in ToSet(t.m_table[Index(t, l)])
      BY <1>5, <3>1
    <3>3. t.m_table[Index(t, l)] # <<>>
      BY <3>2 DEF ToSet
    <3> QED BY <2>2, <3>1, <3>3
  <2>9. Beyond(t, c) = {n} \cup Beyond(t, n)
    BY <1>2, <2>5, <2>6, <2>7, <2>8
  <2> QED BY <1>3, <2>4, <2>6, <2>9, Standing
<1>8. CASE place = Len(chain) /\ later = {}
  <2>1. u = [t EXCEPT !.m_pcurEntry = NoEntry, !.m_uicurIndex = 0]
    BY <1>4, <1>8 DEF SearchNextEntry
  <2>2. /\ Record(u) /\ SameBut(t, u, {"m_pcurEntry", "m_uicurIndex"})
        /\ u.m_pcurEntry = NoEntry /\ u.m_uicurIndex = 0
    BY <2>1 DEF Record, SameBut, Fields
  <2>3. Behind(chain, c) = {}
    BY <1>2, <1>8, BehindIs
  <2>4. ASSUME NEW l \in S, Index(t, l) > i PROVE FALSE
    <3>1. Index(t, l) \in DOMAIN t.m_table /\ Index(t, l) \in i + 1..t.m_tableLength - 1
      BY <1>2, <1>5, <2>4, KeysAre
    <3>2. l \in ToSet(t.m_table[Index(t, l)])
      BY <1>5, <3>1
    <3>3. t.m_table[Index(t, l)] # <<>>
      BY <3>2 DEF ToSet
    <3> QED BY <1>8, <3>1, <3>3
  <2>5. Beyond(t, c) = {}
    BY <1>2, <2>3, <2>4
  <2> QED BY <1>3, <2>2, <2>5 DEF Walking
<1>9. place < Len(chain) \/ place = Len(chain)
  BY <1>4
<1> QED BY <1>6, <1>7, <1>8, <1>9

\* reset(): the walk owes every entry.
LEMMA ResetWalks ==
    ASSUME NEW t, NEW S, S \subseteq HashKeys, Chains(t, S), Record(t)
    PROVE  LET u == ResetTable(t) IN
           /\ Record(u) /\ SameBut(t, u, {"m_pcurEntry", "m_uicurIndex"})
           /\ Walking(u, S)
<1> DEFINE full == {j \in DOMAIN t.m_table : t.m_table[j] # <<>>}
           first == CHOOSE j \in full : \A k \in full : j <= k
           u == ResetTable(t)
<1>1. /\ t.m_tableLength \in Nat \ {0} /\ DOMAIN t.m_table = 0..t.m_tableLength - 1
      /\ \A j \in DOMAIN t.m_table : ToSet(t.m_table[j]) = {k \in S : Index(t, k) = j}
  BY DEF Chains
<1>2. ASSUME NEW l \in S
      PROVE  Index(t, l) \in full
  <2>1. Index(t, l) \in DOMAIN t.m_table /\ l \in ToSet(t.m_table[Index(t, l)])
    BY <1>1, KeysAre
  <2> QED BY <2>1 DEF ToSet
<1>3. CASE full # {}
  <2>1. PICK j \in full : \A k \in full : j <= k
    <3>1. full \subseteq 0..t.m_tableLength /\ t.m_tableLength \in Nat
      BY <1>1
    <3> HIDE DEF full
    <3> QED BY <1>3, <3>1, FirstOfPlaces
  <2>2. first \in full /\ \A k \in full : first <= k
    BY <2>1
  <2>3. u = [t EXCEPT !.m_pcurEntry = Head(t.m_table[first]), !.m_uicurIndex = first]
    BY <1>3 DEF ResetTable
  <2> HIDE DEF first
  <2> DEFINE n == Head(t.m_table[first])
  <2>4. /\ Record(u) /\ SameBut(t, u, {"m_pcurEntry", "m_uicurIndex"})
        /\ u.m_pcurEntry = n /\ u.m_uicurIndex = first
    BY <2>3 DEF Record, SameBut, Fields
  <2>5. n \in S /\ Index(t, n) = first /\ {n} \cup Beyond(t, n) = {l \in S : Index(t, l) >= first}
    BY <2>2, ChainBegins
  <2>6. S = {n} \cup Beyond(t, n)
    <3>1. \A l \in S : first <= Index(t, l)
      BY <1>2, <2>2
    <3>2. first \in Int /\ \A l \in S : Index(t, l) \in Int
      BY <1>1, <1>2, <2>2
    <3> QED BY <2>5, <3>1, <3>2
  <2> QED BY <2>4, <2>5, <2>6, Standing
<1>4. CASE full = {}
  <2>1. u = [t EXCEPT !.m_pcurEntry = NoEntry, !.m_uicurIndex = 0]
    BY <1>4 DEF ResetTable
  <2>2. /\ Record(u) /\ SameBut(t, u, {"m_pcurEntry", "m_uicurIndex"})
        /\ u.m_pcurEntry = NoEntry /\ u.m_uicurIndex = 0
    BY <2>1 DEF Record, SameBut, Fields
  <2>3. S = {}
    BY <1>2, <1>4
  <2> QED BY <2>2, <2>3 DEF Walking
<1> QED BY <1>3, <1>4
-----------------------------------------------------------------------------
\* The entries linked in the order of a sequence, from either end.
Linked(t, s) ==
    /\ t.seqHead = At(s, 1) /\ t.seqTail = At(s, Len(s))
    /\ \A i \in DOMAIN s : t.s_next[s[i]] = At(s, i + 1) /\ t.s_prev[s[i]] = At(s, i - 1)
LinksTyped(t) == /\ t.s_prev \in [HashKeys -> HashKeys \cup {NoEntry}]
                 /\ t.s_next \in [HashKeys -> HashKeys \cup {NoEntry}]

\* The neighbours of an entry, of which those that are there are entries.
LEMMA AtIs ==
    ASSUME NEW s \in Seq(HashKeys), NEW i \in Int
    PROVE  /\ i \in 1..Len(s) => At(s, i) = s[i] /\ At(s, i) \in HashKeys /\ At(s, i) # NoEntry
           /\ i \notin 1..Len(s) => At(s, i) = NoEntry
  BY HashAssumption DEF At

\* addSequence(): behind the last.
LEMMA AddSequenceLinks ==
    ASSUME NEW t, Record(t), LinksTyped(t), NEW s \in Seq(HashKeys), IsInjective(s),
           Linked(t, s), NEW k \in HashKeys, k \notin ToSet(s)
    PROVE  LET u == AddSequence(t, k) IN
           /\ Record(u) /\ SameBut(t, u, {"seqHead", "seqTail", "s_prev", "s_next"})
           /\ LinksTyped(u) /\ Linked(u, Append(s, k))
<1> DEFINE u == AddSequence(t, k)
           last == At(s, Len(s))
           a == Append(s, k)
<1>0. Len(s) \in Nat
  OBVIOUS
<1>1. /\ Len(s) \in Nat /\ DOMAIN s = 1..Len(s) /\ a \in Seq(HashKeys) /\ Len(a) = Len(s) + 1
      /\ DOMAIN a = 1..Len(s) + 1
      /\ a[Len(s) + 1] = k /\ \A i \in 1..Len(s) : a[i] = s[i] /\ s[i] \in HashKeys /\ s[i] # k
  BY DEF ToSet
<1>2. /\ t.seqHead = At(s, 1) /\ t.seqTail = last
      /\ \A i \in 1..Len(s) : t.s_next[s[i]] = At(s, i + 1) /\ t.s_prev[s[i]] = At(s, i - 1)
  BY <1>1 DEF Linked
<1>3. t.seqHead = NoEntry <=> Len(s) = 0
  BY <1>1, <1>2, AtIs
<1>4. /\ Record(u) /\ SameBut(t, u, {"seqHead", "seqTail", "s_prev", "s_next"}) /\ LinksTyped(u)
      /\ u.seqHead = (IF Len(s) = 0 THEN k ELSE t.seqHead) /\ u.seqTail = k
      /\ u.s_next[k] = NoEntry /\ u.s_prev[k] = last
      /\ \A x \in HashKeys \ {k} : /\ u.s_prev[x] = t.s_prev[x]
                                   /\ u.s_next[x] = IF x = last THEN k ELSE t.s_next[x]
  <2>1. CASE Len(s) = 0
    <3>1. last = NoEntry
      <4>1. Len(s) \in Int /\ Len(s) \notin 1..Len(s)
        BY <1>0, <2>1
      <4> QED BY <4>1, AtIs
    <3>2. u = [t EXCEPT !.seqTail = k, !.s_next[k] = NoEntry, !.seqHead = k, !.s_prev[k] = NoEntry]
      BY <1>3, <2>1 DEF AddSequence
    <3> HIDE DEF last, u, a
    <3> QED BY <2>1, <3>1, <3>2, HashAssumption DEF Record, SameBut, Fields, LinksTyped
  <2>2. CASE Len(s) # 0
    <3>1. last \in HashKeys /\ last # k
      <4>1. Len(s) \in 1..Len(s)
        BY <1>0, <2>2
      <4>2. last = s[Len(s)]
        BY <1>0, <4>1, AtIs
      <4> QED BY <1>1, <4>1, <4>2
    <3>2. u = [t EXCEPT !.seqTail = k, !.s_next[k] = NoEntry, !.s_prev[k] = last, !.s_next[last] = k]
      BY <1>2, <1>3, <2>2 DEF AddSequence
    <3> HIDE DEF last, u, a
    <3> QED BY <2>2, <3>1, <3>2, HashAssumption DEF Record, SameBut, Fields, LinksTyped
  <2> QED BY <2>1, <2>2
<1> HIDE DEF u, a
<1>5. \A i \in 1..Len(s) + 1 : At(a, i) = a[i]
  BY <1>1 DEF At
<1>6. At(a, Len(s) + 2) = NoEntry /\ At(a, 0) = NoEntry
  BY <1>1 DEF At
<1>7. \A i \in 1..Len(s) : At(s, i) = s[i]
  BY <1>1 DEF At
<1>8. At(s, 0) = NoEntry /\ At(s, Len(s) + 1) = NoEntry
  BY <1>1 DEF At
<1>9. u.seqHead = At(a, 1) /\ u.seqTail = At(a, Len(a))
  BY <1>1, <1>2, <1>4, <1>5, <1>7
<1>10. ASSUME NEW i \in 1..Len(s) + 1
       PROVE  u.s_next[a[i]] = At(a, i + 1) /\ u.s_prev[a[i]] = At(a, i - 1)
  <2>1. CASE i = Len(s) + 1
    <3>1. u.s_next[a[i]] = At(a, i + 1)
      BY <1>1, <1>4, <1>6, <2>1
    <3>2. u.s_prev[a[i]] = At(a, i - 1)
      <4>1. CASE Len(s) = 0
        BY <1>1, <1>4, <1>6, <1>8, <2>1, <4>1
      <4>2. CASE Len(s) > 0
        BY <1>1, <1>4, <1>5, <1>7, <2>1, <4>2
      <4> QED BY <1>1, <4>1, <4>2
    <3> QED BY <3>1, <3>2
  <2>2. CASE i < Len(s)
    <3>1. i \in 1..Len(s) /\ i + 1 \in 1..Len(s) /\ Len(s) \in 1..Len(s)
      BY <1>1, <2>2
    <3>2. a[i] = s[i] /\ s[i] \in HashKeys \ {k} /\ s[i] # last
      BY <1>1, <1>7, <2>2, <3>1 DEF IsInjective
    <3>3. u.s_next[a[i]] = s[i + 1] /\ At(a, i + 1) = s[i + 1]
      BY <1>1, <1>2, <1>4, <1>5, <1>7, <3>1, <3>2
    <3>4. u.s_prev[a[i]] = At(s, i - 1) /\ At(a, i - 1) = At(s, i - 1)
      <4>1. i - 1 = 0 \/ i - 1 \in 1..Len(s)
        BY <1>1
      <4>2. u.s_prev[a[i]] = At(s, i - 1)
        BY <1>2, <1>4, <3>1, <3>2
      <4>3. CASE i - 1 = 0
        BY <1>6, <1>8, <4>2, <4>3
      <4>4. CASE i - 1 \in 1..Len(s)
        <5>1. i - 1 \in 1..Len(s) + 1
          BY <1>0, <4>4
        <5>2. At(a, i - 1) = a[i - 1] /\ At(s, i - 1) = s[i - 1]
          BY <1>5, <1>7, <4>4, <5>1
        <5> QED BY <1>1, <4>2, <4>4, <5>2
      <4> QED BY <4>1, <4>3, <4>4
    <3> QED BY <3>3, <3>4
  <2>3. CASE i = Len(s)
    <3>1. i \in 1..Len(s) /\ a[i] = s[i] /\ s[i] \in HashKeys \ {k} /\ s[i] = last
      BY <1>1, <1>7, <2>3
    <3>2. u.s_next[a[i]] = k /\ At(a, i + 1) = k
      BY <1>1, <1>4, <1>5, <2>3, <3>1
    <3>4. u.s_prev[a[i]] = At(s, i - 1) /\ At(a, i - 1) = At(s, i - 1)
      <4>1. i - 1 = 0 \/ i - 1 \in 1..Len(s)
        BY <1>1, <3>1
      <4>2. u.s_prev[a[i]] = At(s, i - 1)
        BY <1>2, <1>4, <3>1
      <4>3. CASE i - 1 = 0
        BY <1>6, <1>8, <4>2, <4>3
      <4>4. CASE i - 1 \in 1..Len(s)
        <5>1. i - 1 \in 1..Len(s) + 1
          BY <1>0, <4>4
        <5>2. At(a, i - 1) = a[i - 1] /\ At(s, i - 1) = s[i - 1]
          BY <1>5, <1>7, <4>4, <5>1
        <5> QED BY <1>1, <4>2, <4>4, <5>2
      <4> QED BY <4>1, <4>3, <4>4
    <3> QED BY <3>2, <3>4
  <2>4. i = Len(s) + 1 \/ i < Len(s) \/ i = Len(s)
    BY <1>0
  <2> QED BY <2>1, <2>2, <2>3, <2>4
<1>11. Linked(u, a)
  BY <1>1, <1>9, <1>10 DEF Linked
<1> QED BY <1>4, <1>11 DEF u, a

\* delSequence(): the neighbours are linked with each other.
LEMMA DelSequenceLinks ==
    ASSUME NEW t, Record(t), LinksTyped(t), NEW s \in Seq(HashKeys), IsInjective(s),
           Linked(t, s), NEW k \in ToSet(s)
    PROVE  LET u == DelSequence(t, k) IN
           /\ Record(u) /\ SameBut(t, u, {"seqHead", "seqTail", "s_prev", "s_next"})
           /\ LinksTyped(u) /\ Linked(u, WithoutKey(s, k))
<1> DEFINE u == DelSequence(t, k)
           c == Place(s, k)
           w == WithoutKey(s, k)
           before == At(s, c - 1)
           after == At(s, c + 1)
<1>1. /\ Len(s) \in Nat /\ DOMAIN s = 1..Len(s) /\ c \in 1..Len(s) /\ s[c] = k
      /\ \A i \in 1..Len(s) : s[i] \in HashKeys
      /\ \A i, j \in 1..Len(s) : s[i] = s[j] => i = j
  BY PlaceIs DEF IsInjective
<1>0. Len(s) \in Nat /\ c \in 1..Len(s)
  BY <1>1
<1>2. /\ t.seqHead = At(s, 1) /\ t.seqTail = At(s, Len(s))
      /\ \A i \in 1..Len(s) : t.s_next[s[i]] = At(s, i + 1) /\ t.s_prev[s[i]] = At(s, i - 1)
  BY <1>1 DEF Linked
<1>3. t.s_prev[k] = before /\ t.s_next[k] = after
  BY <1>1, <1>2
<1>4. /\ w \in Seq(HashKeys) /\ Len(w) = Len(s) - 1 /\ DOMAIN w = 1..Len(s) - 1
      /\ \A i \in 1..Len(s) - 1 : w[i] = IF i < c THEN s[i] ELSE s[i + 1]
  <2>1. /\ w \in Seq(HashKeys) /\ Len(w) = Len(s) - 1
        /\ \A i \in 1..Len(s) - 1 : w[i] = IF i < c THEN s[i] ELSE s[i + 1]
    BY WithoutKeyIs
  <2> QED BY <2>1
<1>5. /\ c = 1 => before = NoEntry
      /\ c > 1 => before = s[c - 1] /\ before \in HashKeys \ {NoEntry}
      /\ c = Len(s) => after = NoEntry
      /\ c < Len(s) => after = s[c + 1] /\ after \in HashKeys \ {NoEntry}
      /\ before # k /\ after # k
  <2>1. c - 1 \in Int /\ c + 1 \in Int /\ k \in HashKeys
    BY <1>1
  <2>2. c = 1 => before = NoEntry
    BY <1>1 DEF At
  <2>3. c > 1 => before = s[c - 1] /\ before \in HashKeys \ {NoEntry} /\ before # k
    <3>1. c > 1 => c - 1 \in 1..Len(s) /\ c - 1 # c
      BY <1>1
    <3> QED BY <1>1, <2>1, <3>1, AtIs
  <2>4. c = Len(s) => after = NoEntry
    BY <1>1 DEF At
  <2>5. c < Len(s) => after = s[c + 1] /\ after \in HashKeys \ {NoEntry} /\ after # k
    <3>1. c < Len(s) => c + 1 \in 1..Len(s) /\ c + 1 # c
      BY <1>1
    <3> QED BY <1>1, <2>1, <3>1, AtIs
  <2>6. NoEntry # k
    BY <2>1, HashAssumption
  <2> QED BY <1>0, <2>2, <2>3, <2>4, <2>5, <2>6
<1> HIDE DEF before, after, c, w
<1>6. /\ Record(u) /\ SameBut(t, u, {"seqHead", "seqTail", "s_prev", "s_next"}) /\ LinksTyped(u)
      /\ u.seqHead = (IF before = NoEntry THEN after ELSE t.seqHead)
      /\ u.seqTail = (IF after = NoEntry THEN before ELSE t.seqTail)
      /\ \A x \in HashKeys \ {k} : /\ u.s_next[x] = IF x = before THEN after ELSE t.s_next[x]
                                   /\ u.s_prev[x] = IF x = after THEN before ELSE t.s_prev[x]
  <2>0. (before = NoEntry \/ before \in HashKeys) /\ (after = NoEntry \/ after \in HashKeys)
        /\ NoEntry \notin HashKeys
    <3>1. (c = 1 \/ c > 1) /\ (c = Len(s) \/ c < Len(s))
      BY <1>0
    <3> QED BY <1>5, <3>1, HashAssumption
  <2> USE DEF Record, SameBut, Fields, LinksTyped
  <2>1. CASE after = NoEntry /\ before = NoEntry
    <3>1. u = [t EXCEPT !.seqHead = after, !.seqTail = after]
      BY <1>3, <2>1 DEF DelSequence
    <3> QED BY <2>0, <2>1, <3>1
  <2>2. CASE after = NoEntry /\ before # NoEntry
    <3>1. u = [t EXCEPT !.seqTail = before, !.s_next[before] = NoEntry]
      BY <1>3, <2>2 DEF DelSequence
    <3> HIDE DEF u
    <3> QED BY <2>0, <2>2, <3>1
  <2>3. CASE after # NoEntry /\ before = NoEntry
    <3>1. u = [t EXCEPT !.seqHead = after, !.s_prev[after] = NoEntry]
      BY <1>3, <2>3 DEF DelSequence
    <3> HIDE DEF u
    <3> QED BY <2>0, <2>3, <3>1
  <2>4. CASE after # NoEntry /\ before # NoEntry
    <3>1. u = [t EXCEPT !.s_prev[after] = before, !.s_next[before] = after]
      BY <1>3, <2>4 DEF DelSequence
    <3> HIDE DEF u
    <3> QED BY <2>0, <2>4, <3>1
  <2> QED BY <2>1, <2>2, <2>3, <2>4
<1> HIDE DEF u
<1>7. \A i \in 0..Len(s) : At(w, i) = IF i < c THEN At(s, i) ELSE At(s, i + 1)
  <2> SUFFICES ASSUME NEW i \in 0..Len(s)
               PROVE  At(w, i) = IF i < c THEN At(s, i) ELSE At(s, i + 1)
    OBVIOUS
  <2>1. CASE i = 0
    BY <1>1, <1>4, <2>1 DEF At
  <2>2. CASE i = Len(s)
    BY <1>1, <1>4, <2>2 DEF At
  <2>3. CASE i \in 1..Len(s) - 1
    <3>1. i \in 1..Len(s) /\ i + 1 \in 1..Len(s)
      BY <1>1, <2>3
    <3> QED BY <1>1, <1>4, <2>3, <3>1 DEF At
  <2>4. i = 0 \/ i = Len(s) \/ i \in 1..Len(s) - 1
    BY <1>0
  <2> QED BY <2>1, <2>2, <2>3, <2>4
<1>8. before = At(s, c - 1) /\ after = At(s, c + 1)
  BY DEF before, after
<1>9. u.seqHead = At(w, 1) /\ u.seqTail = At(w, Len(w))
  <2>0. 1 \in 0..Len(s)
    BY <1>0
  <2>1. At(w, 1) = IF 1 < c THEN At(s, 1) ELSE At(s, 1 + 1)
    BY <1>7, <2>0
  <2>2. u.seqHead = At(w, 1)
    <3>1. CASE c = 1
      <4>1. before = NoEntry /\ after = At(s, 1 + 1)
        BY <1>5, <1>8, <3>1
      <4> QED BY <1>6, <2>1, <3>1, <4>1
    <3>2. CASE c > 1
      <4>1. before # NoEntry /\ 1 < c
        BY <1>0, <1>5, <3>2
      <4> QED BY <1>2, <1>6, <2>1, <4>1
    <3> QED BY <1>0, <3>1, <3>2
  <2>3. Len(s) - 1 \in 0..Len(s) /\ Len(s) - 1 + 1 = Len(s) /\ (Len(s) - 1 < c <=> c = Len(s))
    BY <1>0
  <2>4. At(w, Len(s) - 1) = IF c = Len(s) THEN At(s, Len(s) - 1) ELSE At(s, Len(s))
    BY <1>7, <2>3
  <2>5. u.seqTail = At(w, Len(s) - 1)
    <3>1. CASE c = Len(s)
      <4>1. after = NoEntry /\ before = At(s, Len(s) - 1)
        BY <1>5, <1>8, <3>1
      <4> QED BY <1>6, <2>4, <3>1, <4>1
    <3>2. CASE c < Len(s)
      <4>1. after # NoEntry /\ c # Len(s)
        BY <1>0, <1>5, <3>2
      <4> QED BY <1>2, <1>6, <2>4, <4>1
    <3> QED BY <1>0, <3>1, <3>2
  <2> QED BY <1>4, <2>2, <2>5
<1>10. ASSUME NEW i \in 1..Len(s) - 1
       PROVE  u.s_next[w[i]] = At(w, i + 1) /\ u.s_prev[w[i]] = At(w, i - 1)
  <2>1. PICK j : j = IF i < c THEN i ELSE i + 1
    OBVIOUS
  <2>2. j \in 1..Len(s) /\ j # c /\ w[i] = s[j] /\ s[j] \in HashKeys \ {k} /\ j \in Int
    BY <1>1, <1>4, <2>1
  <2>3. t.s_next[s[j]] = At(s, j + 1) /\ t.s_prev[s[j]] = At(s, j - 1)
    BY <1>2, <2>2
  <2>4. s[j] = before <=> j = c - 1
    <3>1. CASE c = 1
      <4>1. before = NoEntry /\ s[j] # NoEntry
        BY <1>5, <2>2, <3>1, HashAssumption
      <4>2. j # c - 1
        BY <1>0, <2>2, <3>1
      <4> QED BY <4>1, <4>2
    <3>2. CASE c > 1
      <4>1. c - 1 \in 1..Len(s)
        BY <1>0, <3>2
      <4>2. before = s[c - 1]
        BY <1>5, <3>2
      <4> QED BY <1>1, <2>2, <4>1, <4>2
    <3> QED BY <1>0, <3>1, <3>2
  <2>5. s[j] = after <=> j = c + 1
    <3>1. CASE c = Len(s)
      <4>1. after = NoEntry /\ s[j] # NoEntry
        BY <1>5, <2>2, <3>1, HashAssumption
      <4>2. j # c + 1
        BY <1>0, <2>2, <3>1
      <4> QED BY <4>1, <4>2
    <3>2. CASE c < Len(s)
      <4>1. c + 1 \in 1..Len(s)
        BY <1>0, <3>2
      <4>2. after = s[c + 1]
        BY <1>5, <3>2
      <4> QED BY <1>1, <2>2, <4>1, <4>2
    <3> QED BY <1>0, <3>1, <3>2
  <2>6. /\ u.s_next[w[i]] = IF j = c - 1 THEN At(s, c + 1) ELSE At(s, j + 1)
        /\ u.s_prev[w[i]] = IF j = c + 1 THEN At(s, c - 1) ELSE At(s, j - 1)
    BY <1>6, <1>8, <2>2, <2>3, <2>4, <2>5
  <2>7. /\ At(w, i + 1) = IF i + 1 < c THEN At(s, i + 1) ELSE At(s, i + 1 + 1)
        /\ At(w, i - 1) = IF i - 1 < c THEN At(s, i - 1) ELSE At(s, i - 1 + 1)
    <3>1. i + 1 \in 0..Len(s) /\ i - 1 \in 0..Len(s)
      BY <1>1
    <3> QED BY <1>7, <3>1
  <2>8. c \in Int /\ i \in Int
    BY <1>0
  <2>9. (IF j = c - 1 THEN c + 1 ELSE j + 1) = (IF i + 1 < c THEN i + 1 ELSE i + 1 + 1)
    BY <2>1, <2>8
  <2>10. (IF j = c + 1 THEN c - 1 ELSE j - 1) = (IF i - 1 < c THEN i - 1 ELSE i - 1 + 1)
    BY <2>1, <2>8
  <2>11. u.s_next[w[i]] = At(s, IF j = c - 1 THEN c + 1 ELSE j + 1)
    BY <2>6
  <2>12. At(w, i + 1) = At(s, IF i + 1 < c THEN i + 1 ELSE i + 1 + 1)
    BY <2>7
  <2>13. u.s_prev[w[i]] = At(s, IF j = c + 1 THEN c - 1 ELSE j - 1)
    BY <2>6
  <2>14. At(w, i - 1) = At(s, IF i - 1 < c THEN i - 1 ELSE i - 1 + 1)
    BY <2>7
  <2> QED BY <2>9, <2>10, <2>11, <2>12, <2>13, <2>14
<1>11. Linked(u, w)
  BY <1>4, <1>9, <1>10 DEF Linked
<1> QED BY <1>6, <1>11 DEF u, w
-----------------------------------------------------------------------------
\* The invariant: a table that holds the keys of s, linked in that order, and a walk
\* that owes rest.
Sound(t, s, rest) == /\ Record(t) /\ LinksTyped(t)
                     /\ s \in Seq(HashKeys) /\ IsInjective(s)
                     /\ t.m_entryCount = Len(s)
                     /\ Chains(t, ToSet(s)) /\ Linked(t, s) /\ Walking(t, rest)

\* A table whose fields but for the cursors are those of a sound one.
LEMMA SoundWalk ==
    ASSUME NEW t, NEW s, NEW rest, Sound(t, s, rest),
           NEW u, Record(u), SameBut(t, u, {"m_pcurEntry", "m_uicurIndex", "seqCur"}),
           NEW left, Walking(u, left)
    PROVE  Sound(u, s, left)
<1>1. /\ u.m_table = t.m_table /\ u.m_tableLength = t.m_tableLength
      /\ u.s_prev = t.s_prev /\ u.s_next = t.s_next
      /\ u.seqHead = t.seqHead /\ u.seqTail = t.seqTail /\ u.m_entryCount = t.m_entryCount
  BY DEF SameBut, Fields
<1>2. Chains(u, ToSet(s))
  BY <1>1, SameChains DEF Sound
<1>3. LinksTyped(u) /\ Linked(u, s)
  BY <1>1 DEF Sound, LinksTyped, Linked
<1> QED BY <1>1, <1>2, <1>3 DEF Sound

\* What the keys of a sequence are.
LEMMA KeysIn ==
    ASSUME NEW s \in Seq(HashKeys)
    PROVE  ToSet(s) \subseteq HashKeys
  BY DEF ToSet

\* remove() of an entry that the walk does not stand at.
LEMMA UnlinkSound ==
    ASSUME NEW t, NEW s, NEW rest, Sound(t, s, rest), NEW k \in ToSet(s), t.m_pcurEntry # k
    PROVE  Sound(Unlink(t, k), WithoutKey(s, k), rest \ {k})
<1> DEFINE S == ToSet(s)
           w == WithoutKey(s, k)
           v == DelSequence(t, k)
           x == Index(t, k)
           u == Unlink(t, k)
<1>1. /\ Record(t) /\ LinksTyped(t) /\ s \in Seq(HashKeys) /\ IsInjective(s)
      /\ t.m_entryCount = Len(s) /\ Chains(t, S) /\ Linked(t, s) /\ Walking(t, rest)
      /\ S \subseteq HashKeys /\ k \in HashKeys
  BY KeysIn DEF Sound
<1>2. /\ Record(v) /\ SameBut(t, v, {"seqHead", "seqTail", "s_prev", "s_next"})
      /\ LinksTyped(v) /\ Linked(v, w)
  BY <1>1, DelSequenceLinks
<1>3. /\ w \in Seq(HashKeys) /\ IsInjective(w) /\ ToSet(w) = S \ {k} /\ Len(w) = Len(s) - 1
  BY <1>1, WithoutKeyIs
<1>4. /\ t.m_tableLength \in Nat \ {0} /\ DOMAIN t.m_table = 0..t.m_tableLength - 1
      /\ \A i \in DOMAIN t.m_table :
            /\ t.m_table[i] \in Seq(HashKeys) /\ IsInjective(t.m_table[i])
            /\ ToSet(t.m_table[i]) = {l \in S : Index(t, l) = i}
  BY <1>1 DEF Chains
<1>5. x \in DOMAIN t.m_table /\ k \in ToSet(t.m_table[x])
  BY <1>1, <1>4, KeysAre
<1>6. /\ Record(u)
      /\ u.m_table = [t.m_table EXCEPT ![x] = WithoutKey(@, k)]
      /\ u.m_tableLength = t.m_tableLength /\ u.m_entryCount = t.m_entryCount - 1
      /\ u.m_pcurEntry = t.m_pcurEntry /\ u.m_uicurIndex = t.m_uicurIndex
      /\ u.s_prev = [v.s_prev EXCEPT ![k] = NoEntry] /\ u.s_next = [v.s_next EXCEPT ![k] = NoEntry]
      /\ u.seqHead = v.seqHead /\ u.seqTail = v.seqTail
  <2>1. u = [v EXCEPT !.m_entryCount = @ - 1, !.m_table[x] = WithoutKey(@, k),
                      !.s_prev[k] = NoEntry, !.s_next[k] = NoEntry,
                      !.seqCur = IF @ = k THEN Gone ELSE @]
    BY DEF Unlink
  <2> HIDE DEF u, v, x
  <2> QED BY <1>2, <2>1 DEF Record, SameBut, Fields
<1> HIDE DEF u, v, w, x, S
<1>7. LinksTyped(u)
  BY <1>2, <1>6 DEF LinksTyped
<1>8. Linked(u, w)
  <2>1. ASSUME NEW i \in DOMAIN w PROVE w[i] \in HashKeys /\ w[i] # k
    <3>1. w[i] \in ToSet(w)
      BY DEF ToSet
    <3> QED BY <1>1, <1>3, <3>1
  <2> QED BY <1>2, <1>6, <2>1 DEF Linked, LinksTyped
<1>9. \A l : Index(u, l) = Index(t, l)
  BY <1>6 DEF Index
<1>10. /\ WithoutKey(t.m_table[x], k) \in Seq(HashKeys)
       /\ IsInjective(WithoutKey(t.m_table[x], k))
       /\ ToSet(WithoutKey(t.m_table[x], k)) = ToSet(t.m_table[x]) \ {k}
       /\ \A c \in ToSet(t.m_table[x]) \ {k} :
             Behind(WithoutKey(t.m_table[x], k), c) = Behind(t.m_table[x], c) \ {k}
  BY <1>4, <1>5, WithoutKeyIs, BehindWithout
<1>11. Chains(u, S \ {k})
  <2>1. u.m_tableLength \in Nat \ {0} /\ DOMAIN u.m_table = 0..u.m_tableLength - 1
    BY <1>4, <1>6
  <2>2. ASSUME NEW i \in DOMAIN u.m_table
        PROVE  /\ u.m_table[i] \in Seq(HashKeys) /\ IsInjective(u.m_table[i])
               /\ ToSet(u.m_table[i]) = {l \in S \ {k} : Index(t, l) = i}
    <3>1. i \in DOMAIN t.m_table
      BY <1>6
    <3>2. CASE i = x
      <4>1. u.m_table[i] = WithoutKey(t.m_table[x], k)
        BY <1>5, <1>6, <3>2
      <4> QED BY <1>4, <1>5, <1>10, <3>2, <4>1
    <3>3. CASE i # x
      <4>1. u.m_table[i] = t.m_table[i] /\ Index(t, k) # i
        BY <1>5, <1>6, <3>1, <3>3 DEF x
      <4> QED BY <1>4, <3>1, <4>1
    <3> QED BY <3>2, <3>3
  <2> QED BY <1>9, <2>1, <2>2 DEF Chains
<1>12. Walking(u, rest \ {k})
  <2>1. CASE t.m_pcurEntry = NoEntry
    BY <1>1, <1>6, <2>1 DEF Walking
  <2>2. CASE t.m_pcurEntry # NoEntry
    <3> DEFINE c == t.m_pcurEntry
    <3>1. c \in S \ {k} /\ t.m_uicurIndex = Index(t, c) /\ rest = {c} \cup Beyond(t, c)
      BY <1>1, <2>2, KeysAre DEF Walking
    <3>2. KeysOf(u) = S \ {k}
      BY <1>1, <1>11, KeysAre
    <3> HIDE DEF c
    <3>3. c \in S
      BY <3>1
    <3>4. /\ c \in ToSet(t.m_table[Index(t, c)]) /\ Index(t, c) \in DOMAIN t.m_table
          /\ \A l : l \in Beyond(t, c) <=>
                /\ l \in S
                /\ \/ Index(t, l) > Index(t, c)
                   \/ Index(t, l) = Index(t, c) /\ l \in Behind(t.m_table[Index(t, c)], c)
      BY <1>1, <3>3, BeyondIs
    <3>5. \A l : l \in Beyond(u, c) <=>
                /\ l \in S \ {k}
                /\ \/ Index(t, l) > Index(t, c)
                   \/ Index(t, l) = Index(t, c) /\ l \in Behind(u.m_table[Index(t, c)], c)
      <4>1. S \ {k} \subseteq HashKeys
        BY <1>1
      <4>2. /\ \A l : l \in Beyond(u, c) <=>
                /\ l \in S \ {k}
                /\ \/ Index(u, l) > Index(u, c)
                   \/ Index(u, l) = Index(u, c) /\ l \in Behind(u.m_table[Index(u, c)], c)
        BY <1>11, <3>1, <4>1, BeyondIs
      <4> QED BY <1>9, <4>2
    <3>6. \A l : l # k => (l \in Behind(u.m_table[Index(t, c)], c)
                             <=> l \in Behind(t.m_table[Index(t, c)], c))
      <4>1. CASE Index(t, c) = x
        BY <1>5, <1>6, <1>10, <3>1, <3>4, <4>1
      <4>2. CASE Index(t, c) # x
        BY <1>6, <3>4, <4>2
      <4> QED BY <4>1, <4>2
    <3>7. Beyond(u, c) = Beyond(t, c) \ {k}
      BY <3>4, <3>5, <3>6
    <3>8. rest \ {k} = {c} \cup Beyond(u, c)
      BY <3>1, <3>7
    <3> QED BY <1>6, <1>9, <2>2, <3>1, <3>2, <3>8 DEF Walking, c
  <2> QED BY <2>1, <2>2
<1>13. u.m_entryCount = Len(w)
  BY <1>1, <1>3, <1>6
<1>14. Sound(u, w, rest \ {k})
  BY <1>3, <1>6, <1>7, <1>8, <1>11, <1>12, <1>13 DEF Sound
<1> QED BY <1>14 DEF u, w

\* remove(): a walk that stands at the entry goes on first.
LEMMA RemovedSound ==
    ASSUME NEW t, NEW s, NEW rest, Sound(t, s, rest), NEW k \in ToSet(s)
    PROVE  Sound(Removed(t, k), WithoutKey(s, k), rest \ {k})
<1>1. CASE t.m_pcurEntry # k
  <2>1. Removed(t, k) = Unlink(t, k)
    BY <1>1 DEF Removed
  <2> QED BY <1>1, <2>1, UnlinkSound
<1>2. CASE t.m_pcurEntry = k
  <2> DEFINE v == SearchNextEntry(t)
  <2>1. Removed(t, k) = Unlink(v, k)
    BY <1>2 DEF Removed
  <2>2. /\ Record(t) /\ Chains(t, ToSet(s)) /\ Walking(t, rest)
        /\ ToSet(s) \subseteq HashKeys
    BY KeysIn DEF Sound
  <2>3. k # NoEntry
    BY <2>2, HashAssumption
  <2>4. /\ Record(v) /\ SameBut(t, v, {"m_pcurEntry", "m_uicurIndex"})
        /\ Walking(v, rest \ {k})
    BY <1>2, <2>2, <2>3, SearchNextWalks
  <2>5. Sound(v, s, rest \ {k})
    <3>1. SameBut(t, v, {"m_pcurEntry", "m_uicurIndex", "seqCur"})
      BY <2>4 DEF SameBut
    <3> HIDE DEF v
    <3> QED BY <2>4, <3>1, SoundWalk
  <2> HIDE DEF v
  <2>6. v.m_pcurEntry # k
    BY <2>3, <2>4 DEF Walking
  <2>7. Sound(Unlink(v, k), WithoutKey(s, k), (rest \ {k}) \ {k})
    BY <2>5, <2>6, UnlinkSound
  <2>8. (rest \ {k}) \ {k} = rest \ {k}
    OBVIOUS
  <2> QED BY <2>1, <2>7, <2>8
<1> QED BY <1>1, <1>2

-----------------------------------------------------------------------------
\* A chain that has each element of an ordered set at its rank.
LEMMA RankedChain ==
    ASSUME NEW A, A \subseteq HashKeys, NEW d, Ordered(A, d),
           NEW c, c = [p \in 1..Cardinality(A) |-> c[p]],
           \A p \in 1..Cardinality(A) : c[p] \in A /\ Cardinality(d[c[p]]) = p - 1
    PROVE  c \in Seq(HashKeys) /\ IsInjective(c) /\ ToSet(c) = A
<1> DEFINE N == Cardinality(A)
<1>1. IsFiniteSet(A)
  BY HashAssumption, FS_Subset
<1>2. /\ N \in Nat
      /\ \A k \in A : Cardinality(d[k]) \in 0..N - 1
      /\ \A k, l \in A : Cardinality(d[k]) = Cardinality(d[l]) => k = l
  BY <1>1, Ranks
<1>3. \A p \in 1..N : c[p] \in A /\ Cardinality(d[c[p]]) = p - 1
  OBVIOUS
<1>4. c \in [1..N -> HashKeys] /\ DOMAIN c = 1..N
  BY <1>3
<1> HIDE DEF N
<1>5. c \in Seq(HashKeys)
  <2>1. \E n \in Nat : c \in [1..n -> HashKeys]
    BY <1>2, <1>4
  <2> QED BY <2>1, SeqDef, Zenon
<1>6. IsInjective(c)
  <2> SUFFICES ASSUME NEW p \in 1..N, NEW q \in 1..N, c[p] = c[q] PROVE p = q
    BY <1>4 DEF IsInjective
  <2>1. Cardinality(d[c[p]]) = p - 1 /\ Cardinality(d[c[q]]) = q - 1
    BY <1>3
  <2>2. Cardinality(d[c[p]]) = Cardinality(d[c[q]])
    BY Zenon
  <2>3. p - 1 = q - 1
    BY <2>1, <2>2
  <2>4. p \in Int /\ q \in Int
    BY <1>2
  <2> QED BY <2>3, <2>4
<1>7. ASSUME NEW k \in A PROVE k \in ToSet(c)
  <2> DEFINE p == Cardinality(d[k]) + 1
  <2>1. p \in 1..N /\ p - 1 = Cardinality(d[k])
    BY <1>2
  <2> HIDE DEF p
  <2>2. c[p] \in A /\ Cardinality(d[c[p]]) = Cardinality(d[k])
    BY <1>3, <2>1
  <2>3. c[p] = k
    BY <1>2, <2>2
  <2> QED BY <1>4, <2>1, <2>3 DEF ToSet
<1>8. ToSet(c) \subseteq A
  BY <1>3, <1>4 DEF ToSet
<1> QED BY <1>5, <1>6, <1>7, <1>8

\* Every entry is in the chain of its new index, and in no other.
LEMMA MovedChains ==
    ASSUME NEW t, NEW S, S \subseteq HashKeys, Chains(t, S), Record(t), NEW n \in Nat \ {0}
    PROVE  LET u == Moved(t, n, n) IN
           /\ Record(u) /\ SameBut(t, u, {"m_table", "m_tableLength"})
           /\ u.m_tableLength = n /\ Chains(u, S)
<1> DEFINE Slot(i) == {k \in KeysOf(t) : k % n = i}
           Chain(i) == [p \in 1..Cardinality(Slot(i)) |->
                           CHOOSE k \in Slot(i) : Cardinality(Slot(i) \cap Beyond(t, k)) = p - 1]
           made == [i \in 0..n - 1 |-> Chain(i)]
           u == Moved(t, n, n)
<1>1. u = [t EXCEPT !.m_tableLength = n, !.m_table = made]
  BY DEF Moved
<1>2. KeysOf(t) = S /\ Ordered(S, [k \in S |-> Beyond(t, k)])
  BY KeysAre, BeyondOrders
<1>3. ASSUME NEW i
      PROVE  Chain(i) \in Seq(HashKeys) /\ IsInjective(Chain(i)) /\ ToSet(Chain(i)) = Slot(i)
  <2> DEFINE A == Slot(i)
             d == [k \in A |-> A \cap Beyond(t, k)]
             c == Chain(i)
  <2>1. A \subseteq S /\ A \subseteq HashKeys
    BY <1>2
  <2>2. c = [p \in 1..Cardinality(A) |-> CHOOSE k \in A : Cardinality(A \cap Beyond(t, k)) = p - 1]
    OBVIOUS
  <2> HIDE DEF A, c
  <2>3. Ordered(A, d)
    BY <1>2, <2>1 DEF Ordered
  <2>4. Cardinality(A) \in Nat /\ \A p \in 0..Cardinality(A) - 1 : \E k \in A : Cardinality(d[k]) = p
    <3>1. IsFiniteSet(A)
      BY <2>1, HashAssumption, FS_Subset
    <3> HIDE DEF d
    <3> QED BY <2>3, <3>1, Ranks
  <2>5. ASSUME NEW p \in 1..Cardinality(A)
        PROVE  c[p] \in A /\ Cardinality(d[c[p]]) = p - 1
    <3>1. p - 1 \in 0..Cardinality(A) - 1
      BY <2>4
    <3>2. \E k \in A : Cardinality(A \cap Beyond(t, k)) = p - 1
      BY <2>4, <3>1
    <3>3. c[p] = CHOOSE k \in A : Cardinality(A \cap Beyond(t, k)) = p - 1
      BY <2>2
    <3>4. c[p] \in A /\ Cardinality(A \cap Beyond(t, c[p])) = p - 1
      BY <3>2, <3>3
    <3>5. d[c[p]] = A \cap Beyond(t, c[p])
      BY <3>4
    <3> QED BY <3>4, <3>5
  <2>6. c = [p \in 1..Cardinality(A) |-> c[p]]
    <3> DEFINE entry(p) == CHOOSE k \in A : Cardinality(A \cap Beyond(t, k)) = p - 1
    <3>1. c = [p \in 1..Cardinality(A) |-> entry(p)]
      BY <2>2
    <3> HIDE DEF entry
    <3> QED BY <3>1
  <2> HIDE DEF d
  <2>7. c \in Seq(HashKeys) /\ IsInjective(c) /\ ToSet(c) = A
    BY <2>1, <2>3, <2>5, <2>6, RankedChain
  <2> QED BY <2>7 DEF A, c
<1> HIDE DEF Chain
<1>4. DOMAIN made = 0..n - 1 /\ \A i \in 0..n - 1 : made[i] = Chain(i)
  OBVIOUS
<1> HIDE DEF u, made
<1>5. /\ Record(u) /\ SameBut(t, u, {"m_table", "m_tableLength"})
      /\ u.m_tableLength = n /\ u.m_table = made
  BY <1>1 DEF Record, SameBut, Fields
<1>6. \A k : Index(u, k) = k % n
  BY <1>5 DEF Index
<1>7. Chains(u, S)
  BY <1>2, <1>3, <1>4, <1>5, <1>6 DEF Chains
<1> QED BY <1>5, <1>7 DEF u

\* rehash(): the table grows, or is as long as it may be.
LEMMA RehashChains ==
    ASSUME NEW t, NEW S, S \subseteq HashKeys, Chains(t, S), Record(t)
    PROVE  LET u == Rehash(t) IN
           /\ Record(u) /\ SameBut(t, u, {"m_table", "m_tableLength"}) /\ Chains(u, S)
<1> DEFINE n == IF t.m_tableLength * 2 >= MaxLength THEN MaxLength ELSE t.m_tableLength * 2
<1>1. t.m_tableLength \in Nat \ {0}
  BY DEF Chains
<1>2. CASE t.m_tableLength >= MaxLength
  <2>1. Rehash(t) = t
    BY <1>2 DEF Rehash
  <2> QED BY <2>1 DEF SameBut
<1>3. CASE ~ (t.m_tableLength >= MaxLength)
  <2>1. Rehash(t) = Moved(t, n, n)
    BY <1>3 DEF Rehash
  <2>2. n \in Nat \ {0}
    BY <1>1, <1>3, HashAssumption
  <2> HIDE DEF n
  <2> QED BY <2>1, <2>2, MovedChains
<1> QED BY <1>2, <1>3

\* A key put in front of a chain, or behind the last.
LEMMA InFront ==
    ASSUME NEW c \in Seq(HashKeys), IsInjective(c), NEW k \in HashKeys \ ToSet(c)
    PROVE  /\ <<k>> \o c \in Seq(HashKeys) /\ IsInjective(<<k>> \o c)
           /\ ToSet(<<k>> \o c) = ToSet(c) \cup {k}
<1> DEFINE w == <<k>> \o c
<1>1. Len(c) \in Nat /\ DOMAIN c = 1..Len(c) /\ <<k>> \in Seq(HashKeys) /\ Len(<<k>>) = 1
      /\ <<k>>[1] = k
  OBVIOUS
<1>2. /\ w \in Seq(HashKeys) /\ Len(w) = 1 + Len(c)
      /\ \A i \in 1..1 + Len(c) : w[i] = IF i <= 1 THEN <<k>>[i] ELSE c[i - 1]
  BY <1>1, ConcatProperties
<1> HIDE DEF w
<1>3. DOMAIN w = 1..Len(c) + 1 /\ w[1] = k /\ \A i \in 1..Len(c) : w[i + 1] = c[i]
  BY <1>1, <1>2
<1>4. \A i \in 1..Len(c) : c[i] \in ToSet(c) /\ c[i] # k
  BY <1>1 DEF ToSet
<1>5. \A i \in 1..Len(c) + 1 : i = 1 \/ \E j \in 1..Len(c) : i = j + 1
  <2> SUFFICES ASSUME NEW i \in 1..Len(c) + 1, i # 1 PROVE \E j \in 1..Len(c) : i = j + 1
    OBVIOUS
  <2>1. i - 1 \in 1..Len(c) /\ i = i - 1 + 1
    BY <1>1
  <2> QED BY <2>1
<1>6. IsInjective(w)
  <2> SUFFICES ASSUME NEW i \in 1..Len(c) + 1, NEW j \in 1..Len(c) + 1, w[i] = w[j] PROVE i = j
    BY <1>3 DEF IsInjective
  <2>1. CASE i = 1 /\ j = 1
    BY <2>1
  <2>2. ASSUME NEW m \in 1..Len(c), i = m + 1, j = 1 PROVE FALSE
    BY <1>3, <1>4, <2>2
  <2>3. ASSUME NEW n \in 1..Len(c), j = n + 1, i = 1 PROVE FALSE
    BY <1>3, <1>4, <2>3
  <2>4. ASSUME NEW m \in 1..Len(c), i = m + 1, NEW n \in 1..Len(c), j = n + 1 PROVE i = j
    <3>1. c[m] = c[n]
      BY <1>3, <2>4
    <3>2. m = n
      BY <1>1, <3>1 DEF IsInjective
    <3> QED BY <2>4, <3>2
  <2> QED BY <1>5, <2>1, <2>2, <2>3, <2>4
<1>7. ASSUME NEW x PROVE x \in ToSet(w) <=> x \in ToSet(c) \/ x = k
  <2>1. x \in ToSet(w) <=> \E i \in 1..Len(c) + 1 : x = w[i]
    BY <1>3 DEF ToSet
  <2>2. x \in ToSet(c) <=> \E i \in 1..Len(c) : x = c[i]
    BY <1>1 DEF ToSet
  <2>3. 1 \in 1..Len(c) + 1 /\ \A i \in 1..Len(c) : i + 1 \in 1..Len(c) + 1
    BY <1>1
  <2> QED BY <1>3, <1>5, <2>1, <2>2, <2>3
<1>8. ToSet(w) = ToSet(c) \cup {k}
  BY <1>7
<1> QED BY <1>2, <1>6, <1>8 DEF w

\* An element put at the end of a sequence that does not have it.
LEMMA AtTheEnd ==
    ASSUME NEW S, NEW s \in Seq(S), IsInjective(s), NEW k \in S \ ToSet(s)
    PROVE  /\ Append(s, k) \in Seq(S) /\ IsInjective(Append(s, k))
           /\ ToSet(Append(s, k)) = ToSet(s) \cup {k} /\ Len(Append(s, k)) = Len(s) + 1
<1> DEFINE w == Append(s, k)
<1>1. Len(s) \in Nat /\ DOMAIN s = 1..Len(s)
  OBVIOUS
<1>2. /\ w \in Seq(S) /\ Len(w) = Len(s) + 1 /\ DOMAIN w = 1..Len(s) + 1
      /\ w[Len(s) + 1] = k /\ \A i \in 1..Len(s) : w[i] = s[i]
  OBVIOUS
<1>3. \A i \in 1..Len(s) : s[i] \in ToSet(s) /\ s[i] # k
  BY <1>1 DEF ToSet
<1> HIDE DEF w
<1>4. \A i \in 1..Len(s) + 1 : i = Len(s) + 1 \/ i \in 1..Len(s)
  BY <1>1
<1>5. IsInjective(w)
  BY <1>1, <1>2, <1>3, <1>4 DEF IsInjective
<1>6. ToSet(w) = ToSet(s) \cup {k}
  <2>1. \A i \in 1..Len(s) : i \in 1..Len(s) + 1
    BY <1>1
  <2>2. Len(s) + 1 \in 1..Len(s) + 1
    BY <1>1
  <2>3. \A x : x \in ToSet(w) <=> \E i \in 1..Len(s) + 1 : x = w[i]
    BY <1>2 DEF ToSet
  <2>4. \A x : x \in ToSet(s) <=> \E i \in 1..Len(s) : x = s[i]
    BY <1>1 DEF ToSet
  <2> QED BY <1>2, <1>4, <2>1, <2>2, <2>3, <2>4
<1> QED BY <1>2, <1>5, <1>6 DEF w

\* put() of a new key: the table may grow, the walk is given up.
LEMMA InsertSound ==
    ASSUME NEW t, NEW s, NEW rest, Sound(t, s, rest), NEW k \in HashKeys \ ToSet(s)
    PROVE  Sound(Insert(t, k), Append(s, k), {})
<1> DEFINE S == ToSet(s)
           u == [t EXCEPT !.m_entryCount = @ + 1, !.m_pcurEntry = NoEntry, !.m_uicurIndex = 0]
           w == IF u.m_entryCount >= Threshold(u) THEN Rehash(u) ELSE u
           x == Index(w, k)
           v == [w EXCEPT !.m_table[x] = <<k>> \o @]
           y == AddSequence(v, k)
<1>1. /\ Record(t) /\ LinksTyped(t) /\ s \in Seq(HashKeys) /\ IsInjective(s)
      /\ t.m_entryCount = Len(s) /\ Chains(t, S) /\ Linked(t, s)
      /\ S \subseteq HashKeys
  BY KeysIn DEF Sound
<1>2. Insert(t, k) = y
  BY DEF Insert
<1>3. /\ Record(u) /\ SameBut(t, u, {"m_entryCount", "m_pcurEntry", "m_uicurIndex"})
      /\ u.m_entryCount = Len(s) + 1 /\ u.m_pcurEntry = NoEntry /\ u.m_uicurIndex = 0
  BY <1>1 DEF Record, SameBut, Fields
<1> HIDE DEF u
<1>4. Chains(u, S)
  <2>1. u.m_table = t.m_table /\ u.m_tableLength = t.m_tableLength
    BY <1>3 DEF SameBut, Fields
  <2> QED BY <1>1, <2>1, SameChains
<1>5. Record(w) /\ SameBut(u, w, {"m_table", "m_tableLength"}) /\ Chains(w, S)
  <2>1. CASE u.m_entryCount >= Threshold(u)
    BY <1>1, <1>3, <1>4, <2>1, RehashChains
  <2>2. CASE ~ (u.m_entryCount >= Threshold(u))
    BY <1>3, <1>4, <2>2 DEF SameBut
  <2> QED BY <2>1, <2>2
<1> HIDE DEF w
<1>6. x \in DOMAIN w.m_table /\ k \notin ToSet(w.m_table[x])
      /\ w.m_table[x] \in Seq(HashKeys) /\ IsInjective(w.m_table[x])
  <2>1. x \in DOMAIN w.m_table /\ (ContainsKey(w, k) <=> k \in S)
    BY <1>1, <1>5, KeysAre
  <2>2. k \notin ToSet(w.m_table[x])
    BY <1>1, <2>1 DEF ContainsKey
  <2> QED BY <1>5, <2>1, <2>2 DEF Chains
<1> HIDE DEF x, S
<1>7. /\ Record(v) /\ SameBut(w, v, {"m_table"})
      /\ v.m_table = [w.m_table EXCEPT ![x] = <<k>> \o @]
  BY <1>5 DEF Record, SameBut, Fields
<1> HIDE DEF v
<1>8. v.m_tableLength = w.m_tableLength /\ \A l : Index(v, l) = Index(w, l)
  BY <1>7 DEF SameBut, Fields, Index
<1>9. Chains(v, S \cup {k})
  <2>1. v.m_tableLength \in Nat \ {0} /\ DOMAIN v.m_table = 0..v.m_tableLength - 1
    BY <1>5, <1>7, <1>8 DEF Chains
  <2>2. ASSUME NEW i \in DOMAIN v.m_table
        PROVE  /\ v.m_table[i] \in Seq(HashKeys) /\ IsInjective(v.m_table[i])
               /\ ToSet(v.m_table[i]) = {l \in S \cup {k} : Index(w, l) = i}
    <3>1. /\ i \in DOMAIN w.m_table
          /\ w.m_table[i] \in Seq(HashKeys) /\ IsInjective(w.m_table[i])
          /\ ToSet(w.m_table[i]) = {l \in S : Index(w, l) = i}
      BY <1>5, <1>7 DEF Chains
    <3>2. CASE i = x
      <4>1. v.m_table[i] = <<k>> \o w.m_table[i]
        BY <1>6, <1>7, <3>2
      <4>2. /\ v.m_table[i] \in Seq(HashKeys) /\ IsInjective(v.m_table[i])
            /\ ToSet(v.m_table[i]) = ToSet(w.m_table[i]) \cup {k}
        BY <1>6, <3>2, <4>1, InFront
      <4> QED BY <3>1, <3>2, <4>2 DEF x
    <3>3. CASE i # x
      <4>1. v.m_table[i] = w.m_table[i] /\ Index(w, k) # i
        BY <1>7, <3>1, <3>3 DEF x
      <4> QED BY <3>1, <4>1
    <3> QED BY <3>2, <3>3
  <2> QED BY <1>8, <2>1, <2>2 DEF Chains
<1>10. /\ v.s_prev = t.s_prev /\ v.s_next = t.s_next
       /\ v.seqHead = t.seqHead /\ v.seqTail = t.seqTail
       /\ v.m_entryCount = Len(s) + 1 /\ v.m_pcurEntry = NoEntry /\ v.m_uicurIndex = 0
  BY <1>3, <1>5, <1>7 DEF SameBut, Fields
<1>11. LinksTyped(v) /\ Linked(v, s)
  BY <1>1, <1>10 DEF LinksTyped, Linked
<1>12. k \notin ToSet(s)
  OBVIOUS
<1>13. /\ Record(y) /\ SameBut(v, y, {"seqHead", "seqTail", "s_prev", "s_next"})
       /\ LinksTyped(y) /\ Linked(y, Append(s, k))
  BY <1>1, <1>7, <1>11, <1>12, AddSequenceLinks
<1> HIDE DEF y
<1>14. /\ y.m_table = v.m_table /\ y.m_tableLength = v.m_tableLength
       /\ y.m_entryCount = Len(s) + 1 /\ y.m_pcurEntry = NoEntry /\ y.m_uicurIndex = 0
  BY <1>10, <1>13 DEF SameBut, Fields
<1>15. Chains(y, S \cup {k})
  BY <1>9, <1>14, SameChains
<1>16. /\ Append(s, k) \in Seq(HashKeys) /\ IsInjective(Append(s, k))
       /\ ToSet(Append(s, k)) = S \cup {k} /\ Len(Append(s, k)) = Len(s) + 1
  BY <1>1, AtTheEnd DEF S
<1>17. Walking(y, {})
  BY <1>14 DEF Walking
<1> QED BY <1>2, <1>13, <1>14, <1>15, <1>16, <1>17 DEF Sound

\* A table of empty chains, as at the start and after clear().
LEMMA EmptySound ==
    ASSUME NEW t, Record(t), LinksTyped(t), t.m_tableLength \in Nat \ {0},
           t.m_table = [i \in 0..t.m_tableLength - 1 |-> <<>>], t.m_entryCount = 0,
           t.m_pcurEntry = NoEntry, t.m_uicurIndex = 0,
           t.seqHead = NoEntry, t.seqTail = NoEntry
    PROVE  Sound(t, <<>>, {})
<1>1. ToSet(<<>>) = {} /\ IsInjective(<<>>) /\ <<>> \in Seq(HashKeys) /\ Len(<<>>) = 0
  BY DEF ToSet, IsInjective
<1>2. Chains(t, {})
  BY <1>1 DEF Chains
<1>3. Linked(t, <<>>)
  BY <1>1 DEF Linked, At
<1>4. Walking(t, {})
  BY DEF Walking
<1> QED BY <1>1, <1>2, <1>3, <1>4 DEF Sound

\* A new table is sound.
LEMMA StartSound == Sound(EmptyTable, <<>>, {})
<1>1. Record(EmptyTable)
  BY DEF Record, Fields, EmptyTable
<1>2. LinksTyped(EmptyTable)
  BY DEF LinksTyped, EmptyTable
<1> QED BY <1>1, <1>2, HashAssumption, EmptySound DEF EmptyTable

\* clear() keeps the length the table has grown to.
LEMMA ClearSound ==
    ASSUME NEW t, NEW s, NEW rest, Sound(t, s, rest)
    PROVE  Sound(ClearTable(t), <<>>, {})
<1> DEFINE u == ClearTable(t)
<1>1. t.m_tableLength \in Nat \ {0} /\ DOMAIN t.m_table = 0..t.m_tableLength - 1
  BY DEF Sound, Chains
<1>2. /\ Record(u) /\ SameBut(EmptyTable, u, {"m_table", "m_tableLength", "seqCur"})
      /\ u.m_tableLength = t.m_tableLength
      /\ u.m_table = [i \in DOMAIN t.m_table |-> <<>>]
  BY DEF ClearTable, EmptyTable, Record, SameBut, Fields
<1> HIDE DEF u
<1>3. /\ u.m_entryCount = 0 /\ u.m_pcurEntry = NoEntry /\ u.m_uicurIndex = 0
      /\ u.seqHead = NoEntry /\ u.seqTail = NoEntry
      /\ u.s_prev = [k \in HashKeys |-> NoEntry] /\ u.s_next = [k \in HashKeys |-> NoEntry]
  BY <1>2 DEF SameBut, Fields, EmptyTable
<1>4. LinksTyped(u)
  BY <1>3 DEF LinksTyped
<1>5. Sound(u, <<>>, {})
  BY <1>1, <1>2, <1>3, <1>4, EmptySound
<1> QED BY <1>5 DEF u

-----------------------------------------------------------------------------
HashInv == Sound(table, puts, owed)

\* The invariant of the table holds at the start.
LEMMA HashStart == HashInit => HashInv
  BY StartSound DEF HashInit, HashInv

\* Every step keeps the invariant of the table.
LEMMA HashStep == HashInv /\ [HashNext]_hashVars => HashInv'
<1> SUFFICES ASSUME HashInv, [HashNext]_hashVars PROVE HashInv'
  OBVIOUS
<1> USE DEF HashInv
<1>1. /\ Record(table) /\ puts \in Seq(HashKeys) /\ Chains(table, ToSet(puts))
      /\ ToSet(puts) \subseteq HashKeys /\ Walking(table, owed)
  BY KeysIn DEF Sound
<1>2. \A k \in HashKeys : ContainsKey(table, k) <=> k \in ToSet(puts)
  BY <1>1, KeysAre
<1>3. ASSUME NEW k \in HashKeys, PutKey(k) PROVE HashInv'
  <2>1. CASE ContainsKey(table, k)
    BY <1>3, <2>1 DEF PutKey
  <2>2. CASE ~ContainsKey(table, k)
    BY <1>2, <1>3, <2>2, InsertSound DEF PutKey
  <2> QED BY <2>1, <2>2
<1>4. ASSUME NEW k \in HashKeys, RemoveKey(k) PROVE HashInv'
  BY <1>2, <1>4, RemovedSound DEF RemoveKey
<1>5. CASE ClearAll
  BY <1>5, ClearSound DEF ClearAll
<1>6. CASE ResetWalk
  <2>1. /\ Record(table') /\ SameBut(table, table', {"m_pcurEntry", "m_uicurIndex"})
        /\ Walking(table', owed') /\ puts' = puts
    BY <1>1, <1>6, ResetWalks DEF ResetWalk
  <2>2. SameBut(table, table', {"m_pcurEntry", "m_uicurIndex", "seqCur"})
    BY <2>1 DEF SameBut
  <2> QED BY <2>1, <2>2, SoundWalk
<1>7. CASE GetNext
  <2>1. /\ Record(table') /\ SameBut(table, table', {"m_pcurEntry", "m_uicurIndex"})
        /\ Walking(table', owed') /\ puts' = puts
    BY <1>1, <1>7, SearchNextWalks DEF GetNext
  <2>2. SameBut(table, table', {"m_pcurEntry", "m_uicurIndex", "seqCur"})
    BY <2>1 DEF SameBut
  <2> QED BY <2>1, <2>2, SoundWalk
<1>8. ASSUME NEW e, table' = [table EXCEPT !.seqCur = e], UNCHANGED <<puts, owed>> PROVE HashInv'
  <2>1. Record(table') /\ SameBut(table, table', {"seqCur"})
    BY <1>1, <1>8 DEF Record, SameBut, Fields
  <2>2. SameBut(table, table', {"m_pcurEntry", "m_uicurIndex", "seqCur"})
    BY <2>1 DEF SameBut
  <2>3. Walking(table', owed)
    <3>1. /\ table'.m_table = table.m_table /\ table'.m_tableLength = table.m_tableLength
          /\ table'.m_pcurEntry = table.m_pcurEntry /\ table'.m_uicurIndex = table.m_uicurIndex
      BY <2>1 DEF SameBut, Fields
    <3> QED BY <1>1, <3>1, SameChains DEF Walking
  <2> QED BY <1>8, <2>1, <2>2, <2>3, SoundWalk
<1>9. CASE ResetSeq
  BY <1>8, <1>9 DEF ResetSeq
<1>10. CASE GetNextSeq
  BY <1>8, <1>10 DEF GetNextSeq
<1>11. CASE UNCHANGED hashVars
  BY <1>11 DEF hashVars
<1> QED BY <1>3, <1>4, <1>5, <1>6, <1>7, <1>9, <1>10, <1>11 DEF HashNext

\* Whatever is put and removed, and however often the table grows, exactly the keys
\* put and not removed are found, counted and linked in the order they were put.
THEOREM HashHolds == HashSpec => []TableIsConsistent
<1>1. HashInv => TableIsConsistent
  <2> SUFFICES ASSUME HashInv PROVE TableIsConsistent
    OBVIOUS
  <2>1. /\ Chains(table, ToSet(puts)) /\ Linked(table, puts) /\ table.m_entryCount = Len(puts)
        /\ ToSet(puts) \subseteq HashKeys
    BY KeysIn DEF HashInv, Sound
  <2>2. \A k \in HashKeys : ContainsKey(table, k) <=> k \in ToSet(puts)
    BY <2>1, KeysAre
  <2> QED BY <2>1, <2>2 DEF TableIsConsistent, Linked
<1> QED BY <1>1, HashStart, HashStep, PTL DEF HashSpec

\* A walk by reset() and getNext() returns every entry once, whatever is removed
\* under it.
THEOREM HashWalk == HashSpec => []WalkIsComplete
<1>1. HashInv => WalkIsComplete
  BY DEF HashInv, Sound, Walking, WalkIsComplete
<1> QED BY <1>1, HashStart, HashStep, PTL DEF HashSpec

-----------------------------------------------------------------------------
(* Linked entries.                                                         *)

\* The entries of a sequence, and the tag on either side of them.
Around(s, i) == IF i \in 1..Len(s) THEN s[i] ELSE Tag

\* The entries are linked to a ring in that order.
Joined(nx, pv, s) == \A i \in 0..Len(s) : /\ nx[Around(s, i)] = Around(s, i + 1)
                                          /\ pv[Around(s, i + 1)] = Around(s, i)

\* No place around a sequence is another's, but that the tag is at both ends.
LEMMA AroundIs ==
    ASSUME NEW s \in Seq(Entries), IsInjective(s)
    PROVE  /\ \A i \in 0..Len(s) + 1 : Around(s, i) \in Entries \cup {Tag}
           /\ \A i \in 1..Len(s) : Around(s, i) = s[i] /\ s[i] \in Entries /\ s[i] # Tag
           /\ Around(s, 0) = Tag /\ Around(s, Len(s) + 1) = Tag
           /\ \A i, j \in 0..Len(s) : Around(s, i) = Around(s, j) => i = j
           /\ \A i, j \in 1..Len(s) + 1 : Around(s, i) = Around(s, j) => i = j
<1>1. Len(s) \in Nat /\ DOMAIN s = 1..Len(s)
  OBVIOUS
<1>2. \A i \in 1..Len(s) : Around(s, i) = s[i] /\ s[i] \in Entries /\ s[i] # Tag
  BY <1>1, EntriesAssumption DEF Around
<1>3. Around(s, 0) = Tag /\ Around(s, Len(s) + 1) = Tag
  BY <1>1 DEF Around
<1>4. \A i, j \in 1..Len(s) : s[i] = s[j] => i = j
  BY <1>1 DEF IsInjective
<1>5. /\ \A i \in 0..Len(s) : i = 0 \/ i \in 1..Len(s)
      /\ \A i \in 1..Len(s) + 1 : i = Len(s) + 1 \/ i \in 1..Len(s)
      /\ \A i \in 0..Len(s) + 1 : i = 0 \/ i = Len(s) + 1 \/ i \in 1..Len(s)
  BY <1>1
<1> HIDE <1>1
<1> QED BY <1>2, <1>3, <1>4, <1>5

\* What is around a sequence from which an entry has been taken.
LEMMA AroundWithout ==
    ASSUME NEW s \in Seq(Entries), IsInjective(s), NEW c \in 1..Len(s)
    PROVE  LET w == WithoutKey(s, s[c]) IN
           /\ w \in Seq(Entries) /\ IsInjective(w) /\ ToSet(w) = ToSet(s) \ {s[c]}
           /\ Len(w) = Len(s) - 1 /\ s[c] \in ToSet(s)
           /\ \A i \in 0..Len(s) : Around(w, i) = IF i < c THEN Around(s, i) ELSE Around(s, i + 1)
<1> DEFINE w == WithoutKey(s, s[c])
<1>0. Len(s) \in Nat /\ c \in Nat /\ c >= 1 /\ c <= Len(s)
  OBVIOUS
<1>1. s[c] \in ToSet(s) /\ Place(s, s[c]) = c
  BY PlaceIs DEF ToSet
<1>2. /\ w \in Seq(Entries) /\ Len(w) = Len(s) - 1
      /\ IsInjective(w) /\ ToSet(w) = ToSet(s) \ {s[c]}
      /\ \A i \in 1..Len(s) - 1 : w[i] = IF i < c THEN s[i] ELSE s[i + 1]
  BY <1>1, WithoutKeyIs
<1> HIDE DEF w
<1>3. ASSUME NEW i \in 0..Len(s) PROVE Around(w, i) = IF i < c THEN Around(s, i) ELSE Around(s, i + 1)
  <2>1. CASE i \in 1..Len(s) - 1
    <3>1. Around(w, i) = w[i] /\ i \in 1..Len(s) /\ i + 1 \in 1..Len(s)
      BY <1>0, <1>2, <2>1 DEF Around
    <3> QED BY <1>2, <2>1, <3>1, AroundIs
  <2>2. CASE i = 0
    <3>1. i < c /\ i \notin 1..Len(w)
      BY <1>0, <1>2, <2>2
    <3> QED BY <2>2, <3>1, AroundIs DEF Around
  <2>3. CASE i = Len(s)
    <3>1. ~(i < c) /\ i \notin 1..Len(w)
      BY <1>0, <1>2, <2>3
    <3> QED BY <2>3, <3>1, AroundIs DEF Around
  <2>4. i \in 1..Len(s) - 1 \/ i = 0 \/ i = Len(s)
    BY <1>0
  <2> QED BY <2>1, <2>2, <2>3, <2>4
<1> QED BY <1>1, <1>2, <1>3 DEF w

\* Links that are the same but for some entries'.
SameLinks(nx, ny, but) == \A x \in Entries \cup {Tag} : x \notin but => ny[x] = nx[x]

\* An entry is taken out of the ring.
LEMMA JoinedWithout ==
    ASSUME NEW s \in Seq(Entries), IsInjective(s), NEW c \in 1..Len(s),
           NEW nx, NEW pv, Joined(nx, pv, s), NEW ny, NEW py,
           ny[Around(s, c - 1)] = Around(s, c + 1), py[Around(s, c + 1)] = Around(s, c - 1),
           SameLinks(nx, ny, {s[c], Around(s, c - 1)}), SameLinks(pv, py, {s[c], Around(s, c + 1)})
    PROVE  Joined(ny, py, WithoutKey(s, s[c]))
<1> DEFINE w == WithoutKey(s, s[c])
<1>0. Len(s) \in Nat /\ c \in Nat /\ c >= 1 /\ c <= Len(s)
  OBVIOUS
<1>2. Len(w) = Len(s) - 1
  BY AroundWithout
<1>3. \A i \in 0..Len(s) : Around(w, i) = IF i < c THEN Around(s, i) ELSE Around(s, i + 1)
  BY AroundWithout
<1> HIDE DEF w
<1>4. /\ \A i, j \in 0..Len(s) : Around(s, i) = Around(s, j) => i = j
      /\ \A i, j \in 1..Len(s) + 1 : Around(s, i) = Around(s, j) => i = j
      /\ \A i \in 0..Len(s) + 1 : Around(s, i) \in Entries \cup {Tag}
      /\ Around(s, c) = s[c]
  BY AroundIs
<1>5. ASSUME NEW i \in 0..Len(s), i # c, i # c - 1 PROVE ny[Around(s, i)] = Around(s, i + 1)
  <2>1. c \in 0..Len(s) /\ c - 1 \in 0..Len(s) /\ i \in 0..Len(s) + 1
    BY <1>0
  <2>2. Around(s, i) # s[c] /\ Around(s, i) # Around(s, c - 1)
    BY <1>4, <1>5, <2>1
  <2>3. nx[Around(s, i)] = Around(s, i + 1)
    BY DEF Joined
  <2> QED BY <1>4, <2>1, <2>2, <2>3 DEF SameLinks
<1>6. ASSUME NEW i \in 0..Len(s), i # c, i # c - 1 PROVE py[Around(s, i + 1)] = Around(s, i)
  <2>1. c \in 1..Len(s) + 1 /\ c + 1 \in 1..Len(s) + 1 /\ i + 1 \in 1..Len(s) + 1
        /\ i + 1 \in 0..Len(s) + 1 /\ i + 1 # c /\ i + 1 # c + 1
    BY <1>0, <1>6
  <2>2. Around(s, i + 1) # s[c] /\ Around(s, i + 1) # Around(s, c + 1)
    BY <1>4, <2>1
  <2>3. pv[Around(s, i + 1)] = Around(s, i)
    BY DEF Joined
  <2> QED BY <1>4, <2>1, <2>2, <2>3 DEF SameLinks
<1>7. ASSUME NEW i \in 0..Len(w)
      PROVE  ny[Around(w, i)] = Around(w, i + 1) /\ py[Around(w, i + 1)] = Around(w, i)
  <2>1. i \in 0..Len(s) /\ i + 1 \in 0..Len(s)
    BY <1>0, <1>2
  <2>2. CASE i + 1 < c
    <3>1. i < c /\ i # c /\ i # c - 1
      BY <1>0, <2>2
    <3>2. Around(w, i) = Around(s, i) /\ Around(w, i + 1) = Around(s, i + 1)
      BY <1>3, <2>1, <2>2, <3>1
    <3> QED BY <1>5, <1>6, <2>1, <3>1, <3>2
  <2>3. CASE i + 1 = c
    <3>1. i < c /\ ~(i + 1 < c) /\ i = c - 1 /\ i + 1 + 1 = c + 1
      BY <1>0, <2>3
    <3>2. Around(w, i) = Around(s, c - 1) /\ Around(w, i + 1) = Around(s, c + 1)
      BY <1>3, <2>1, <3>1
    <3> QED BY <3>2
  <2>4. CASE i + 1 > c
    <3>1. ~(i < c) /\ ~(i + 1 < c) /\ i + 1 # c /\ i + 1 # c - 1
      BY <1>0, <2>4
    <3>2. Around(w, i) = Around(s, i + 1) /\ Around(w, i + 1) = Around(s, i + 1 + 1)
      BY <1>3, <2>1, <3>1
    <3> QED BY <1>5, <1>6, <2>1, <3>1, <3>2
  <2>5. i + 1 < c \/ i + 1 = c \/ i + 1 > c
    BY <1>0
  <2> QED BY <2>2, <2>3, <2>4, <2>5
<1>8. Joined(ny, py, w)
  BY <1>7 DEF Joined
<1> QED BY <1>8 DEF w

\* What is around a sequence to which an entry has been appended.
LEMMA AroundBehind ==
    ASSUME NEW s \in Seq(Entries), IsInjective(s), NEW e \in Entries \ ToSet(s)
    PROVE  LET a == Append(s, e) IN
           /\ a \in Seq(Entries) /\ IsInjective(a) /\ ToSet(a) = ToSet(s) \cup {e}
           /\ Len(a) = Len(s) + 1
           /\ \A i \in 0..Len(s) : Around(a, i) = Around(s, i)
           /\ Around(a, Len(s) + 1) = e /\ Around(a, Len(s) + 1 + 1) = Tag
<1> DEFINE a == Append(s, e)
<1>0. Len(s) \in Nat
  OBVIOUS
<1>1. /\ a \in Seq(Entries) /\ Len(a) = Len(s) + 1
      /\ a[Len(s) + 1] = e /\ \A i \in 1..Len(s) : a[i] = s[i]
  OBVIOUS
<1>4. IsInjective(a) /\ ToSet(a) = ToSet(s) \cup {e}
  BY AtTheEnd
<1> HIDE DEF a
<1>2. \A i \in 1..Len(s) : s[i] # e
  BY DEF ToSet
<1>3. /\ \A i \in 0..Len(s) : Around(a, i) = Around(s, i)
      /\ Around(a, Len(s) + 1) = e /\ Around(a, Len(s) + 1 + 1) = Tag
  <2>1. ASSUME NEW i \in 1..Len(s) PROVE Around(a, i) = Around(s, i)
    <3>1. i \in 1..Len(a)
      BY <1>0, <1>1
    <3> QED BY <1>1, <3>1 DEF Around
  <2>2. Around(a, 0) = Around(s, 0)
    <3>1. 0 \notin 1..Len(a)
      BY <1>0, <1>1
    <3> QED BY <3>1, AroundIs DEF Around
  <2>3. Len(s) + 1 \in 1..Len(a) /\ Len(s) + 1 + 1 \notin 1..Len(a)
    BY <1>0, <1>1
  <2>4. \A i \in 0..Len(s) : i = 0 \/ i \in 1..Len(s)
    BY <1>0
  <2> QED BY <1>1, <2>1, <2>2, <2>3, <2>4 DEF Around
<1> QED BY <1>1, <1>3, <1>4 DEF a

\* An entry is put behind the last.
LEMMA JoinedBehind ==
    ASSUME NEW s \in Seq(Entries), IsInjective(s), NEW e \in Entries \ ToSet(s),
           NEW nx, NEW pv, Joined(nx, pv, s), NEW ny, NEW py,
           ny[Around(s, Len(s))] = e, ny[e] = Tag, py[Tag] = e, py[e] = Around(s, Len(s)),
           SameLinks(nx, ny, {e, Around(s, Len(s))}), SameLinks(pv, py, {e, Tag})
    PROVE  Joined(ny, py, Append(s, e))
<1> DEFINE a == Append(s, e)
           last == Around(s, Len(s))
<1>0. Len(s) \in Nat
  OBVIOUS
<1>1. Len(a) = Len(s) + 1
  BY AroundBehind
<1>2. \A i \in 1..Len(s) : s[i] # e
  BY DEF ToSet
<1>3. /\ \A i \in 0..Len(s) : Around(a, i) = Around(s, i)
      /\ Around(a, Len(s) + 1) = e /\ Around(a, Len(s) + 1 + 1) = Tag
  BY AroundBehind
<1> HIDE DEF a
<1>4. \A i \in 0..Len(s) : Around(s, i) # e /\ Around(s, i) \in Entries \cup {Tag}
  <2>1. \A i \in 0..Len(s) : i = 0 \/ i \in 1..Len(s)
    BY <1>0
  <2> QED BY <1>2, <2>1, AroundIs, EntriesAssumption
<1> HIDE DEF last
<1>5. ASSUME NEW i \in 0..Len(s) - 1
      PROVE  ny[Around(a, i)] = Around(a, i + 1) /\ py[Around(a, i + 1)] = Around(a, i)
  <2>1. i \in 0..Len(s) /\ i + 1 \in 0..Len(s) /\ i + 1 \in 1..Len(s) /\ Len(s) \in 0..Len(s) /\ i # Len(s)
    BY <1>0
  <2>2. Around(s, i) # last
    BY <2>1, AroundIs DEF last
  <2>3. Around(s, i + 1) # Tag
    BY <2>1, AroundIs
  <2>4. nx[Around(s, i)] = Around(s, i + 1) /\ pv[Around(s, i + 1)] = Around(s, i)
    BY <2>1 DEF Joined
  <2> QED BY <1>3, <1>4, <2>1, <2>2, <2>3, <2>4 DEF last, SameLinks
<1>6. ny[Around(a, Len(s))] = Around(a, Len(s) + 1) /\ py[Around(a, Len(s) + 1)] = Around(a, Len(s))
  <2>1. Len(s) \in 0..Len(s)
    BY <1>0
  <2> QED BY <1>3, <2>1
<1>7. /\ ny[Around(a, Len(s) + 1)] = Around(a, Len(s) + 1 + 1)
      /\ py[Around(a, Len(s) + 1 + 1)] = Around(a, Len(s) + 1)
  BY <1>3
<1>8. \A i \in 0..Len(a) : i \in 0..Len(s) - 1 \/ i = Len(s) \/ i = Len(s) + 1
  BY <1>0, <1>1
<1>9. Joined(ny, py, a)
  BY <1>5, <1>6, <1>7, <1>8 DEF Joined
<1> QED BY <1>9 DEF a

-----------------------------------------------------------------------------
Targets == Entries \cup {Tag, Null}
Links == [Entries \cup {Tag} -> Targets]

\* Two entries' links are set.
Relinked(f, e, z, x, y) == [f EXCEPT ![e] = z, ![x] = y]

\* Links of which two are set: to what they lead, and that the others stay.
LEMMA RelinkedIs ==
    ASSUME NEW f \in Links, NEW e \in Entries,
           NEW x \in Entries \cup {Tag}, NEW y \in Entries \cup {Tag}, x # e,
           NEW z \in Targets
    PROVE  /\ Relinked(f, e, z, x, y) \in Links
           /\ Relinked(f, e, z, x, y)[e] = z /\ Relinked(f, e, z, x, y)[x] = y
           /\ SameLinks(f, Relinked(f, e, z, x, y), {e, x})
  BY DEF Relinked, SameLinks, Links, Targets

RingFields == {"prev", "next", "value", "used", "m_count", "m_pHead", "m_pTail", "m_pCurrent"}

\* A list of the entries of s, in that order.
Ring(b, s) == /\ s \in Seq(Entries) /\ IsInjective(s)
              /\ DOMAIN b = RingFields /\ b = [f \in RingFields |-> b[f]]
              /\ b.prev \in Links
              /\ b.next \in Links
              /\ DOMAIN b.value = Entries /\ b.value = [e \in Entries |-> b.value[e]]
              /\ b.used = ToSet(s) /\ b.m_count = Len(s)
              /\ b.m_pHead = Around(s, 1) /\ b.m_pTail = Around(s, Len(s))
              /\ Joined(b.next, b.prev, s)

\* A list without entries is a ring of the tag alone.
LEMMA EmptyRingIs == Ring(EmptyList, <<>>)
<1>1. ToSet(<<>>) = {} /\ IsInjective(<<>>) /\ <<>> \in Seq(Entries) /\ Len(<<>>) = 0
  BY DEF ToSet, IsInjective
<1>2. \A i : Around(<<>>, i) = Tag
  BY <1>1 DEF Around
<1>3. /\ DOMAIN EmptyList = RingFields /\ EmptyList = [f \in RingFields |-> EmptyList[f]]
      /\ EmptyList.prev = [e \in Entries \cup {Tag} |-> IF e = Tag THEN Tag ELSE Null]
      /\ EmptyList.next = [e \in Entries \cup {Tag} |-> IF e = Tag THEN Tag ELSE Null]
      /\ EmptyList.value = [e \in Entries |-> Null]
      /\ EmptyList.used = {} /\ EmptyList.m_count = 0
      /\ EmptyList.m_pHead = Tag /\ EmptyList.m_pTail = Tag
  BY DEF EmptyList, RingFields
<1>4. Joined(EmptyList.next, EmptyList.prev, <<>>)
  BY <1>2, <1>3 DEF Joined
<1>5. EmptyList.prev \in Links /\ EmptyList.next \in Links
  BY <1>3 DEF Links, Targets
<1> QED BY <1>1, <1>2, <1>3, <1>4, <1>5 DEF Ring

\* Taking any entry out, the first, the last or one between.
LEMMA UnlinkKeyRing ==
    ASSUME NEW b, NEW s, Ring(b, s), NEW e \in ToSet(s)
    PROVE  /\ Ring(UnlinkKey(b, e), WithoutKey(s, e))
           /\ UnlinkKey(b, e).value = [b.value EXCEPT ![e] = Null]
<1> DEFINE c == Place(s, e)
           w == WithoutKey(s, e)
           p == b.prev[e]
           n == b.next[e]
           u == UnlinkKey(b, e)
<1>1. /\ s \in Seq(Entries) /\ IsInjective(s)
      /\ DOMAIN b = RingFields /\ b = [f \in RingFields |-> b[f]]
      /\ b.prev \in Links
      /\ b.next \in Links
      /\ DOMAIN b.value = Entries /\ b.value = [x \in Entries |-> b.value[x]]
      /\ b.used = ToSet(s) /\ b.m_count = Len(s)
      /\ b.m_pHead = Around(s, 1) /\ b.m_pTail = Around(s, Len(s))
      /\ Joined(b.next, b.prev, s)
  BY DEF Ring
<1>2. c \in 1..Len(s) /\ s[c] = e
  BY <1>1, PlaceIs
<1>0. Len(s) \in Nat /\ c \in Nat /\ c >= 1 /\ c <= Len(s)
  BY <1>1, <1>2
<1> HIDE DEF c
<1>3. /\ w \in Seq(Entries) /\ IsInjective(w) /\ ToSet(w) = ToSet(s) \ {e} /\ Len(w) = Len(s) - 1
      /\ \A i \in 0..Len(s) : Around(w, i) = IF i < c THEN Around(s, i) ELSE Around(s, i + 1)
  BY <1>1, <1>2, AroundWithout
<1>4. p = Around(s, c - 1) /\ n = Around(s, c + 1)
  <2>1. c \in 0..Len(s) /\ c - 1 \in 0..Len(s) /\ c - 1 + 1 = c
    BY <1>0
  <2>2. Around(s, c) = e
    BY <1>1, <1>2, AroundIs
  <2>3. b.next[Around(s, c)] = Around(s, c + 1) /\ b.prev[Around(s, c - 1 + 1)] = Around(s, c - 1)
    BY <1>1, <2>1 DEF Joined
  <2> QED BY <2>1, <2>2, <2>3
<1>5. e \in Entries /\ p \in Entries \cup {Tag} /\ n \in Entries \cup {Tag} /\ p # e /\ n # e
  <2>1. /\ c \in 0..Len(s) /\ c - 1 \in 0..Len(s) /\ c - 1 # c /\ c + 1 # c
        /\ c \in 1..Len(s) + 1 /\ c + 1 \in 1..Len(s) + 1
        /\ c - 1 \in 0..Len(s) + 1 /\ c + 1 \in 0..Len(s) + 1
    BY <1>0
  <2> QED BY <1>1, <1>2, <1>4, <2>1, AroundIs
<1>6. /\ DOMAIN u = RingFields /\ u = [f \in RingFields |-> u[f]]
      /\ u.prev = Relinked(b.prev, e, Null, n, p) /\ u.next = Relinked(b.next, e, Null, p, n)
      /\ u.value = [b.value EXCEPT ![e] = Null]
      /\ u.used = b.used \ {e} /\ u.m_count = b.m_count - 1
      /\ u.m_pHead = (IF p = Tag THEN n ELSE b.m_pHead)
      /\ u.m_pTail = (IF n = Tag THEN p ELSE b.m_pTail)
  <2>1. u = [[b EXCEPT !.used = @ \ {e}, !.m_count = @ - 1, !.prev[e] = Null, !.next[e] = Null,
                       !.value[e] = Null]
              EXCEPT !.next[p] = n, !.prev[n] = p, !.m_pTail = IF n = Tag THEN p ELSE @,
                     !.m_pHead = IF p = Tag THEN n ELSE @,
                     !.m_pCurrent = IF p = Tag THEN n ELSE IF n = Tag THEN p ELSE @]
    BY DEF UnlinkKey, Delete
  <2> HIDE DEF u, p, n
  <2> QED BY <1>1, <2>1, ZenonT(60) DEF RingFields, Relinked
<1> HIDE DEF u, p, n, w
<1>14. \A f \in Links, x, y \in Entries \cup {Tag} : x # e =>
         /\ Relinked(f, e, Null, x, y) \in Links
         /\ Relinked(f, e, Null, x, y)[x] = y
         /\ SameLinks(f, Relinked(f, e, Null, x, y), {e, x})
  <2>1. Null \in Targets
    BY DEF Targets
  <2> QED BY <1>5, <2>1, RelinkedIs
<1>15. /\ Relinked(b.prev, e, Null, n, p) \in Links
       /\ Relinked(b.prev, e, Null, n, p)[n] = p
       /\ SameLinks(b.prev, Relinked(b.prev, e, Null, n, p), {e, n})
  <2>1. b.prev \in Links
    BY <1>1
  <2>2. p \in Entries \cup {Tag} /\ n \in Entries \cup {Tag} /\ n # e
    BY <1>5
  <2> QED BY <1>14, <2>1, <2>2
<1>16. /\ Relinked(b.next, e, Null, p, n) \in Links
       /\ Relinked(b.next, e, Null, p, n)[p] = n
       /\ SameLinks(b.next, Relinked(b.next, e, Null, p, n), {e, p})
  <2>1. b.next \in Links
    BY <1>1
  <2>2. p \in Entries \cup {Tag} /\ n \in Entries \cup {Tag} /\ p # e
    BY <1>5
  <2> QED BY <1>14, <2>1, <2>2
<1>7. /\ u.prev \in Links
      /\ u.next \in Links
      /\ DOMAIN u.value = Entries /\ u.value = [x \in Entries |-> u.value[x]]
  <2>1. u.prev \in Links
    BY <1>6, <1>15, <1>16
  <2>2. u.next \in Links
    BY <1>6, <1>15, <1>16
  <2>3. DOMAIN u.value = Entries
    BY <1>1, <1>5, <1>6
  <2>4. u.value = [x \in Entries |-> u.value[x]]
    BY <1>6, <2>3
  <2> QED BY <2>1, <2>2, <2>3, <2>4
<1>8. Joined(u.next, u.prev, w)
  <2>1. u.next[p] = n /\ SameLinks(b.next, u.next, {e, p})
    BY <1>6, <1>15, <1>16
  <2>2. u.prev[n] = p /\ SameLinks(b.prev, u.prev, {e, n})
    BY <1>6, <1>15, <1>16
  <2>3. /\ u.next[Around(s, c - 1)] = Around(s, c + 1) /\ u.prev[Around(s, c + 1)] = Around(s, c - 1)
        /\ SameLinks(b.next, u.next, {s[c], Around(s, c - 1)})
        /\ SameLinks(b.prev, u.prev, {s[c], Around(s, c + 1)})
    BY <1>2, <1>4, <2>1, <2>2
  <2>4. Joined(u.next, u.prev, WithoutKey(s, s[c]))
    <3>1. s \in Seq(Entries) /\ IsInjective(s) /\ Joined(b.next, b.prev, s)
      BY <1>1
    <3> HIDE <1>1, <1>3, <1>4, <1>5, <1>6, <1>7, <2>1, <2>2
    <3> QED BY <1>2, <2>3, <3>1, JoinedWithout
  <2> QED BY <1>2, <2>4 DEF w
<1>9. u.m_pHead = Around(w, 1)
  <2>1. 1 \in 0..Len(s) /\ c - 1 \in 0..Len(s) /\ 0 \in 0..Len(s) /\ (c # 1 => 1 < c)
    BY <1>0
  <2>2. p = Tag <=> c - 1 = 0
    <3>1. Around(s, 0) = Tag /\ (Around(s, c - 1) = Around(s, 0) => c - 1 = 0)
      BY <1>1, <2>1, AroundIs
    <3> QED BY <1>4, <3>1
  <2>3. CASE c = 1
    BY <1>3, <1>4, <1>6, <2>1, <2>2, <2>3
  <2>4. CASE c # 1
    <3>1. p # Tag /\ 1 < c
      BY <1>0, <2>2, <2>1, <2>4
    <3> QED BY <1>1, <1>3, <1>6, <2>1, <3>1
  <2> QED BY <2>3, <2>4
<1>10. u.m_pTail = Around(w, Len(w))
  <2>1. c + 1 \in 1..Len(s) + 1 /\ Len(s) + 1 \in 1..Len(s) + 1 /\ Len(w) \in 0..Len(s) /\ Len(w) + 1 = Len(s)
    BY <1>0, <1>3
  <2>2. n = Tag <=> c + 1 = Len(s) + 1
    BY <1>1, <1>4, <2>1, AroundIs
  <2>3. CASE c = Len(s)
    <3>1. Len(w) < c /\ Len(w) = c - 1
      BY <1>0, <1>3, <2>3
    <3>2. Around(w, Len(w)) = Around(s, c - 1)
      BY <1>3, <2>1, <3>1
    <3> QED BY <1>4, <1>6, <2>2, <2>3, <3>2
  <2>4. CASE c # Len(s)
    <3>1. ~(Len(w) < c) /\ n # Tag
      BY <1>0, <1>3, <2>2, <2>4
    <3>2. Around(w, Len(w)) = Around(s, Len(s))
      BY <1>3, <2>1, <3>1
    <3> QED BY <1>1, <1>6, <3>1, <3>2
  <2> QED BY <2>3, <2>4
<1>11. u.used = ToSet(w) /\ u.m_count = Len(w)
  BY <1>1, <1>3, <1>6
<1>12. Ring(u, w)
  BY <1>3, <1>6, <1>7, <1>8, <1>9, <1>10, <1>11 DEF Ring
<1> QED BY <1>6, <1>12 DEF u, w

\* Taking from an end is that.
LEMMA PopIsUnlink ==
    ASSUME NEW b, NEW s, Ring(b, s), s # <<>>
    PROVE  /\ b.m_pHead = s[1] /\ s[1] \in ToSet(s) /\ b.m_pTail = s[Len(s)] /\ s[Len(s)] \in ToSet(s)
           /\ PopFront(b) = UnlinkKey(b, b.m_pHead)
           /\ PopBack(b) = UnlinkKey(b, b.m_pTail)
<1>1. /\ s \in Seq(Entries) /\ IsInjective(s)
      /\ DOMAIN b = RingFields /\ b = [f \in RingFields |-> b[f]]
      /\ b.m_count = Len(s)
      /\ b.m_pHead = Around(s, 1) /\ b.m_pTail = Around(s, Len(s))
      /\ Joined(b.next, b.prev, s)
  BY DEF Ring
<1>2. Len(s) \in Nat /\ Len(s) # 0 /\ 1 \in 1..Len(s) /\ Len(s) \in 1..Len(s) /\ DOMAIN s = 1..Len(s)
  BY <1>1, EmptySeq
<1>3. /\ b.m_pHead = s[1] /\ s[1] \in ToSet(s) /\ b.m_pTail = s[Len(s)] /\ s[Len(s)] \in ToSet(s)
  BY <1>1, <1>2, AroundIs DEF ToSet
<1>4. b.prev[b.m_pHead] = Tag /\ b.next[b.m_pTail] = Tag
  <2>1. 0 \in 0..Len(s) /\ Len(s) \in 0..Len(s) /\ 0 + 1 = 1
    BY <1>2
  <2>2. b.prev[Around(s, 1)] = Around(s, 0) /\ b.next[Around(s, Len(s))] = Around(s, Len(s) + 1)
    BY <1>1, <2>1 DEF Joined
  <2>3. Around(s, 0) = Tag /\ Around(s, Len(s) + 1) = Tag
    BY <1>1, AroundIs
  <2> QED BY <1>1, <2>2, <2>3
<1>5. /\ b.next[b.m_pHead] = Tag <=> Len(s) = 1
      /\ b.prev[b.m_pTail] = Tag <=> Len(s) = 1
  <2>1. /\ 1 \in 0..Len(s) /\ Len(s) - 1 \in 0..Len(s) /\ Len(s) - 1 + 1 = Len(s) /\ 0 \in 0..Len(s)
        /\ 1 + 1 \in 1..Len(s) + 1 /\ Len(s) + 1 \in 1..Len(s) + 1
    BY <1>2
  <2>2. b.next[b.m_pHead] = Around(s, 1 + 1) /\ b.prev[b.m_pTail] = Around(s, Len(s) - 1)
    BY <1>1, <2>1 DEF Joined
  <2>3. Around(s, 1 + 1) = Tag <=> 1 + 1 = Len(s) + 1
    <3>1. /\ Around(s, Len(s) + 1) = Tag
          /\ \A i, j \in 1..Len(s) + 1 : Around(s, i) = Around(s, j) => i = j
      BY <1>1, AroundIs
    <3> QED BY <2>1, <3>1
  <2>4. Around(s, Len(s) - 1) = Tag <=> Len(s) - 1 = 0
    <3>1. /\ Around(s, 0) = Tag
          /\ \A i, j \in 0..Len(s) : Around(s, i) = Around(s, j) => i = j
      BY <1>1, AroundIs
    <3> QED BY <2>1, <3>1
  <2> QED BY <1>2, <2>2, <2>3, <2>4
<1>6. PopFront(b) = UnlinkKey(b, b.m_pHead)
  <2> DEFINE e == b.m_pHead
             p == b.prev[e]
             n == b.next[e]
             d == Delete(b, e)
  <2>1. DOMAIN d = RingFields /\ d = [f \in RingFields |-> d[f]] /\ d.m_pTail = b.m_pTail /\ d.m_pHead = b.m_pHead
    BY <1>1 DEF Delete, RingFields
  <2>2. PopFront(b) = [d EXCEPT !.m_pCurrent = n, !.prev[n] = Tag, !.next[Tag] = n, !.m_pHead = n,
                                !.m_pTail = IF b.m_count = 1 THEN Tag ELSE @]
    BY <1>1, <1>2 DEF PopFront
  <2>3. UnlinkKey(b, e) = [d EXCEPT !.next[p] = n, !.prev[n] = p, !.m_pTail = IF n = Tag THEN p ELSE @,
                                    !.m_pHead = IF p = Tag THEN n ELSE @,
                                    !.m_pCurrent = IF p = Tag THEN n ELSE IF n = Tag THEN p ELSE @]
    BY DEF UnlinkKey
  <2>4. p = Tag /\ (n = Tag <=> b.m_count = 1) /\ e = b.m_pHead
    BY <1>1, <1>4, <1>5
  <2> HIDE DEF p, n, d, e
  <2>5. PopFront(b) = UnlinkKey(b, e)
    BY <2>1, <2>2, <2>3, <2>4, ZenonT(60) DEF RingFields
  <2> QED BY <2>5 DEF e
<1>7. PopBack(b) = UnlinkKey(b, b.m_pTail)
  <2> DEFINE e == b.m_pTail
             p == b.prev[e]
             n == b.next[e]
             d == Delete(b, e)
  <2>1. DOMAIN d = RingFields /\ d = [f \in RingFields |-> d[f]] /\ d.m_pTail = b.m_pTail /\ d.m_pHead = b.m_pHead
    BY <1>1 DEF Delete, RingFields
  <2>2. PopBack(b) = [d EXCEPT !.m_pCurrent = p, !.next[p] = Tag, !.prev[Tag] = p, !.m_pTail = p,
                                !.m_pHead = IF b.m_count = 1 THEN Tag ELSE @]
    BY <1>1, <1>2 DEF PopBack
  <2>3. UnlinkKey(b, e) = [d EXCEPT !.next[p] = n, !.prev[n] = p, !.m_pTail = IF n = Tag THEN p ELSE @,
                                    !.m_pHead = IF p = Tag THEN n ELSE @,
                                    !.m_pCurrent = IF p = Tag THEN n ELSE IF n = Tag THEN p ELSE @]
    BY DEF UnlinkKey
  <2>4. n = Tag /\ (p = Tag <=> b.m_count = 1) /\ e = b.m_pTail
    BY <1>1, <1>4, <1>5
  <2> HIDE DEF p, n, d, e
  <2>5. PopBack(b) = UnlinkKey(b, e)
    <3>1. UnlinkKey(b, b.m_pTail) = [d EXCEPT !.next[p] = Tag, !.prev[Tag] = p, !.m_pTail = p,
                                              !.m_pHead = IF p = Tag THEN Tag ELSE @,
                                              !.m_pCurrent = IF p = Tag THEN Tag ELSE p]
      BY <2>3, <2>4
    <3>2. CASE p = Tag
      BY <2>1, <2>2, <2>4, <3>1, <3>2, ZenonT(60) DEF RingFields
    <3>3. CASE p # Tag
      <4>1. UnlinkKey(b, b.m_pTail) = [d EXCEPT !.next[p] = Tag, !.prev[Tag] = p, !.m_pTail = p, !.m_pCurrent = p]
        BY <2>1, <3>1, <3>3 DEF RingFields
      <4>2. PopBack(b) = [d EXCEPT !.next[p] = Tag, !.prev[Tag] = p, !.m_pTail = p, !.m_pCurrent = p]
        BY <2>1, <2>2, <2>4, <3>3 DEF RingFields
      <4> QED BY <2>4, <4>1, <4>2
    <3> QED BY <3>2, <3>3
  <2> QED BY <2>5 DEF e
<1> QED BY <1>3, <1>6, <1>7

\* push_back: a new entry behind the last.
LEMMA PushBackRing ==
    ASSUME NEW b, NEW s, Ring(b, s), b.used # Entries, NEW v
    PROVE  LET u == PushBack(b, v)
               e == u.m_pCurrent
           IN /\ e \in Entries \ ToSet(s) /\ Ring(u, Append(s, e))
              /\ u.value = [b.value EXCEPT ![e] = v]
<1> DEFINE e == CHOOSE x \in Entries \ b.used : TRUE
           last == b.m_pTail
           a == Append(s, e)
           u == PushBack(b, v)
<1>1. /\ s \in Seq(Entries) /\ IsInjective(s)
      /\ DOMAIN b = RingFields /\ b = [f \in RingFields |-> b[f]]
      /\ b.prev \in Links
      /\ b.next \in Links
      /\ DOMAIN b.value = Entries /\ b.value = [x \in Entries |-> b.value[x]]
      /\ b.used = ToSet(s) /\ b.m_count = Len(s)
      /\ b.m_pHead = Around(s, 1) /\ last = Around(s, Len(s))
      /\ Joined(b.next, b.prev, s)
  BY DEF Ring
<1>0. Len(s) \in Nat
  BY <1>1
<1>2. e \in Entries \ ToSet(s)
  <2>1. ToSet(s) \subseteq Entries
    BY <1>1 DEF ToSet
  <2> QED BY <1>1, <2>1
<1> HIDE DEF e
<1>3. last \in Entries \cup {Tag} /\ last # e /\ Tag # e
  <2>1. Len(s) \in 0..Len(s) + 1 /\ (Len(s) = 0 \/ Len(s) \in 1..Len(s))
    BY <1>0
  <2>2. ASSUME Len(s) \in 1..Len(s) PROVE last \in ToSet(s)
    <3>1. last = s[Len(s)] /\ DOMAIN s = 1..Len(s)
      BY <1>1, <2>2, AroundIs
    <3> QED BY <2>2, <3>1 DEF ToSet
  <2>3. Len(s) = 0 => last = Tag
    BY <1>0, <1>1 DEF Around
  <2> QED BY <1>1, <1>2, <2>1, <2>2, <2>3, AroundIs, EntriesAssumption
<1>4. /\ DOMAIN u = RingFields /\ u = [f \in RingFields |-> u[f]]
      /\ u.prev = Relinked(b.prev, e, last, Tag, e) /\ u.next = Relinked(b.next, e, Tag, last, e)
      /\ u.value = [b.value EXCEPT ![e] = v]
      /\ u.used = b.used \cup {e} /\ u.m_count = b.m_count + 1 /\ u.m_pCurrent = e
      /\ u.m_pHead = (IF Len(s) = 0 THEN e ELSE b.m_pHead) /\ u.m_pTail = e
  <2> DEFINE k == [b EXCEPT !.prev[e] = last, !.next[e] = Tag, !.value[e] = v,
                            !.used = @ \cup {e}, !.m_pCurrent = e, !.m_count = @ + 1]
             t == [k EXCEPT !.m_pTail = e, !.prev[Tag] = e]
  <2>1. k = NewEntry(b, v, last, Tag) /\ k.m_pCurrent = e
    BY <1>1 DEF NewEntry, e, RingFields
  <2>2. u = IF b.m_count = 0 THEN [t EXCEPT !.m_pHead = e, !.next[Tag] = e]
                             ELSE [t EXCEPT !.next[last] = e]
    <3> HIDE DEF k
    <3> QED BY <2>1 DEF PushBack
  <2>3. b.m_count = 0 => last = Tag
    BY <1>0, <1>1 DEF Around
  <2> HIDE DEF u, last
  <2>4. CASE b.m_count = 0
    BY <1>1, <2>2, <2>3, <2>4 DEF RingFields, Relinked
  <2>5. CASE b.m_count # 0
    BY <1>1, <2>2, <2>5 DEF RingFields, Relinked
  <2> QED BY <2>4, <2>5
<1> HIDE DEF u, last, a
<1>5. /\ u.prev \in Links
      /\ u.prev[e] = last /\ u.prev[Tag] = e /\ SameLinks(b.prev, u.prev, {e, Tag})
  <2>1. b.prev \in Links /\ e \in Entries
        /\ last \in Targets
    BY <1>1, <1>2, <1>3 DEF Targets
  <2>2. Tag \in Entries \cup {Tag} /\ e \in Entries \cup {Tag} /\ last \in Entries \cup {Tag} /\ Tag # e /\ last # e
    BY <1>2, <1>3
  <2>3. /\ Relinked(b.prev, e, last, Tag, e) \in Links
        /\ Relinked(b.prev, e, last, Tag, e)[e] = last /\ Relinked(b.prev, e, last, Tag, e)[Tag] = e
        /\ SameLinks(b.prev, Relinked(b.prev, e, last, Tag, e), {e, Tag})
    BY <2>1, <2>2, RelinkedIs
  <2>4. u.prev = Relinked(b.prev, e, last, Tag, e)
    BY <1>4
  <2> QED BY <2>3, <2>4
<1>6. /\ u.next \in Links
      /\ u.next[e] = Tag /\ u.next[last] = e /\ SameLinks(b.next, u.next, {e, last})
  <2>1. b.next \in Links /\ e \in Entries /\ Tag \in Targets
    BY <1>1, <1>2 DEF Targets
  <2>2. Tag \in Entries \cup {Tag} /\ e \in Entries \cup {Tag} /\ last \in Entries \cup {Tag} /\ Tag # e /\ last # e
    BY <1>2, <1>3
  <2>3. /\ Relinked(b.next, e, Tag, last, e) \in Links
        /\ Relinked(b.next, e, Tag, last, e)[e] = Tag /\ Relinked(b.next, e, Tag, last, e)[last] = e
        /\ SameLinks(b.next, Relinked(b.next, e, Tag, last, e), {e, last})
    BY <2>1, <2>2, RelinkedIs
  <2>4. u.next = Relinked(b.next, e, Tag, last, e)
    BY <1>4
  <2> QED BY <2>3, <2>4
<1>7. Joined(u.next, u.prev, a)
  <2>1. /\ u.next[Around(s, Len(s))] = e /\ u.prev[e] = Around(s, Len(s))
        /\ SameLinks(b.next, u.next, {e, Around(s, Len(s))})
    BY <1>1, <1>5, <1>6
  <2>2. s \in Seq(Entries) /\ IsInjective(s) /\ Joined(b.next, b.prev, s)
    BY <1>1
  <2> QED BY <1>2, <1>5, <1>6, <2>1, <2>2, JoinedBehind DEF a
<1>8. /\ a \in Seq(Entries) /\ IsInjective(a) /\ ToSet(a) = ToSet(s) \cup {e} /\ Len(a) = Len(s) + 1
      /\ \A i \in 0..Len(s) : Around(a, i) = Around(s, i)
      /\ Around(a, Len(s) + 1) = e
  BY <1>1, <1>2, AroundBehind DEF a
<1>9. u.m_pHead = Around(a, 1)
  <2>1. CASE Len(s) = 0
    BY <1>4, <1>8, <2>1
  <2>2. CASE Len(s) # 0
    <3>1. 1 \in 0..Len(s)
      BY <1>0, <2>2
    <3> QED BY <1>1, <1>4, <1>8, <2>2, <3>1
  <2> QED BY <2>1, <2>2
<1>10. DOMAIN u.value = Entries /\ u.value = [x \in Entries |-> u.value[x]]
  <2>1. u.value = [b.value EXCEPT ![e] = v]
    BY <1>4
  <2>2. DOMAIN b.value = Entries
    BY <1>1
  <2> QED BY <2>1, <2>2
<1>11. u.m_pTail = Around(a, Len(a)) /\ u.used = ToSet(a) /\ u.m_count = Len(a)
  BY <1>1, <1>4, <1>8
<1>12. Ring(u, a)
  BY <1>4, <1>5, <1>6, <1>7, <1>8, <1>9, <1>10, <1>11 DEF Ring
<1> QED BY <1>2, <1>4, <1>12 DEF u, a

\* update: to the end, where it may be already.
LEMMA MoveToTailRing ==
    ASSUME NEW b, NEW s, Ring(b, s), NEW e \in ToSet(s)
    PROVE  LET u == MoveToTail(b, e) IN
           /\ Ring(u, Append(WithoutKey(s, e), e)) /\ u.value = b.value
<1> DEFINE c == Place(s, e)
           w == WithoutKey(s, e)
           a == Append(w, e)
           p == b.prev[e]
           n == b.next[e]
           last == b.m_pTail
           u == MoveToTail(b, e)
<1>1. /\ s \in Seq(Entries) /\ IsInjective(s)
      /\ DOMAIN b = RingFields /\ b = [f \in RingFields |-> b[f]]
      /\ b.prev \in Links
      /\ b.next \in Links
      /\ DOMAIN b.value = Entries /\ b.value = [x \in Entries |-> b.value[x]]
      /\ b.used = ToSet(s) /\ b.m_count = Len(s)
      /\ b.m_pHead = Around(s, 1) /\ last = Around(s, Len(s))
      /\ Joined(b.next, b.prev, s)
  BY DEF Ring
<1>2. c \in 1..Len(s) /\ s[c] = e
  BY <1>1, PlaceIs
<1>0. Len(s) \in Nat /\ c \in Nat /\ c >= 1 /\ c <= Len(s)
  BY <1>1, <1>2
<1> HIDE DEF c
<1>3. /\ w \in Seq(Entries) /\ IsInjective(w) /\ ToSet(w) = ToSet(s) \ {e} /\ Len(w) = Len(s) - 1
      /\ \A i \in 0..Len(s) : Around(w, i) = IF i < c THEN Around(s, i) ELSE Around(s, i + 1)
  BY <1>1, <1>2, AroundWithout
<1> HIDE DEF w
<1>4. e \in Entries \ ToSet(w)
  BY <1>1, <1>2, <1>3, AroundIs
<1>5. /\ a \in Seq(Entries) /\ IsInjective(a) /\ ToSet(a) = ToSet(s) /\ Len(a) = Len(s)
      /\ \A i \in 0..Len(w) : Around(a, i) = Around(w, i)
      /\ Around(a, Len(s)) = e
  <2>1. /\ a \in Seq(Entries) /\ IsInjective(a) /\ ToSet(a) = ToSet(w) \cup {e} /\ Len(a) = Len(w) + 1
        /\ \A i \in 0..Len(w) : Around(a, i) = Around(w, i)
        /\ Around(a, Len(w) + 1) = e
    BY <1>3, <1>4, AroundBehind
  <2>2. ToSet(w) \cup {e} = ToSet(s)
    BY <1>3
  <2>3. Len(w) + 1 = Len(s)
    BY <1>0, <1>3
  <2> QED BY <2>1, <2>2, <2>3
<1> HIDE DEF a
<1>6. last = e <=> c = Len(s)
  <2>1. c \in 0..Len(s) /\ Len(s) \in 0..Len(s)
    BY <1>0
  <2>2. Around(s, c) = e
    BY <1>1, <1>2, AroundIs
  <2> QED BY <1>1, <2>1, <2>2, AroundIs
<1>7. CASE c = Len(s)
  <2>1. u = [b EXCEPT !.m_pCurrent = e]
    BY <1>6, <1>7 DEF MoveToTail
  <2>2. a = s
    <3>1. ASSUME NEW i \in 1..Len(s) PROVE a[i] = s[i]
      <4>1. Around(a, i) = Around(s, i)
        <5>1. CASE i = Len(s)
          <6>1. Around(s, c) = e
            BY <1>1, <1>2, AroundIs
          <6> QED BY <1>5, <1>7, <5>1, <6>1
        <5>2. CASE i # Len(s)
          <6>1. i \in 0..Len(w) /\ i \in 0..Len(s) /\ i < c
            BY <1>0, <1>3, <1>7, <5>2
          <6> QED BY <1>3, <1>5, <6>1
        <5> QED BY <5>1, <5>2
      <4> QED BY <1>1, <1>5, <4>1, AroundIs
    <3> QED BY <1>1, <1>5, <3>1, SeqEqual
  <2>3. Ring(u, s) /\ u.value = b.value
    <3> HIDE DEF u
    <3> QED BY <1>1, <2>1 DEF Ring, RingFields
  <2> QED BY <2>2, <2>3 DEF a, w
<1>8. CASE c # Len(s)
  <2>1. p = Around(s, c - 1) /\ n = Around(s, c + 1)
    <3>1. c \in 0..Len(s) /\ c - 1 \in 0..Len(s) /\ c - 1 + 1 = c
      BY <1>0
    <3>2. Around(s, c) = e
      BY <1>1, <1>2, AroundIs
    <3>3. b.next[Around(s, c)] = Around(s, c + 1) /\ b.prev[Around(s, c - 1 + 1)] = Around(s, c - 1)
      BY <1>1, <3>1 DEF Joined
    <3> QED BY <3>1, <3>2, <3>3
  <2>2. e \in Entries /\ p \in Entries \cup {Tag} /\ n \in Entries \cup {Tag} /\ p # e /\ n # e
    <3>1. /\ c \in 0..Len(s) /\ c - 1 \in 0..Len(s) /\ c - 1 # c /\ c + 1 # c
          /\ c \in 1..Len(s) + 1 /\ c + 1 \in 1..Len(s) + 1
          /\ c - 1 \in 0..Len(s) + 1 /\ c + 1 \in 0..Len(s) + 1
      BY <1>0
    <3> QED BY <1>1, <1>2, <2>1, <3>1, AroundIs
  <2>3. last \in Entries /\ last # e /\ last = Around(w, Len(w)) /\ Tag # e
    <3>1. Len(s) \in 1..Len(s) /\ Len(w) \in 0..Len(s) /\ ~(Len(w) < c) /\ Len(w) + 1 = Len(s)
      BY <1>0, <1>3, <1>8
    <3> QED BY <1>1, <1>3, <1>6, <1>8, <2>2, <3>1, AroundIs, EntriesAssumption
  <2> DEFINE on == [b.next EXCEPT ![p] = n]
             op == [b.prev EXCEPT ![n] = p]
             head == IF e = b.m_pHead THEN n ELSE b.m_pHead
  <2>4. /\ on \in Links
        /\ op \in Links
        /\ on[p] = n /\ op[n] = p
        /\ SameLinks(b.next, on, {e, p}) /\ SameLinks(b.prev, op, {e, n})
    <3>1. b.next \in Links /\ b.prev \in Links
      BY <1>1
    <3>2. on \in Links /\ on[p] = n /\ SameLinks(b.next, on, {e, p})
      BY <2>2, <3>1 DEF SameLinks, Links, Targets
    <3>3. op \in Links /\ op[n] = p /\ SameLinks(b.prev, op, {e, n})
      BY <2>2, <3>1 DEF SameLinks, Links, Targets
    <3> QED BY <3>2, <3>3
  <2>5. /\ DOMAIN u = RingFields /\ u = [f \in RingFields |-> u[f]]
        /\ u.next = Relinked(on, e, Tag, last, e) /\ u.prev = Relinked(op, e, last, Tag, e)
        /\ u.value = b.value /\ u.used = b.used /\ u.m_count = b.m_count
        /\ u.m_pHead = head /\ u.m_pTail = e
    <3> DEFINE out == [b EXCEPT !.next[p] = n, !.prev[n] = p, !.m_pCurrent = e,
                                !.m_pHead = IF e = @ THEN n ELSE @]
    <3>1. u = [out EXCEPT !.next[last] = e, !.prev[Tag] = e, !.next[e] = Tag,
                          !.prev[e] = last, !.m_pTail = e]
      BY <1>6, <1>8 DEF MoveToTail
    <3>2. /\ DOMAIN out = RingFields /\ out = [f \in RingFields |-> out[f]]
          /\ out.next = on /\ out.prev = op /\ out.m_pHead = head
          /\ out.value = b.value /\ out.used = b.used /\ out.m_count = b.m_count
      BY <1>1 DEF RingFields
    <3> HIDE DEF out, u, on, op, head
    <3> QED BY <2>3, <2>4, <3>1, <3>2, EntriesAssumption DEF RingFields, Relinked
  <2>14. last \in Targets /\ Tag \in Targets
    BY <2>3 DEF Targets
  <2> HIDE DEF on, op, u, head
  <2>6. Joined(on, op, w)
    <3>1. /\ on[Around(s, c - 1)] = Around(s, c + 1) /\ op[Around(s, c + 1)] = Around(s, c - 1)
          /\ SameLinks(b.next, on, {s[c], Around(s, c - 1)})
          /\ SameLinks(b.prev, op, {s[c], Around(s, c + 1)})
      BY <1>2, <2>1, <2>4
    <3>2. s \in Seq(Entries) /\ IsInjective(s) /\ Joined(b.next, b.prev, s)
      BY <1>1
    <3>3. Joined(on, op, WithoutKey(s, s[c]))
      BY <1>2, <3>1, <3>2, JoinedWithout
    <3> QED BY <1>2, <3>3 DEF w
  <2>7. /\ u.next \in Links
        /\ u.next[e] = Tag /\ u.next[last] = e /\ SameLinks(on, u.next, {e, last})
    <3>1. e \in Entries /\ Tag \in Entries \cup {Tag} /\ e \in Entries \cup {Tag} /\ last \in Entries \cup {Tag}
      BY <2>2, <2>3
    <3>2. /\ Relinked(on, e, Tag, last, e) \in Links /\ Relinked(on, e, Tag, last, e)[e] = Tag /\ Relinked(on, e, Tag, last, e)[last] = e
          /\ SameLinks(on, Relinked(on, e, Tag, last, e), {e, last})
      BY <2>3, <2>4, <2>14, <3>1, RelinkedIs
    <3> QED BY <2>5, <3>2
  <2>8. /\ u.prev \in Links
        /\ u.prev[e] = last /\ u.prev[Tag] = e /\ SameLinks(op, u.prev, {e, Tag})
    <3>1. e \in Entries /\ Tag \in Entries \cup {Tag} /\ e \in Entries \cup {Tag} /\ last \in Entries \cup {Tag}
      BY <2>2, <2>3
    <3>2. /\ Relinked(op, e, last, Tag, e) \in Links /\ Relinked(op, e, last, Tag, e)[e] = last /\ Relinked(op, e, last, Tag, e)[Tag] = e
          /\ SameLinks(op, Relinked(op, e, last, Tag, e), {e, Tag})
      BY <2>3, <2>4, <2>14, <3>1, RelinkedIs
    <3> QED BY <2>5, <3>2
  <2>9. Joined(u.next, u.prev, a)
    <3>1. /\ u.next[Around(w, Len(w))] = e /\ u.prev[e] = Around(w, Len(w))
          /\ SameLinks(on, u.next, {e, Around(w, Len(w))})
      BY <2>3, <2>7, <2>8
    <3>2. w \in Seq(Entries) /\ IsInjective(w)
      BY <1>3
    <3> QED BY <1>4, <2>6, <2>7, <2>8, <3>1, <3>2, JoinedBehind DEF a
  <2>10. u.m_pHead = Around(a, 1)
    <3>1. 1 \in 0..Len(w) /\ 1 \in 0..Len(s) /\ c \in 0..Len(s)
      BY <1>0, <1>3, <1>8
    <3>2. e = b.m_pHead <=> c = 1
      <4>1. Around(s, c) = e
        BY <1>1, <1>2, AroundIs
      <4> QED BY <1>1, <3>1, <4>1, AroundIs
    <3>3. Around(a, 1) = Around(w, 1)
      BY <1>5, <3>1
    <3>4. CASE c = 1
      BY <1>3, <2>1, <2>5, <3>1, <3>2, <3>3, <3>4 DEF head
    <3>5. CASE c # 1
      <4>1. 1 < c
        BY <1>0, <3>5
      <4> QED BY <1>1, <1>3, <2>5, <3>1, <3>2, <3>3, <3>5, <4>1 DEF head
    <3> QED BY <3>4, <3>5
  <2>11. u.m_pTail = Around(a, Len(a)) /\ u.used = ToSet(a) /\ u.m_count = Len(a)
    BY <1>1, <1>5, <2>5
  <2>12. DOMAIN u.value = Entries /\ u.value = [x \in Entries |-> u.value[x]]
    BY <1>1, <2>5
  <2>13. Ring(u, a)
    BY <1>5, <2>5, <2>7, <2>8, <2>9, <2>10, <2>11, <2>12 DEF Ring
  <2> QED BY <2>5, <2>13 DEF u, a, w
<1> QED BY <1>7, <1>8

-----------------------------------------------------------------------------
\* There are no more entries in a list than there is memory for.
LEMMA RingFits ==
    ASSUME NEW s \in Seq(Entries), IsInjective(s)
    PROVE  Len(s) <= Cardinality(Entries) /\ Cardinality(Entries) \in Nat
<1>1. Len(s) \in Nat /\ DOMAIN s = 1..Len(s) /\ s \in [1..Len(s) -> Entries]
  OBVIOUS
<1>2. s \in Injection(1..Len(s), Entries)
  BY <1>1 DEF Injection, IsInjective
<1>3. IsFiniteSet(1..Len(s)) /\ Cardinality(1..Len(s)) = Len(s)
  BY <1>1, FirstPlaces
<1>4. Cardinality(1..Len(s)) <= Cardinality(Entries)
  BY <1>2, EntriesAssumption, FS_Injection
<1> QED BY <1>3, <1>4, EntriesAssumption, FS_CardinalityType

\* What is left of a sequence without its first i.
After(s, i) == [j \in 1..Len(s) - i |-> s[i + j]]

\* A walk of n steps along the links.
Walk(f, n, e, nx) ==
    f = [i \in 1..n |-> IF i = 1 THEN e
                        ELSE LET x == f[i - 1] IN IF x \in {Tag, Null} THEN Tag ELSE nx[x]]

\* A walk along the links comes to all entries from its first on, one by one, and
\* then to the tag.
LEMMA WalkFrom ==
    ASSUME NEW s \in Seq(Entries), IsInjective(s), NEW nx, NEW pv, Joined(nx, pv, s),
           NEW c \in 1..Len(s) + 1, NEW n \in Nat, NEW walk, Walk(walk, n, Around(s, c), nx)
    PROVE  \A i \in 1..n : walk[i] = Around(s, c + i - 1)
<1> DEFINE bad == {i \in 1..n : walk[i] # Around(s, c + i - 1)}
<1>0. Len(s) \in Nat /\ c \in Nat /\ c >= 1 /\ c <= Len(s) + 1
  OBVIOUS
<1> SUFFICES ASSUME bad # {} PROVE FALSE
  OBVIOUS
<1>1. PICK m \in bad : \A j \in bad : m <= j
  <2>1. bad \subseteq 0..n
    OBVIOUS
  <2> HIDE DEF bad
  <2> QED BY <2>1, FirstOfPlaces
<1>2. m \in 1..n /\ walk[m] # Around(s, c + m - 1)
  OBVIOUS
<1>3. m # 1
  <2>1. c + 1 - 1 = c
    BY <1>0
  <2> QED BY <1>2, <2>1 DEF Walk
<1>4. m - 1 \in 1..n /\ m - 1 \notin bad
  <2>1. m - 1 \in 1..n /\ ~(m <= m - 1)
    BY <1>2, <1>3
  <2> HIDE DEF bad
  <2> QED BY <1>1, <2>1
<1> DEFINE j == c + m - 2
<1>5. walk[m - 1] = Around(s, j) /\ c + m - 1 = j + 1 /\ j \in Nat /\ j >= 1
  <2>1. c + (m - 1) - 1 = j /\ c + m - 1 = j + 1 /\ j \in Nat /\ j >= 1
    BY <1>0, <1>2, <1>3
  <2> HIDE DEF j
  <2> QED BY <1>4, <2>1
<1> HIDE DEF bad
<1>6. walk[m] = IF Around(s, j) \in {Tag, Null} THEN Tag ELSE nx[Around(s, j)]
  <2> HIDE DEF j
  <2> QED BY <1>2, <1>3, <1>5 DEF Walk
<1> HIDE DEF j
<1>7. CASE j \in 1..Len(s)
  <2>1. Around(s, j) \in Entries /\ j \in 0..Len(s)
    BY <1>0, <1>7, AroundIs
  <2>2. Around(s, j) \notin {Tag, Null}
    BY <2>1, EntriesAssumption
  <2>3. nx[Around(s, j)] = Around(s, j + 1)
    BY <2>1 DEF Joined
  <2> QED BY <1>2, <1>5, <1>6, <2>2, <2>3
<1>8. CASE j \notin 1..Len(s)
  <2>1. Around(s, j) = Tag
    BY <1>8 DEF Around
  <2>2. j + 1 \notin 1..Len(s)
    BY <1>0, <1>5, <1>8
  <2>3. Around(s, j + 1) = Tag
    BY <2>2 DEF Around
  <2> QED BY <1>2, <1>5, <1>6, <2>1, <2>3
<1> QED BY <1>7, <1>8

\* The list read from any of its entries.
LEMMA OnwardFrom ==
    ASSUME NEW b, NEW s, Ring(b, s), NEW c \in 1..Len(s) + 1
    PROVE  Onward(b, Around(s, c)) = After(s, c - 1)
<1> DEFINE e == Around(s, c)
           N == Cardinality(Entries) + 1
           walk[i \in 1..Cardinality(Entries) + 1] ==
               IF i = 1 THEN e
               ELSE LET x == walk[i - 1] IN IF x \in {Tag, Null} THEN Tag ELSE b.next[x]
           whole == [i \in 1..N |-> Around(s, c + i - 1)]
           here == {j \in DOMAIN walk : walk[j] \notin {Tag, Null}}
           left == Len(s) - (c - 1)
<1>1. s \in Seq(Entries) /\ IsInjective(s) /\ Joined(b.next, b.prev, s)
  BY DEF Ring
<1>2. Onward(b, e) = [i \in 1..Cardinality(here) |-> walk[i]]
  BY DEF Onward
<1>3. N \in Nat /\ Len(s) \in Nat /\ Len(s) < N /\ c \in Nat /\ c >= 1 /\ c <= Len(s) + 1
  BY <1>1, RingFits
<1> HIDE DEF N
<1>4. \A f : Walk(f, N, e, b.next) => \A i \in 1..N : f[i] = Around(s, c + i - 1)
  BY <1>1, <1>3, WalkFrom
<1>5. whole = [i \in 1..N |-> IF i = 1 THEN e ELSE LET x == whole[i - 1] IN IF x \in {Tag, Null} THEN Tag ELSE b.next[x]]
  <2>1. ASSUME NEW i \in 1..N, i # 1
        PROVE  Around(s, c + i - 1) = IF Around(s, c + (i - 1) - 1) \in {Tag, Null} THEN Tag ELSE b.next[Around(s, c + (i - 1) - 1)]
    <3> DEFINE j == c + (i - 1) - 1
    <3>0. c + i - 1 = j + 1 /\ j \in Nat /\ j >= 1
      BY <1>3, <2>1
    <3> HIDE DEF j
    <3>1. CASE j \in 1..Len(s)
      <4>1. Around(s, j) \in Entries /\ j \in 0..Len(s)
        BY <1>1, <1>3, <3>1, AroundIs
      <4>2. Around(s, j) \notin {Tag, Null}
        BY <4>1, EntriesAssumption
      <4>3. b.next[Around(s, j)] = Around(s, j + 1)
        BY <1>1, <4>1 DEF Joined
      <4>4. Around(s, j + 1) = IF Around(s, j) \in {Tag, Null} THEN Tag ELSE b.next[Around(s, j)]
        BY <4>2, <4>3
      <4> QED BY <3>0, <4>4 DEF j
    <3>2. CASE j \notin 1..Len(s)
      <4>1. j + 1 \notin 1..Len(s)
        BY <1>3, <3>0, <3>2
      <4>2. Around(s, j) = Tag /\ Around(s, j + 1) = Tag
        BY <3>2, <4>1 DEF Around
      <4> QED BY <3>0, <4>2 DEF j
    <3> QED BY <3>1, <3>2
  <2>2. ASSUME NEW i \in 1..N, i # 1 PROVE whole[i - 1] = Around(s, c + (i - 1) - 1)
    <3>1. i - 1 \in 1..N
      BY <1>3, <2>2
    <3> QED BY <3>1
  <2>3. ASSUME NEW i \in 1..N
        PROVE  Around(s, c + i - 1) = IF i = 1 THEN e ELSE LET x == whole[i - 1] IN IF x \in {Tag, Null} THEN Tag ELSE b.next[x]
    <3>1. c + 1 - 1 = c
      BY <1>3
    <3> HIDE DEF whole
    <3> QED BY <2>1, <2>2, <3>1
  <2> QED BY <2>3
<1>6. Walk(walk, N, e, b.next)
  <2>1. walk = CHOOSE f : f = [i \in 1..N |-> IF i = 1 THEN e ELSE LET x == f[i - 1] IN IF x \in {Tag, Null} THEN Tag ELSE b.next[x]]
    BY DEF walk, N
  <2> HIDE DEF walk, whole
  <2> QED BY <1>5, <2>1 DEF Walk
<1> HIDE DEF walk, whole
<1>7. DOMAIN walk = 1..N /\ \A i \in 1..N : walk[i] = Around(s, c + i - 1)
  BY <1>4, <1>6 DEF Walk
<1>8. here = 1..left
  <2>1. ASSUME NEW i \in 1..N PROVE Around(s, c + i - 1) \notin {Tag, Null} <=> i \in 1..left
    <3>1. c + i - 1 \in 1..Len(s) <=> i \in 1..left
      BY <1>3
    <3>2. c + i - 1 \in 1..Len(s) => Around(s, c + i - 1) \notin {Tag, Null}
      BY <1>1, AroundIs, EntriesAssumption
    <3>3. c + i - 1 \notin 1..Len(s) => Around(s, c + i - 1) = Tag
      BY DEF Around
    <3> QED BY <3>1, <3>2, <3>3
  <2>2. 1..left \subseteq 1..N
    BY <1>3
  <2> HIDE DEF left
  <2> QED BY <1>7, <2>1, <2>2
<1>9. Cardinality(here) = left
  <2>1. left \in Nat
    BY <1>3
  <2> HIDE DEF left
  <2> QED BY <1>8, <2>1, FirstPlaces
<1>10. \A i \in 1..left : walk[i] = s[(c - 1) + i]
  <2> SUFFICES ASSUME NEW i \in 1..left PROVE walk[i] = s[(c - 1) + i]
    OBVIOUS
  <2>1. i \in 1..N /\ c + i - 1 = (c - 1) + i /\ (c - 1) + i \in 1..Len(s)
    BY <1>3
  <2>2. walk[i] = Around(s, (c - 1) + i)
    BY <1>7, <2>1
  <2> QED BY <1>1, <2>1, <2>2, AroundIs
<1>11. [i \in 1..left |-> walk[i]] = After(s, c - 1)
  BY <1>10 DEF After
<1> QED BY <1>2, <1>9, <1>11 DEF e

\* The list read from its head.
LEMMA OnwardIs ==
    ASSUME NEW b, NEW s, Ring(b, s)
    PROVE  Onward(b, b.m_pHead) = s
<1> DEFINE c == 1
<1>1. s \in Seq(Entries) /\ b.m_pHead = Around(s, c) /\ Len(s) \in Nat
  BY DEF Ring
<1>2. c \in 1..Len(s) + 1 /\ c - 1 = 0
  <2>1. \A n \in Nat : 1 \in 1..n + 1
    OBVIOUS
  <2> QED BY <1>1, <2>1
<1>3. After(s, 0) = s
  <2>1. Len(s) - 0 = Len(s) /\ \A j \in 1..Len(s) : 0 + j = j
    BY <1>1
  <2>2. s = [j \in 1..Len(s) |-> s[j]]
    BY <1>1
  <2> QED BY <2>1, <2>2 DEF After
<1> HIDE DEF c
<1>4. Onward(b, Around(s, c)) = After(s, c - 1)
  BY <1>2, OnwardFrom
<1> QED BY <1>1, <1>2, <1>3, <1>4

\* Read from its tail.
LEMMA BackIs ==
    ASSUME NEW b, NEW s, Ring(b, s)
    PROVE  LET back[i \in 1..Len(s)] == IF i = 1 THEN b.m_pTail ELSE b.prev[back[i - 1]]
           IN \A i \in 1..Len(s) : back[Len(s) + 1 - i] = s[i]
<1> DEFINE n == Len(s)
           back[i \in 1..n] == IF i = 1 THEN b.m_pTail ELSE b.prev[back[i - 1]]
           whole == [i \in 1..n |-> s[n + 1 - i]]
<1>1. s \in Seq(Entries) /\ IsInjective(s) /\ b.m_pTail = Around(s, n) /\ Joined(b.next, b.prev, s)
  BY DEF Ring
<1>2. n \in Nat
  BY <1>1
<1> HIDE DEF n
<1>3. ASSUME NEW i \in 1..n PROVE /\ n + 1 - i \in 1..n /\ Around(s, n + 1 - i) = s[n + 1 - i]
                                  /\ i # 1 => b.prev[s[n + 1 - (i - 1)]] = s[n + 1 - i]
  <2>1. n + 1 - i \in 1..n /\ n + 1 - i \in 0..n
    BY <1>2
  <2>2. Around(s, n + 1 - i) = s[n + 1 - i]
    BY <1>1, <2>1, AroundIs DEF n
  <2>3. ASSUME i # 1 PROVE b.prev[s[n + 1 - (i - 1)]] = s[n + 1 - i]
    <3>1. n + 1 - (i - 1) \in 1..n /\ n + 1 - (i - 1) = n + 1 - i + 1
      BY <1>2, <2>3
    <3>2. Around(s, n + 1 - (i - 1)) = s[n + 1 - (i - 1)]
      BY <1>1, <3>1, AroundIs DEF n
    <3>3. b.prev[Around(s, n + 1 - i + 1)] = Around(s, n + 1 - i)
      BY <1>1, <2>1 DEF Joined, n
    <3> QED BY <2>2, <3>1, <3>2, <3>3
  <2> QED BY <2>1, <2>2, <2>3
<1>4. whole = [i \in 1..n |-> IF i = 1 THEN b.m_pTail ELSE b.prev[whole[i - 1]]]
  <2>1. ASSUME NEW i \in 1..n
        PROVE  s[n + 1 - i] = IF i = 1 THEN b.m_pTail ELSE b.prev[whole[i - 1]]
    <3>1. CASE i = 1
      <4>1. n + 1 - i = n /\ n \in 1..n
        BY <1>2, <3>1
      <4> QED BY <1>1, <1>3, <3>1, <4>1
    <3>2. CASE i # 1
      <4>1. i - 1 \in 1..n
        BY <1>2, <3>2
      <4>2. whole[i - 1] = s[n + 1 - (i - 1)]
        BY <4>1
      <4> QED BY <1>3, <3>2, <4>2
    <3> QED BY <3>1, <3>2
  <2> QED BY <2>1
<1>5. back = [i \in 1..n |-> IF i = 1 THEN b.m_pTail ELSE b.prev[back[i - 1]]]
  <2>1. back = CHOOSE f : f = [i \in 1..n |-> IF i = 1 THEN b.m_pTail ELSE b.prev[f[i - 1]]]
    BY DEF back
  <2> HIDE DEF back, whole
  <2> QED BY <1>4, <2>1
<1> HIDE DEF back
<1> DEFINE bad == {i \in 1..n : back[i] # s[n + 1 - i]}
<1>6. bad = {}
  <2> SUFFICES ASSUME bad # {} PROVE FALSE
    OBVIOUS
  <2>1. PICK m \in bad : \A j \in bad : m <= j
    <3>1. bad \subseteq 0..n
      OBVIOUS
    <3> HIDE DEF bad
    <3> QED BY <1>2, <3>1, FirstOfPlaces
  <2>2. m \in 1..n /\ back[m] # s[n + 1 - m]
    OBVIOUS
  <2>3. m # 1
    <3> SUFFICES ASSUME m = 1 PROVE FALSE
      OBVIOUS
    <3>1. n + 1 - m = n
      BY <1>2
    <3>2. back[m] = b.m_pTail
      BY <1>5, <2>2
    <3> QED BY <1>1, <1>3, <2>2, <3>1, <3>2
  <2>4. m - 1 \in 1..n /\ m - 1 \notin bad
    BY <1>2, <2>1, <2>2, <2>3
  <2>5. back[m - 1] = s[n + 1 - (m - 1)]
    BY <2>4
  <2>6. back[m] = b.prev[back[m - 1]]
    BY <1>5, <2>2, <2>3
  <2> QED BY <1>3, <2>2, <2>3, <2>5, <2>6
<1>7. ASSUME NEW i \in 1..n PROVE back[n + 1 - i] = s[i]
  <2>1. n + 1 - i \in 1..n /\ n + 1 - (n + 1 - i) = i
    BY <1>2
  <2>2. back[n + 1 - i] = s[n + 1 - (n + 1 - i)]
    BY <1>6, <2>1
  <2> QED BY <2>1, <2>2
<1> QED BY <1>7 DEF back, n

-----------------------------------------------------------------------------
(* The expiring buffer.                                                    *)

\* The list is of the entries of s, and the map finds each of them by its key.
Holds(b, s, m) == /\ Ring(b, s)
                  /\ m = [k \in BufferKeys |-> m[k]]
                  /\ \A e \in ToSet(s) : b.value[e] \in BufferKeys /\ m[b.value[e]] = e
                  /\ \A k \in BufferKeys : m[k] = Null \/ (m[k] \in ToSet(s) /\ b.value[m[k]] = k)

\* No entry was refreshed after now, and none after one behind it.
InTime(v, s, r, now) == \A e \in ToSet(s) : /\ r[v[e]] <= now
                                            /\ \A f \in Behind(s, e) : r[v[e]] <= r[v[f]]

Times == [BufferKeys -> Nat]

\* What the map and the times are once keys are erased.
Forgotten(m, gone) == [k \in BufferKeys |-> IF k \in gone THEN Null ELSE m[k]]
Untimed(r, gone) == [k \in BufferKeys |-> IF k \in gone THEN 0 ELSE r[k]]

\* Only the links, the values and the count of a ring matter to it.
LEMMA RingCursor ==
    ASSUME NEW b, NEW s, Ring(b, s), NEW c
    PROVE  Ring([b EXCEPT !.m_pCurrent = c], s) /\ [b EXCEPT !.m_pCurrent = c].value = b.value
<1> DEFINE u == [b EXCEPT !.m_pCurrent = c]
<1>1. DOMAIN b = RingFields /\ b = [f \in RingFields |-> b[f]]
  BY DEF Ring
<1>2. /\ DOMAIN u = RingFields /\ u = [f \in RingFields |-> u[f]]
      /\ u.prev = b.prev /\ u.next = b.next /\ u.value = b.value /\ u.used = b.used
      /\ u.m_count = b.m_count /\ u.m_pHead = b.m_pHead /\ u.m_pTail = b.m_pTail
  BY <1>1 DEF RingFields
<1> HIDE DEF u
<1>3. Ring(u, s)
  BY <1>2 DEF Ring
<1> QED BY <1>2, <1>3 DEF u

\* The entries of a list are entries, and no tag.
LEMMA HeldEntries ==
    ASSUME NEW b, NEW s, NEW m, Holds(b, s, m)
    PROVE  /\ ToSet(s) \subseteq Entries /\ Null \notin ToSet(s)
           /\ s \in Seq(Entries) /\ IsInjective(s) /\ Len(s) \in Nat
           /\ \A i \in 1..Len(s) : s[i] \in ToSet(s)
           /\ \A e, f \in ToSet(s) : b.value[e] = b.value[f] => e = f
<1>1. s \in Seq(Entries) /\ IsInjective(s)
  BY DEF Holds, Ring
<1>2. ToSet(s) \subseteq Entries
  BY <1>1 DEF ToSet
<1>3. \A i \in 1..Len(s) : s[i] \in ToSet(s)
  BY <1>1 DEF ToSet
<1>4. Len(s) \in Nat
  BY <1>1
<1>5. Null \notin ToSet(s)
  BY <1>2, EntriesAssumption
<1> QED BY <1>1, <1>2, <1>3, <1>4, <1>5 DEF Holds

\* An entry is unlinked and its key erased.
LEMMA EraseHolds ==
    ASSUME NEW b, NEW s, NEW m, Holds(b, s, m), NEW e \in ToSet(s)
    PROVE  LET u == UnlinkKey(b, e) IN
           /\ Holds(u, WithoutKey(s, e), Forgotten(m, {b.value[e]}))
           /\ \A f \in ToSet(s) \ {e} : u.value[f] = b.value[f]
           /\ \A r \in Times, now \in Nat : InTime(b.value, s, r, now) =>
                 InTime(u.value, WithoutKey(s, e), Untimed(r, {b.value[e]}), now)
<1> DEFINE u == UnlinkKey(b, e)
           w == WithoutKey(s, e)
           k == b.value[e]
<1>1. /\ s \in Seq(Entries) /\ IsInjective(s) /\ ToSet(s) \subseteq Entries /\ Null \notin ToSet(s)
      /\ \A f, g \in ToSet(s) : b.value[f] = b.value[g] => f = g
  BY HeldEntries
<1>2. Ring(b, s) /\ DOMAIN b.value = Entries
  BY DEF Holds, Ring
<1>3. Ring(u, w) /\ u.value = [b.value EXCEPT ![e] = Null]
  BY <1>2, UnlinkKeyRing
<1>4. ToSet(w) = ToSet(s) \ {e}
  BY <1>1, WithoutKeyIs
<1>5. \A f \in ToSet(s) \ {e} : u.value[f] = b.value[f] /\ b.value[f] # k
  BY <1>1, <1>2, <1>3
<1> HIDE DEF u
<1>6. /\ \A f \in ToSet(s) : b.value[f] \in BufferKeys /\ m[b.value[f]] = f
      /\ \A x \in BufferKeys : m[x] = Null \/ (m[x] \in ToSet(s) /\ b.value[m[x]] = x)
  BY DEF Holds
<1>7. Holds(u, w, Forgotten(m, {k}))
  <2> DEFINE n == Forgotten(m, {k})
  <2>1. n = [x \in BufferKeys |-> n[x]] /\ \A x \in BufferKeys : n[x] = IF x = k THEN Null ELSE m[x]
    BY DEF Forgotten
  <2> HIDE DEF n, k, w
  <2>2. ASSUME NEW f \in ToSet(w) PROVE u.value[f] \in BufferKeys /\ n[u.value[f]] = f
    BY <1>4, <1>5, <1>6, <2>1, <2>2
  <2>3. ASSUME NEW x \in BufferKeys PROVE n[x] = Null \/ (n[x] \in ToSet(w) /\ u.value[n[x]] = x)
    <3>1. CASE x = k \/ m[x] = Null
      BY <2>1, <3>1
    <3>2. CASE x # k /\ m[x] # Null
      <4>1. m[x] \in ToSet(s) /\ b.value[m[x]] = x /\ n[x] = m[x] /\ m[x] # e
        BY <1>6, <2>1, <3>2 DEF k
      <4> QED BY <1>4, <1>5, <4>1
    <3> QED BY <3>1, <3>2
  <2>4. Holds(u, w, n)
    BY <1>3, <2>1, <2>2, <2>3 DEF Holds
  <2> QED BY <2>4 DEF n
<1>8. ASSUME NEW r \in Times, NEW now \in Nat, InTime(b.value, s, r, now)
      PROVE  InTime(u.value, w, Untimed(r, {k}), now)
  <2> DEFINE q == Untimed(r, {k})
  <2>1. \A f \in ToSet(w) : f \in ToSet(s) /\ f # e /\ q[u.value[f]] = r[b.value[f]]
    BY <1>4, <1>5, <1>6 DEF Untimed
  <2>2. \A f \in ToSet(w) : Behind(w, f) = Behind(s, f) \ {e} /\ Behind(s, f) \subseteq ToSet(s)
    BY <1>1, <2>1, BehindWithout, BehindIs
  <2> HIDE DEF q
  <2>3. \A f \in ToSet(w) : \A g \in Behind(w, f) : g \in ToSet(w) /\ g \in Behind(s, f)
    BY <1>4, <2>2
  <2>4. InTime(u.value, w, q, now)
    BY <1>8, <2>1, <2>3 DEF InTime
  <2> QED BY <2>4 DEF q
<1> QED BY <1>5, <1>7, <1>8 DEF u

\* What is behind an entry when another is appended.
LEMMA BehindAppend ==
    ASSUME NEW S, NEW s \in Seq(S), IsInjective(s), NEW e \in S \ ToSet(s)
    PROVE  /\ Behind(Append(s, e), e) = {}
           /\ \A f \in ToSet(s) : Behind(Append(s, e), f) = Behind(s, f) \cup {e}
<1> DEFINE a == Append(s, e)
<1>1. /\ a \in Seq(S) /\ IsInjective(a) /\ ToSet(a) = ToSet(s) \cup {e} /\ Len(a) = Len(s) + 1
  BY AtTheEnd
<1>2. Len(s) \in Nat /\ a[Len(s) + 1] = e /\ \A i \in 1..Len(s) : a[i] = s[i]
  OBVIOUS
<1> HIDE DEF a
<1>3. Len(s) + 1 \in 1..Len(a) /\ \A i \in 1..Len(s) : i \in 1..Len(a)
  BY <1>1, <1>2
<1>4. Place(a, e) = Len(s) + 1
  BY <1>1, <1>2, <1>3, PlaceIs
<1>5. ASSUME NEW f \in ToSet(s) PROVE /\ Place(s, f) \in 1..Len(s) /\ Place(a, f) = Place(s, f)
                                      /\ Place(a, f) # Place(a, e)
  <2>1. Place(s, f) \in 1..Len(s) /\ s[Place(s, f)] = f
    BY PlaceIs
  <2>2. Place(a, f) = Place(s, f)
    BY <1>1, <1>2, <1>3, <2>1, PlaceIs
  <2> QED BY <1>2, <1>4, <2>1, <2>2
<1>6. Behind(a, e) = {}
  BY <1>1, <1>4, BehindIs
<1>7. ASSUME NEW f \in ToSet(s) PROVE Behind(a, f) = Behind(s, f) \cup {e}
  <2>1. /\ Behind(a, f) \subseteq ToSet(a) /\ Behind(s, f) \subseteq ToSet(s)
        /\ \A l \in ToSet(a) : l \in Behind(a, f) <=> Place(a, l) > Place(a, f)
        /\ \A l \in ToSet(s) : l \in Behind(s, f) <=> Place(s, l) > Place(s, f)
    BY <1>1, BehindIs
  <2>2. \A l \in ToSet(s) : l \in Behind(a, f) <=> l \in Behind(s, f)
    BY <1>1, <1>5, <2>1
  <2>3. Place(a, e) > Place(a, f)
    BY <1>2, <1>4, <1>5
  <2>4. e \in Behind(a, f)
    BY <1>1, <2>1, <2>3
  <2> QED BY <1>1, <2>1, <2>2, <2>4
<1> QED BY <1>6, <1>7 DEF a

\* A new key at the back, refreshed now.
LEMMA PutHolds ==
    ASSUME NEW b, NEW s, NEW m, Holds(b, s, m), b.used # Entries,
           NEW k \in BufferKeys, m[k] = Null
    PROVE  LET u == PushBack(b, k)
               e == u.m_pCurrent
           IN /\ e \in Entries \ ToSet(s) /\ Holds(u, Append(s, e), [m EXCEPT ![k] = e])
              /\ \A f \in ToSet(s) : u.value[f] = b.value[f]
              /\ \A r \in Times, now \in Nat : InTime(b.value, s, r, now) =>
                    InTime(u.value, Append(s, e), [r EXCEPT ![k] = now], now)
<1> DEFINE u == PushBack(b, k)
           e == u.m_pCurrent
           a == Append(s, e)
<1>1. /\ s \in Seq(Entries) /\ IsInjective(s) /\ ToSet(s) \subseteq Entries /\ Null \notin ToSet(s)
  BY HeldEntries
<1>2. Ring(b, s) /\ DOMAIN b.value = Entries
  BY DEF Holds, Ring
<1>3. e \in Entries \ ToSet(s) /\ Ring(u, a) /\ u.value = [b.value EXCEPT ![e] = k]
  BY <1>2, PushBackRing
<1> HIDE DEF u
<1> HIDE DEF e
<1>4. ToSet(a) = ToSet(s) \cup {e}
  BY <1>1, <1>3, AtTheEnd
<1>5. u.value[e] = k /\ \A f \in ToSet(s) : u.value[f] = b.value[f]
  BY <1>1, <1>2, <1>3
<1>6. /\ \A f \in ToSet(s) : b.value[f] \in BufferKeys /\ m[b.value[f]] = f
      /\ \A x \in BufferKeys : m[x] = Null \/ (m[x] \in ToSet(s) /\ b.value[m[x]] = x)
      /\ m = [x \in BufferKeys |-> m[x]]
  BY DEF Holds
<1>7. \A f \in ToSet(s) : b.value[f] # k
  BY <1>1, <1>6
<1>8. Holds(u, a, [m EXCEPT ![k] = e])
  <2> DEFINE n == [m EXCEPT ![k] = e]
  <2>1. n = [x \in BufferKeys |-> n[x]] /\ \A x \in BufferKeys : n[x] = IF x = k THEN e ELSE m[x]
    BY <1>6
  <2> HIDE DEF n, a
  <2>2. ASSUME NEW f \in ToSet(a) PROVE u.value[f] \in BufferKeys /\ n[u.value[f]] = f
    BY <1>4, <1>5, <1>6, <1>7, <2>1, <2>2
  <2>3. ASSUME NEW x \in BufferKeys PROVE n[x] = Null \/ (n[x] \in ToSet(a) /\ u.value[n[x]] = x)
    BY <1>4, <1>5, <1>6, <2>1
  <2>4. Holds(u, a, n)
    BY <1>3, <2>1, <2>2, <2>3 DEF Holds, a
  <2> QED BY <2>4 DEF n
<1>9. ASSUME NEW r \in Times, NEW now \in Nat, InTime(b.value, s, r, now)
      PROVE  InTime(u.value, a, [r EXCEPT ![k] = now], now)
  <2> DEFINE q == [r EXCEPT ![k] = now]
  <2>1. \A x \in BufferKeys : q[x] = IF x = k THEN now ELSE r[x]
    BY DEF Times
  <2>2. /\ \A f \in ToSet(s) : q[u.value[f]] = r[b.value[f]] /\ r[b.value[f]] <= now
        /\ q[u.value[e]] = now
    BY <1>5, <1>6, <1>7, <1>9, <2>1 DEF InTime
  <2>3. /\ Behind(a, e) = {}
        /\ \A f \in ToSet(s) : Behind(a, f) = Behind(s, f) \cup {e} /\ Behind(s, f) \subseteq ToSet(s)
    BY <1>1, <1>3, BehindAppend, BehindIs
  <2> HIDE DEF q, a
  <2>4. now <= now
    OBVIOUS
  <2>5. ASSUME NEW f \in ToSet(s), NEW g \in Behind(a, f) PROVE q[u.value[f]] <= q[u.value[g]]
    <3>1. g = e \/ (g \in Behind(s, f) /\ g \in ToSet(s))
      BY <2>3
    <3> QED BY <1>9, <2>2, <3>1 DEF InTime
  <2>6. InTime(u.value, a, q, now)
    BY <1>4, <2>2, <2>3, <2>4, <2>5 DEF InTime
  <2> QED BY <2>6 DEF q
<1> QED BY <1>3, <1>5, <1>8, <1>9 DEF u, e

\* A key refreshed, and moved behind all others.
LEMMA MoveHolds ==
    ASSUME NEW b, NEW s, NEW m, Holds(b, s, m), NEW k \in BufferKeys, m[k] # Null
    PROVE  LET u == MoveToTail(b, m[k])
               a == Append(WithoutKey(s, m[k]), m[k])
           IN /\ Holds(u, a, m) /\ Len(a) = Len(s)
              /\ \A r \in Times, now \in Nat : InTime(b.value, s, r, now) =>
                    InTime(u.value, a, [r EXCEPT ![k] = now], now)
<1> DEFINE e == m[k]
           u == MoveToTail(b, e)
           w == WithoutKey(s, e)
           a == Append(w, e)
<1>1. /\ s \in Seq(Entries) /\ IsInjective(s) /\ ToSet(s) \subseteq Entries /\ Len(s) \in Nat
  BY HeldEntries
<1>2. Ring(b, s)
  BY DEF Holds
<1>3. /\ \A f \in ToSet(s) : b.value[f] \in BufferKeys /\ m[b.value[f]] = f
      /\ \A x \in BufferKeys : m[x] = Null \/ (m[x] \in ToSet(s) /\ b.value[m[x]] = x)
      /\ m = [x \in BufferKeys |-> m[x]]
  BY DEF Holds
<1>4. e \in ToSet(s) /\ b.value[e] = k
  BY <1>3
<1> HIDE DEF e
<1>5. Ring(u, a) /\ u.value = b.value
  BY <1>2, <1>4, MoveToTailRing
<1> HIDE DEF u
<1>6. w \in Seq(Entries) /\ IsInjective(w) /\ ToSet(w) = ToSet(s) \ {e} /\ Len(w) = Len(s) - 1
  BY <1>1, <1>4, WithoutKeyIs
<1>7. \A f \in ToSet(w) : Behind(w, f) = Behind(s, f) \ {e} /\ Behind(s, f) \subseteq ToSet(s)
  BY <1>1, <1>4, <1>6, BehindWithout, BehindIs
<1> HIDE DEF w
<1>8. e \in Entries \ ToSet(w)
  BY <1>1, <1>4, <1>6
<1>9. ToSet(a) = ToSet(w) \cup {e} /\ Len(a) = Len(w) + 1
  BY <1>6, <1>8, AtTheEnd
<1>10. /\ Behind(a, e) = {}
       /\ \A f \in ToSet(w) : Behind(a, f) = Behind(w, f) \cup {e}
  BY <1>6, <1>8, BehindAppend
<1>11. ToSet(a) = ToSet(s) /\ Len(a) = Len(s)
  BY <1>1, <1>4, <1>6, <1>9
<1> HIDE DEF a
<1>12. Holds(u, a, m)
  BY <1>3, <1>5, <1>11 DEF Holds
<1>13. ASSUME NEW r \in Times, NEW now \in Nat, InTime(b.value, s, r, now)
       PROVE  InTime(u.value, a, [r EXCEPT ![k] = now], now)
  <2> DEFINE q == [r EXCEPT ![k] = now]
  <2>1. \A x \in BufferKeys : q[x] = IF x = k THEN now ELSE r[x]
    BY DEF Times
  <2>2. /\ \A f \in ToSet(w) : q[u.value[f]] = r[b.value[f]] /\ r[b.value[f]] <= now
        /\ q[u.value[e]] = now
    <3>1. \A f \in ToSet(w) : f \in ToSet(s) /\ b.value[f] \in BufferKeys /\ b.value[f] # k
      BY <1>3, <1>4, <1>6 DEF e
    <3> QED BY <1>4, <1>5, <1>13, <2>1, <3>1 DEF InTime
  <2> HIDE DEF q
  <2>3. now <= now
    OBVIOUS
  <2>4. ASSUME NEW f \in ToSet(w), NEW g \in Behind(a, f) PROVE q[u.value[f]] <= q[u.value[g]]
    <3>1. g = e \/ (g \in Behind(s, f) /\ g \in ToSet(w))
      BY <1>6, <1>7, <1>10
    <3>2. f \in ToSet(s)
      BY <1>6
    <3> QED BY <1>13, <2>2, <3>1, <3>2 DEF InTime
  <2>5. InTime(u.value, a, q, now)
    BY <1>9, <1>10, <2>2, <2>3, <2>4 DEF InTime
  <2> QED BY <2>5 DEF q
<1> QED BY <1>11, <1>12, <1>13 DEF u, e, a, w

\* As many keys are known as there are entries.
LEMMA HeldCount ==
    ASSUME NEW b, NEW s, NEW m, Holds(b, s, m)
    PROVE  Cardinality({k \in BufferKeys : m[k] # Null}) = Len(s)
<1> DEFINE known == {k \in BufferKeys : m[k] # Null}
           keyed == [i \in 1..Len(s) |-> b.value[s[i]]]
<1>1. /\ s \in Seq(Entries) /\ IsInjective(s) /\ Null \notin ToSet(s) /\ Len(s) \in Nat
      /\ \A i \in 1..Len(s) : s[i] \in ToSet(s)
      /\ \A e, f \in ToSet(s) : b.value[e] = b.value[f] => e = f
  BY HeldEntries
<1>2. /\ \A f \in ToSet(s) : b.value[f] \in BufferKeys /\ m[b.value[f]] = f
      /\ \A x \in BufferKeys : m[x] = Null \/ (m[x] \in ToSet(s) /\ b.value[m[x]] = x)
  BY DEF Holds
<1>3. \A i \in 1..Len(s) : keyed[i] \in known
  BY <1>1, <1>2
<1>4. ASSUME NEW i \in 1..Len(s), NEW j \in 1..Len(s), keyed[i] = keyed[j] PROVE i = j
  <2>1. s[i] = s[j]
    BY <1>1, <1>4
  <2> QED BY <1>1, <2>1 DEF IsInjective
<1>5. ASSUME NEW k \in known PROVE \E i \in 1..Len(s) : keyed[i] = k
  <2>1. m[k] \in ToSet(s) /\ b.value[m[k]] = k
    BY <1>2
  <2>2. Place(s, m[k]) \in 1..Len(s) /\ s[Place(s, m[k])] = m[k]
    BY <1>1, <2>1, PlaceIs
  <2> QED BY <2>1, <2>2
<1> HIDE DEF known
<1>6. keyed \in Bijection(1..Len(s), known)
  <2>1. keyed \in [1..Len(s) -> known]
    BY <1>3
  <2>2. DOMAIN keyed = 1..Len(s)
    OBVIOUS
  <2> HIDE DEF keyed
  <2>3. keyed \in Injection(1..Len(s), known)
    BY <1>4, <2>1 DEF Injection, IsInjective
  <2>4. keyed \in Surjection(1..Len(s), known)
    BY <1>5, <2>1 DEF Surjection
  <2> QED BY <2>3, <2>4 DEF Bijection
<1>7. IsFiniteSet(1..Len(s)) /\ Cardinality(1..Len(s)) = Len(s)
  BY <1>1, FirstPlaces
<1>8. ExistsBijection(1..Len(s), known)
  BY <1>6 DEF ExistsBijection
<1>9. Cardinality(known) = Len(s)
  BY <1>7, <1>8, FS_Bijection
<1> QED BY <1>9 DEF known

-----------------------------------------------------------------------------
(* pop_old.                                                                *)

\* A turn of a loop: of pop_old and remove_all, of remove(value), or of operator=,
\* which copies a list.
Turn(what, l, x, i) == IF what = "round" THEN NextRound(l, x)
                       ELSE IF what = "push" THEN PushBack(l, x[i]) ELSE PopFront(l)
\* A list for each of 0..n, found by as many turns.
Turns(f, what, b, x, n) == f = [i \in 0..n |-> IF i = 0 THEN b ELSE Turn(what, f[i - 1], x, i)]

\* A loop of n turns has a value after each.
LEMMA TurnsAre ==
    ASSUME NEW what, NEW b, NEW x, NEW n \in Nat
    PROVE  \E f : Turns(f, what, b, x, n)
<1> DEFINE bad == {m \in 0..n : ~\E f : Turns(f, what, b, x, m)}
<1>1. bad = {}
  <2> SUFFICES ASSUME bad # {} PROVE FALSE
    OBVIOUS
  <2>1. PICK m \in bad : \A j \in bad : m <= j
    <3>1. bad \subseteq 0..n
      OBVIOUS
    <3> HIDE DEF bad
    <3> QED BY <3>1, FirstOfPlaces
  <2>2. m \in 0..n /\ ~\E f : Turns(f, what, b, x, m)
    OBVIOUS
  <2>3. CASE m = 0
    <3> DEFINE f == [i \in 0..m |-> b]
    <3>1. \A i \in 0..m : i = 0
      BY <2>3
    <3>2. Turns(f, what, b, x, m)
      BY <3>1 DEF Turns
    <3> QED BY <2>2, <3>2
  <2>4. CASE m # 0
    <3>1. m - 1 \in 0..n /\ m - 1 \notin bad
      BY <2>1, <2>2, <2>4
    <3>2. PICK g : Turns(g, what, b, x, m - 1)
      BY <3>1
    <3> DEFINE f == [i \in 0..m |-> IF i = m THEN Turn(what, g[m - 1], x, m) ELSE g[i]]
    <3>3. ASSUME NEW i \in 0..m PROVE f[i] = IF i = 0 THEN b ELSE Turn(what, f[i - 1], x, i)
      <4>1. i # 0 => i - 1 \in 0..m /\ i - 1 # m
        BY <2>2
      <4>2. i # 0 => f[i - 1] = g[i - 1]
        BY <4>1
      <4>3. CASE i = m
        BY <2>4, <4>2, <4>3
      <4>4. CASE i # m
        <5>1. i \in 0..m - 1 /\ f[i] = g[i]
          BY <2>2, <4>4
        <5> QED BY <3>2, <4>2, <5>1 DEF Turns
      <4> QED BY <4>3, <4>4
    <3>4. f = [i \in 0..m |-> f[i]]
      OBVIOUS
    <3>5. Turns(f, what, b, x, m)
      <4> HIDE DEF f
      <4> QED BY <3>3, <3>4 DEF Turns
    <3> QED BY <2>2, <3>5
  <2> QED BY <2>3, <2>4
<1>2. n \in 0..n
  OBVIOUS
<1> QED BY <1>1, <1>2

\* The loop that takes from the front n times.
Repeats(f, b, n) == f = [i \in 0..n |-> IF i = 0 THEN b ELSE PopFront(f[i - 1])]

\* There is such a function, which is what a definition of one as the other needs.
LEMMA RepeatsIs ==
    ASSUME NEW b, NEW n \in Nat
    PROVE  \E f : Repeats(f, b, n)
<1>1. PICK f : Turns(f, "pop", b, Null, n)
  BY TurnsAre
<1>2. \A i : Turn("pop", f[i - 1], Null, i) = PopFront(f[i - 1])
  BY DEF Turn
<1>3. Repeats(f, b, n)
  BY <1>1, <1>2 DEF Turns, Repeats
<1> QED BY <1>3

\* Without its first i, a sequence begins with the next; without that one too, it is
\* what is left without i + 1.
LEMMA AfterIs ==
    ASSUME NEW S, NEW s \in Seq(S), IsInjective(s)
    PROVE  /\ After(s, 0) = s
           /\ \A i \in 0..Len(s) : /\ After(s, i) \in Seq(S) /\ IsInjective(After(s, i))
                                   /\ Len(After(s, i)) = Len(s) - i
                                   /\ ToSet(After(s, i)) = {s[j] : j \in i + 1..Len(s)}
           /\ \A i \in 0..Len(s) - 1 : /\ After(s, i)[1] = s[i + 1] /\ After(s, i) # <<>>
                                       /\ WithoutKey(After(s, i), s[i + 1]) = After(s, i + 1)
<1>0. Len(s) \in Nat /\ DOMAIN s = 1..Len(s) /\ \A i \in 1..Len(s) : s[i] \in S
  OBVIOUS
<1>1. After(s, 0) = s
  <2>1. \A j \in 1..Len(s) : 0 + j = j
    OBVIOUS
  <2> QED BY <1>0, <2>1 DEF After
<1>2. ASSUME NEW i \in 0..Len(s)
      PROVE  /\ After(s, i) \in Seq(S) /\ IsInjective(After(s, i))
             /\ Len(After(s, i)) = Len(s) - i
             /\ ToSet(After(s, i)) = {s[j] : j \in i + 1..Len(s)}
             /\ \A j \in 1..Len(s) - i : After(s, i)[j] = s[i + j]
  <2> DEFINE a == After(s, i)
  <2>1. Len(s) - i \in Nat /\ \A j \in 1..Len(s) - i : i + j \in i + 1..Len(s) /\ i + j \in 1..Len(s)
    BY <1>0
  <2>2. /\ a = [j \in 1..Len(s) - i |-> a[j]] /\ DOMAIN a = 1..Len(s) - i
        /\ \A j \in 1..Len(s) - i : a[j] = s[i + j] /\ a[j] \in S
    BY <1>0, <2>1 DEF After
  <2> HIDE DEF a
  <2>3. a \in Seq(S) /\ Len(a) = Len(s) - i
    <3>1. a \in [1..Len(s) - i -> S]
      BY <2>2
    <3> HIDE <2>2
    <3>2. a \in Seq(S)
      BY <2>1, <3>1
    <3>3. DOMAIN a = 1..Len(s) - i /\ DOMAIN a = 1..Len(a) /\ Len(a) \in Nat
      BY <3>1, <3>2
    <3> QED BY <2>1, <3>2, <3>3
  <2>4. IsInjective(a)
    <3> SUFFICES ASSUME NEW j \in 1..Len(s) - i, NEW l \in 1..Len(s) - i, a[j] = a[l] PROVE j = l
      BY <2>2 DEF IsInjective
    <3>1. s[i + j] = s[i + l]
      BY <2>2
    <3>2. i + j = i + l
      BY <1>0, <2>1, <3>1 DEF IsInjective
    <3> QED BY <1>0, <3>2
  <2>5. ToSet(a) = {s[j] : j \in i + 1..Len(s)}
    <3>1. \A j \in i + 1..Len(s) : j - i \in 1..Len(s) - i /\ i + (j - i) = j
      BY <1>0
    <3>2. ASSUME NEW j \in i + 1..Len(s) PROVE s[j] \in ToSet(a)
      <4>1. j - i \in DOMAIN a /\ a[j - i] = s[j]
        BY <2>2, <3>1
      <4> QED BY <4>1 DEF ToSet
    <3>3. ASSUME NEW x \in ToSet(a) PROVE \E j \in i + 1..Len(s) : x = s[j]
      <4>1. PICK j \in 1..Len(s) - i : x = a[j]
        BY <2>2 DEF ToSet
      <4> QED BY <2>1, <2>2, <4>1
    <3> QED BY <3>2, <3>3
  <2> QED BY <2>2, <2>3, <2>4, <2>5 DEF a
<1>3. ASSUME NEW i \in 0..Len(s) - 1
      PROVE  /\ After(s, i)[1] = s[i + 1] /\ After(s, i) # <<>>
             /\ WithoutKey(After(s, i), s[i + 1]) = After(s, i + 1)
  <2> DEFINE a == After(s, i)
             z == After(s, i + 1)
             w == WithoutKey(a, s[i + 1])
  <2>1. i \in 0..Len(s) /\ i + 1 \in 0..Len(s) /\ 1 \in 1..Len(s) - i
    BY <1>0
  <2>2. /\ a \in Seq(S) /\ IsInjective(a) /\ Len(a) = Len(s) - i
        /\ \A j \in 1..Len(s) - i : a[j] = s[i + j]
    BY <1>2, <2>1
  <2>3. /\ z \in Seq(S) /\ Len(z) = Len(s) - (i + 1)
        /\ \A j \in 1..Len(s) - (i + 1) : z[j] = s[i + 1 + j]
    BY <1>2, <2>1
  <2> HIDE DEF a, z
  <2>4. a[1] = s[i + 1] /\ a # <<>> /\ 1 \in 1..Len(a)
    <3>1. a[1] = s[i + 1] /\ 1 \in 1..Len(a)
      BY <2>1, <2>2
    <3>2. Len(<<>>) = 0 /\ 1 \notin 1..0
      OBVIOUS
    <3> QED BY <3>1, <3>2
  <2>5. s[i + 1] \in ToSet(a) /\ Place(a, s[i + 1]) = 1
    <3>1. Place(a, a[1]) = 1
      BY <2>2, <2>4, PlaceIs
    <3>2. a[1] \in ToSet(a)
      BY <2>2, <2>4 DEF ToSet
    <3> QED BY <2>4, <3>1, <3>2
  <2>6. /\ w \in Seq(S) /\ Len(w) = Len(a) - 1
        /\ \A j \in 1..Len(a) - 1 : w[j] = IF j < 1 THEN a[j] ELSE a[j + 1]
    <3>1. /\ w \in Seq(S) /\ Len(w) = Len(a) - 1
          /\ \A j \in 1..Len(a) - 1 : w[j] = IF j < Place(a, s[i + 1]) THEN a[j] ELSE a[j + 1]
      BY <2>2, <2>5, WithoutKeyIs
    <3> HIDE DEF w
    <3> QED BY <2>5, <3>1
  <2> HIDE DEF w
  <2>7. w = z
    <3>1. Len(w) = Len(z)
      BY <1>0, <2>2, <2>3, <2>6
    <3>2. ASSUME NEW j \in 1..Len(w) PROVE w[j] = z[j]
      <4>1. j \in 1..Len(a) - 1 /\ ~(j < 1) /\ j + 1 \in 1..Len(s) - i /\ i + (j + 1) = i + 1 + j
            /\ j \in 1..Len(s) - (i + 1)
        BY <1>0, <2>2, <2>6
      <4> QED BY <2>2, <2>3, <2>6, <4>1
    <3> QED BY <2>3, <2>6, <3>1, <3>2, SeqEqual
  <2> QED BY <2>4, <2>7 DEF a, z, w
<1> QED BY <1>1, <1>2, <1>3

\* The keys of the first i entries.
KeysBefore(v, s, i) == {v[s[j]] : j \in 1..i}

\* The list without its first i.
Popped(p, b, s, m, i) ==
    /\ Holds(p, After(s, i), Forgotten(m, KeysBefore(b.value, s, i)))
    /\ \A e \in ToSet(After(s, i)) : p.value[e] = b.value[e]
    /\ \A r \in Times, now \in Nat : InTime(b.value, s, r, now) =>
          InTime(p.value, After(s, i), Untimed(r, KeysBefore(b.value, s, i)), now)

\* Before the first is taken.
LEMMA PoppedNone ==
    ASSUME NEW b, NEW s, NEW m, Holds(b, s, m)
    PROVE  Popped(b, b, s, m, 0)
<1>1. KeysBefore(b.value, s, 0) = {}
  <2>1. \A j \in 1..0 : FALSE
    OBVIOUS
  <2> QED BY <2>1 DEF KeysBefore
<1>2. After(s, 0) = s
  BY HeldEntries, AfterIs
<1>3. Forgotten(m, {}) = m
  BY DEF Holds, Forgotten
<1>4. \A r \in Times : Untimed(r, {}) = r
  BY DEF Times, Untimed
<1> QED BY <1>1, <1>2, <1>3, <1>4 DEF Popped

\* Taking the next.
LEMMA PoppedNext ==
    ASSUME NEW b, NEW s, NEW m, Holds(b, s, m), NEW i \in 0..Len(s) - 1,
           NEW p, Popped(p, b, s, m, i)
    PROVE  Popped(PopFront(p), b, s, m, i + 1)
<1> DEFINE a == After(s, i)
           e == s[i + 1]
           z == After(s, i + 1)
           keys == KeysBefore(b.value, s, i)
           u == PopFront(p)
<1>1. s \in Seq(Entries) /\ IsInjective(s) /\ Len(s) \in Nat
  BY HeldEntries
<1>2. i \in 0..Len(s) /\ i + 1 \in 0..Len(s) /\ i + 1 \in i + 1..Len(s) /\ i \in Nat
  BY <1>1
<1>3. /\ a[1] = e /\ a # <<>> /\ WithoutKey(a, e) = z
      /\ ToSet(a) = {s[j] : j \in i + 1..Len(s)} /\ a \in Seq(Entries) /\ IsInjective(a)
  <2>1. a[1] = e /\ a # <<>> /\ WithoutKey(a, e) = z
    BY <1>1, AfterIs
  <2>2. ToSet(a) = {s[j] : j \in i + 1..Len(s)} /\ a \in Seq(Entries) /\ IsInjective(a)
    BY <1>1, <1>2, AfterIs
  <2> QED BY <2>1, <2>2
<1>4. e \in ToSet(a) /\ ToSet(z) = ToSet(a) \ {e}
  BY <1>2, <1>3, WithoutKeyIs
<1>5. Holds(p, a, Forgotten(m, keys)) /\ \A f \in ToSet(a) : p.value[f] = b.value[f]
  BY DEF Popped
<1> HIDE DEF a, z
<1>6. u = UnlinkKey(p, e)
  <2>1. Ring(p, a)
    BY <1>5 DEF Holds
  <2> QED BY <1>3, <2>1, PopIsUnlink
<1>7. KeysBefore(b.value, s, i + 1) = keys \cup {b.value[e]} /\ p.value[e] = b.value[e]
  <2>1. \A j \in 1..i + 1 : j \in 1..i \/ j = i + 1
    BY <1>2
  <2>2. i + 1 \in 1..i + 1 /\ \A j \in 1..i : j \in 1..i + 1
    BY <1>2
  <2>3. KeysBefore(b.value, s, i + 1) = keys \cup {b.value[e]}
    BY <2>1, <2>2 DEF KeysBefore
  <2> QED BY <1>4, <1>5, <2>3
<1> HIDE DEF u, e, keys
<1>8. /\ Holds(u, z, Forgotten(Forgotten(m, keys), {b.value[e]}))
      /\ \A f \in ToSet(z) : u.value[f] = p.value[f] /\ p.value[f] = b.value[f]
      /\ \A r \in Times, now \in Nat : InTime(p.value, a, r, now) =>
             InTime(u.value, z, Untimed(r, {b.value[e]}), now)
  <2>1. /\ Holds(u, WithoutKey(a, e), Forgotten(Forgotten(m, keys), {p.value[e]}))
        /\ \A f \in ToSet(a) \ {e} : u.value[f] = p.value[f]
        /\ \A r \in Times, now \in Nat : InTime(p.value, a, r, now) =>
               InTime(u.value, WithoutKey(a, e), Untimed(r, {p.value[e]}), now)
    <3>1. /\ Holds(UnlinkKey(p, e), WithoutKey(a, e), Forgotten(Forgotten(m, keys), {p.value[e]}))
          /\ \A f \in ToSet(a) \ {e} : UnlinkKey(p, e).value[f] = p.value[f]
          /\ \A r \in Times, now \in Nat : InTime(p.value, a, r, now) =>
               InTime(UnlinkKey(p, e).value, WithoutKey(a, e), Untimed(r, {p.value[e]}), now)
      BY <1>4, <1>5, EraseHolds
    <3> QED BY <1>6, <3>1
  <2>2. WithoutKey(a, e) = z /\ p.value[e] = b.value[e]
    BY <1>3, <1>7
  <2>3. \A f \in ToSet(z) : f \in ToSet(a) \ {e} /\ p.value[f] = b.value[f]
    BY <1>4, <1>5
  <2> QED BY <2>1, <2>2, <2>3
<1>9. Forgotten(Forgotten(m, keys), {b.value[e]}) = Forgotten(m, keys \cup {b.value[e]})
  BY DEF Forgotten
<1>10. ASSUME NEW r \in Times
       PROVE  /\ Untimed(r, keys) \in Times
              /\ Untimed(Untimed(r, keys), {b.value[e]}) = Untimed(r, keys \cup {b.value[e]})
  BY DEF Untimed, Times
<1>11. ASSUME NEW r \in Times, NEW now \in Nat, InTime(b.value, s, r, now)
       PROVE  InTime(u.value, z, Untimed(r, keys \cup {b.value[e]}), now)
  <2>1. InTime(p.value, a, Untimed(r, keys), now)
    BY <1>11 DEF Popped, a, keys
  <2> QED BY <1>8, <1>10, <2>1
<1>12. Popped(u, b, s, m, i + 1)
  BY <1>7, <1>8, <1>9, <1>11 DEF Popped, z
<1> QED BY <1>12 DEF u

\* After n have been taken.
LEMMA PoppedAll ==
    ASSUME NEW b, NEW s, NEW m, Holds(b, s, m), NEW n \in 0..Len(s),
           NEW popped, Repeats(popped, b, n)
    PROVE  Popped(popped[n], b, s, m, n)
<1> DEFINE bad == {i \in 0..n : ~Popped(popped[i], b, s, m, i)}
<1>1. Len(s) \in Nat /\ n \in Nat
  <2>1. Len(s) \in Nat
    BY HeldEntries
  <2> QED BY <2>1
<1>2. bad = {}
  <2> SUFFICES ASSUME bad # {} PROVE FALSE
    OBVIOUS
  <2>1. PICK i \in bad : \A j \in bad : i <= j
    <3>1. bad \subseteq 0..n
      OBVIOUS
    <3> HIDE DEF bad
    <3> QED BY <1>1, <3>1, FirstOfPlaces
  <2>2. i \in 0..n /\ ~Popped(popped[i], b, s, m, i)
    OBVIOUS
  <2>3. popped[i] = IF i = 0 THEN b ELSE PopFront(popped[i - 1])
    BY <2>2 DEF Repeats
  <2>4. CASE i = 0
    BY <2>2, <2>3, <2>4, PoppedNone
  <2>5. CASE i # 0
    <3>1. i - 1 \in 0..n /\ i - 1 \in 0..Len(s) - 1 /\ i - 1 \notin bad /\ i - 1 + 1 = i
      BY <1>1, <2>1, <2>2, <2>5
    <3>2. Popped(popped[i - 1], b, s, m, i - 1)
      BY <3>1
    <3> HIDE DEF bad
    <3>3. Popped(PopFront(popped[i - 1]), b, s, m, i - 1 + 1)
      BY <3>1, <3>2, PoppedNext
    <3> QED BY <2>2, <2>3, <2>5, <3>1, <3>3
  <2> QED BY <2>4, <2>5
<1>3. n \in 0..n
  BY <1>1
<1> QED BY <1>2, <1>3

-----------------------------------------------------------------------------
(* The invariant.                                                          *)

\* The buffer's list is s.
InOrder(s) == /\ Holds(buffer, s, m_map)
              /\ policy.limit > 0 => Len(s) <= policy.limit
              /\ ~backdated => InTime(buffer.value, s, refreshed, time)

ExpireInv == /\ refreshed \in Times /\ time \in Nat /\ policy.limit \in Nat
             /\ ~broken => \E s : InOrder(s)

\* What the next state must be for the invariant to hold in it.
LEMMA OrderNext ==
    ASSUME NEW w, Holds(buffer', w, m_map'), policy'.limit > 0 => Len(w) <= policy'.limit,
           ~backdated' => InTime(buffer'.value, w, refreshed', time')
    PROVE  (\E s : InOrder(s))'
<1>1. InOrder(w)'
  BY DEF InOrder
<1> QED BY <1>1

\* The invariant of the buffer holds at the start.
LEMMA ExpireStart == ExpireInit => ExpireInv
<1> SUFFICES ASSUME ExpireInit PROVE ExpireInv
  OBVIOUS
<1>1. Holds(buffer, <<>>, m_map)
  <2>1. ToSet(<<>>) = {}
    BY DEF ToSet
  <2>2. m_map = [k \in BufferKeys |-> Null] /\ buffer = EmptyList
    BY DEF ExpireInit
  <2> QED BY <2>1, <2>2, EmptyRingIs DEF Holds
<1>2. InTime(buffer.value, <<>>, refreshed, time)
  BY DEF InTime, ToSet
<1>3. refreshed \in Times /\ time \in Nat /\ policy.limit \in Nat
  BY ExpireAssumption DEF ExpireInit, Times
<1>4. InOrder(<<>>)
  <2>1. Len(<<>>) = 0
    OBVIOUS
  <2> QED BY <1>1, <1>2, <1>3, <2>1 DEF InOrder
<1> QED BY <1>3, <1>4 DEF ExpireInv

\* Erasing some of the entries.
LEMMA ErasedInv ==
    ASSUME ExpireInv, NEW s, InOrder(s), NEW p, NEW w, NEW gone, Erase(p, gone),
           Holds(p, w, Forgotten(m_map, gone)), Len(w) <= Len(s), Len(w) \in Nat, Len(s) \in Nat,
           InTime(buffer.value, s, refreshed, time) => InTime(p.value, w, Untimed(refreshed, gone), time)
    PROVE  ExpireInv'
<1>1. /\ buffer' = p /\ m_map' = Forgotten(m_map, gone) /\ refreshed' = Untimed(refreshed, gone)
      /\ policy' = policy /\ time' = time /\ backdated' = backdated /\ broken' = broken
  BY DEF Erase, Forgotten, Untimed
<1>2. refreshed' \in Times /\ time' \in Nat /\ policy'.limit \in Nat
  BY <1>1 DEF ExpireInv, Times, Untimed
<1>3. policy'.limit > 0 => Len(w) <= policy'.limit
  BY <1>1, <1>2 DEF InOrder
<1>4. InOrder(w)'
  BY <1>1, <1>3 DEF InOrder
<1> QED BY <1>2, <1>4 DEF ExpireInv

\* Erasing one.
LEMMA OneErased ==
    ASSUME ExpireInv, NEW s, InOrder(s), NEW e \in ToSet(s),
           Erase(UnlinkKey(buffer, e), {buffer.value[e]})
    PROVE  ExpireInv'
<1> DEFINE p == UnlinkKey(buffer, e)
           w == WithoutKey(s, e)
           gone == {buffer.value[e]}
<1>1. Holds(buffer, s, m_map)
  BY DEF InOrder
<1>2. refreshed \in Times /\ time \in Nat
  BY DEF ExpireInv
<1>3. /\ Holds(p, w, Forgotten(m_map, gone))
      /\ InTime(buffer.value, s, refreshed, time) => InTime(p.value, w, Untimed(refreshed, gone), time)
  BY <1>1, <1>2, EraseHolds
<1>4. Len(w) = Len(s) - 1 /\ Len(s) \in Nat /\ Len(w) \in Nat
  <2>1. s \in Seq(Entries) /\ IsInjective(s)
    BY <1>1, HeldEntries
  <2>2. w \in Seq(Entries) /\ Len(w) = Len(s) - 1
    BY <2>1, WithoutKeyIs
  <2> HIDE DEF w
  <2> QED BY <2>1, <2>2
<1>5. Len(w) <= Len(s)
  BY <1>4
<1>6. Erase(p, gone)
  OBVIOUS
<1> HIDE DEF p, w, gone
<1> QED BY <1>3, <1>4, <1>5, <1>6, ErasedInv

\* The ends of a list that is not empty.
LEMMA Ends ==
    ASSUME NEW s, InOrder(s), buffer.m_count > 0
    PROVE  /\ s # <<>>
           /\ buffer.m_pHead \in ToSet(s) /\ buffer.m_pTail \in ToSet(s)
           /\ PopFront(buffer) = UnlinkKey(buffer, buffer.m_pHead)
           /\ PopBack(buffer) = UnlinkKey(buffer, buffer.m_pTail)
<1>1. Ring(buffer, s)
  BY DEF InOrder, Holds
<1>2. s # <<>>
  <2>1. buffer.m_count = Len(s)
    BY <1>1 DEF Ring
  <2> QED BY <2>1
<1> QED BY <1>1, <1>2, PopIsUnlink

\* pop_old: which entries it takes, and what it leaves.
LEMMA PopOldTakes ==
    ASSUME NEW s, InOrder(s), PopOld
    PROVE  \E n \in 0..Len(s) : \E p :
              /\ \A j \in 1..n : TooOld(s[j])
              /\ n < Len(s) => ~TooOld(s[n + 1])
              /\ Popped(p, buffer, s, m_map, n)
              /\ Erase(p, KeysBefore(buffer.value, s, n))
<1>1. Holds(buffer, s, m_map) /\ Ring(buffer, s)
  BY DEF InOrder, Holds
<1>2. s = Onward(buffer, buffer.m_pHead)
  BY <1>1, OnwardIs
<1>3. Len(s) \in Nat
  BY <1>1, HeldEntries
<1> DEFINE n == CHOOSE i \in 0..Len(s) : /\ \A j \in 1..i : TooOld(s[j])
                                         /\ i < Len(s) => ~TooOld(s[i + 1])
           popped[i \in 0..n] == IF i = 0 THEN buffer ELSE PopFront(popped[i - 1])
<1>4. Erase(popped[n], {buffer.value[s[i]] : i \in 1..n})
  BY <1>2 DEF PopOld
<1>5. n \in 0..Len(s) /\ (\A j \in 1..n : TooOld(s[j])) /\ (n < Len(s) => ~TooOld(s[n + 1]))
  <2> DEFINE stops == {i \in 0..Len(s) : i = Len(s) \/ ~TooOld(s[i + 1])}
  <2>1. stops # {}
    <3>1. Len(s) \in stops
      BY <1>3
    <3> QED BY <3>1
  <2>2. PICK i \in stops : \A j \in stops : i <= j
    <3>1. stops \subseteq 0..Len(s)
      OBVIOUS
    <3> HIDE DEF stops
    <3> QED BY <1>3, <2>1, <3>1, FirstOfPlaces
  <2>3. i \in 0..Len(s) /\ (i < Len(s) => ~TooOld(s[i + 1]))
    BY <1>3
  <2>4. ASSUME NEW j \in 1..i PROVE TooOld(s[j])
    <3>1. j - 1 \in 0..Len(s) /\ j - 1 # Len(s) /\ ~(i <= j - 1) /\ j - 1 + 1 = j
      BY <1>3, <2>3
    <3>2. j - 1 \notin stops
      BY <2>2, <3>1
    <3> QED BY <3>1, <3>2
  <2>5. \E x \in 0..Len(s) : (\A j \in 1..x : TooOld(s[j])) /\ (x < Len(s) => ~TooOld(s[x + 1]))
    BY <2>3, <2>4
  <2> QED BY <2>5
<1>6. Repeats(popped, buffer, n)
  <2>1. n \in Nat
    BY <1>3, <1>5
  <2> HIDE DEF n
  <2>2. PICK g : Repeats(g, buffer, n)
    BY <2>1, RepeatsIs
  <2>3. popped = CHOOSE f : f = [i \in 0..n |-> IF i = 0 THEN buffer ELSE PopFront(f[i - 1])]
    BY DEF popped
  <2> HIDE DEF popped
  <2> QED BY <2>2, <2>3 DEF Repeats
<1> HIDE DEF popped, n
<1>7. Popped(popped[n], buffer, s, m_map, n)
  BY <1>1, <1>5, <1>6, PoppedAll
<1>8. KeysBefore(buffer.value, s, n) = {buffer.value[s[i]] : i \in 1..n}
  BY DEF KeysBefore
<1>9. Erase(popped[n], KeysBefore(buffer.value, s, n))
  BY <1>4, <1>8
<1> QED BY <1>5, <1>7, <1>9

\* pop_old keeps the invariant.
LEMMA PopOldInv ==
    ASSUME ExpireInv, NEW s, InOrder(s), PopOld
    PROVE  ExpireInv'
<1>0. PICK n \in 0..Len(s) : \E p : /\ Popped(p, buffer, s, m_map, n)
                                    /\ Erase(p, KeysBefore(buffer.value, s, n))
  BY PopOldTakes
<1>1. PICK p : /\ Popped(p, buffer, s, m_map, n)
               /\ Erase(p, KeysBefore(buffer.value, s, n))
  BY <1>0
<1> DEFINE w == After(s, n)
           gone == KeysBefore(buffer.value, s, n)
<1>2. refreshed \in Times /\ time \in Nat
  BY DEF ExpireInv
<1>3. /\ Holds(p, w, Forgotten(m_map, gone))
      /\ InTime(buffer.value, s, refreshed, time) => InTime(p.value, w, Untimed(refreshed, gone), time)
  BY <1>1, <1>2 DEF Popped
<1>4. Len(w) = Len(s) - n /\ Len(s) \in Nat
  <2>1. s \in Seq(Entries) /\ IsInjective(s) /\ Len(s) \in Nat
    BY HeldEntries DEF InOrder
  <2>2. Len(w) = Len(s) - n
    BY <2>1, AfterIs
  <2> QED BY <2>1, <2>2
<1> HIDE DEF w
<1>5. Len(w) <= Len(s) /\ Len(w) \in Nat
  BY <1>4
<1>6. Erase(p, gone)
  BY <1>1
<1> HIDE DEF gone
<1> QED BY <1>3, <1>4, <1>5, <1>6, ErasedInv

\* push keeps the invariant, with room and when the oldest makes room.
LEMMA PushInv ==
    ASSUME ExpireInv, NEW s, InOrder(s), NEW k \in BufferKeys, Push(k)
    PROVE  ExpireInv'
<1> DEFINE b == PushBack(buffer, k)
           e == b.m_pCurrent
           a == Append(s, e)
           m == [m_map EXCEPT ![k] = e]
           r == [refreshed EXCEPT ![k] = time]
           full == policy.limit > 0 /\ b.m_count > policy.limit
           oldest == buffer.value[buffer.m_pHead]
<1>1. Holds(buffer, s, m_map) /\ Ring(buffer, s)
  BY DEF InOrder, Holds
<1>2. refreshed \in Times /\ time \in Nat /\ policy.limit \in Nat
  BY DEF ExpireInv
<1>3. buffer.used # Entries /\ m_map[k] = Null
  BY DEF Push, Known
<1>4. /\ s \in Seq(Entries) /\ IsInjective(s) /\ Len(s) \in Nat /\ ToSet(s) \subseteq Entries
      /\ Null \notin ToSet(s)
  BY <1>1, HeldEntries
<1>5. /\ e \in Entries \ ToSet(s) /\ Holds(b, a, m)
      /\ \A f \in ToSet(s) : b.value[f] = buffer.value[f]
      /\ InTime(buffer.value, s, refreshed, time) => InTime(b.value, a, r, time)
  BY <1>1, <1>2, <1>3, PutHolds
<1>6. /\ m_map = [x \in BufferKeys |-> m_map[x]]
      /\ \A f \in ToSet(s) : m_map[buffer.value[f]] = f
  BY <1>1 DEF Holds
<1>7. /\ buffer' = (IF full THEN PopFront(b) ELSE b)
      /\ m_map' = [x \in BufferKeys |-> IF x = k THEN e
                                        ELSE IF full /\ x = oldest THEN Null ELSE m_map[x]]
      /\ refreshed' = [x \in BufferKeys |-> IF x = k THEN time
                                            ELSE IF full /\ x = oldest THEN 0 ELSE refreshed[x]]
      /\ policy' = policy /\ time' = time /\ backdated' = backdated /\ broken' = broken
  BY DEF Push
<1>8. refreshed' \in Times /\ time' \in Nat /\ policy'.limit \in Nat
  <2> HIDE DEF full, oldest, e
  <2>1. refreshed' \in Times
    BY <1>2, <1>7 DEF Times
  <2> QED BY <1>2, <1>7, <2>1
<1>9. a \in Seq(Entries) /\ IsInjective(a) /\ Len(a) = Len(s) + 1 /\ ToSet(a) = ToSet(s) \cup {e}
  BY <1>4, <1>5, AtTheEnd
<1>10. Ring(b, a) /\ b.m_count = Len(a)
  <2>1. Ring(b, a)
    BY <1>5 DEF Holds
  <2> HIDE DEF b, a
  <2> QED BY <2>1 DEF Ring
<1>11. r \in Times /\ DOMAIN r = BufferKeys /\ \A x \in BufferKeys : r[x] = IF x = k THEN time ELSE refreshed[x]
  BY <1>2 DEF Times
<1>12. m = [x \in BufferKeys |-> m[x]] /\ \A x \in BufferKeys : m[x] = IF x = k THEN e ELSE m_map[x]
  BY <1>6
<1> HIDE DEF b, e, a, m, r
<1>13. CASE ~full
  <2>1. buffer' = b
    BY <1>7, <1>13
  <2>2. m_map' = m
    <3>1. m_map' = [x \in BufferKeys |-> IF x = k THEN e ELSE m_map[x]]
      BY <1>7, <1>13
    <3> QED BY <1>12, <3>1
  <2>3. refreshed' = r
    <3>1. refreshed' = [x \in BufferKeys |-> IF x = k THEN time ELSE refreshed[x]]
      BY <1>7, <1>13
    <3>2. r = [x \in BufferKeys |-> r[x]]
      BY <1>11 DEF Times
    <3> QED BY <1>11, <3>1, <3>2
  <2>4. policy'.limit > 0 => Len(a) <= policy'.limit
    BY <1>2, <1>4, <1>7, <1>9, <1>10, <1>13
  <2>5. Holds(buffer', a, m_map')
    BY <1>5, <2>1, <2>2
  <2>6. ~backdated' => InTime(buffer'.value, a, refreshed', time')
    BY <1>5, <1>7, <2>1, <2>3 DEF InOrder
  <2>7. (\E x : InOrder(x))'
    BY <2>4, <2>5, <2>6, OrderNext
  <2> QED BY <1>8, <2>7 DEF ExpireInv
<1>14. CASE full
  <2>1. Len(s) > 0
    BY <1>2, <1>4, <1>9, <1>10, <1>14
  <2> HIDE DEF full
  <2>2. s # <<>> /\ 1 \in 1..Len(s) /\ 1 \in 1..Len(a) /\ a # <<>>
    <3>1. 1 \in 1..Len(s) /\ 1 \in 1..Len(a)
      BY <1>4, <1>9, <2>1
    <3>2. s # <<>> /\ a # <<>>
      <4>1. Len(<<>>) = 0
        OBVIOUS
      <4> QED BY <1>4, <1>9, <2>1, <4>1
    <3> QED BY <3>1, <3>2
  <2>3. a[1] = s[1]
    BY <1>4, <2>2 DEF a
  <2>4. buffer.m_pHead = s[1] /\ s[1] \in ToSet(s)
    BY <1>1, <2>2, PopIsUnlink
  <2>5. b.m_pHead = s[1] /\ PopFront(b) = UnlinkKey(b, s[1])
    BY <1>10, <2>2, <2>3, PopIsUnlink
  <2>6. oldest = b.value[s[1]] /\ oldest # k /\ s[1] \in ToSet(a)
    <3>1. oldest = b.value[s[1]] /\ s[1] \in ToSet(a)
      BY <1>5, <1>9, <2>4
    <3>2. m_map[oldest] = s[1]
      BY <1>6, <2>4
    <3> QED BY <1>3, <1>4, <2>4, <3>1, <3>2
  <2> HIDE DEF oldest
  <2> DEFINE w == WithoutKey(a, s[1])
             u == UnlinkKey(b, s[1])
  <2>7. /\ Holds(u, w, Forgotten(m, {oldest}))
        /\ InTime(b.value, a, r, time) => InTime(u.value, w, Untimed(r, {oldest}), time)
    BY <1>2, <1>5, <1>11, <2>6, EraseHolds
  <2>8. Len(w) = Len(a) - 1
    BY <1>9, <2>6, WithoutKeyIs
  <2> HIDE DEF w
  <2>9. buffer' = u
    BY <1>7, <1>14, <2>5
  <2> HIDE DEF u
  <2>10. m_map' = Forgotten(m, {oldest})
    <3>1. m_map' = [x \in BufferKeys |-> IF x = k THEN e ELSE IF x = oldest THEN Null ELSE m_map[x]]
      BY <1>7, <1>14
    <3> QED BY <1>12, <2>6, <3>1 DEF Forgotten
  <2>11. refreshed' = Untimed(r, {oldest})
    <3>1. refreshed' = [x \in BufferKeys |-> IF x = k THEN time ELSE IF x = oldest THEN 0 ELSE refreshed[x]]
      BY <1>7, <1>14
    <3> QED BY <1>11, <2>6, <3>1 DEF Untimed
  <2>12. policy'.limit > 0 => Len(w) <= policy'.limit
    <3>1. Len(w) = Len(s)
      BY <1>4, <1>9, <2>8
    <3> QED BY <1>7, <3>1 DEF InOrder
  <2>13. Holds(buffer', w, m_map')
    BY <2>7, <2>9, <2>10
  <2>14. ~backdated' => InTime(buffer'.value, w, refreshed', time')
    BY <1>5, <1>7, <2>7, <2>9, <2>11 DEF InOrder
  <2>15. (\E x : InOrder(x))'
    BY <2>12, <2>13, <2>14, OrderNext
  <2> QED BY <1>8, <2>15 DEF ExpireInv
<1> QED BY <1>13, <1>14

\* update keeps the invariant.
LEMMA UpdateInv ==
    ASSUME ExpireInv, NEW s, InOrder(s), NEW k \in BufferKeys, NEW t \in GivenTimes \cup {time},
           Update(k, t)
    PROVE  ExpireInv'
<1> DEFINE u == MoveToTail(buffer, m_map[k])
           a == Append(WithoutKey(s, m_map[k]), m_map[k])
<1>1. Holds(buffer, s, m_map)
  BY DEF InOrder
<1>2. refreshed \in Times /\ time \in Nat /\ policy.limit \in Nat
  BY DEF ExpireInv
<1>3. m_map[k] # Null
  BY DEF Update, Known
<1>4. /\ Holds(u, a, m_map) /\ Len(a) = Len(s)
      /\ InTime(buffer.value, s, refreshed, time) =>
             InTime(u.value, a, [refreshed EXCEPT ![k] = time], time)
  BY <1>1, <1>2, <1>3, MoveHolds
<1>5. /\ buffer' = u /\ refreshed' = [refreshed EXCEPT ![k] = t]
      /\ backdated' = (backdated \/ t # time)
      /\ m_map' = m_map /\ policy' = policy /\ time' = time /\ broken' = broken
  BY DEF Update
<1> HIDE DEF u, a
<1>6. t \in Nat
  BY <1>2, ExpireAssumption
<1>7. refreshed' \in Times
  BY <1>2, <1>5, <1>6 DEF Times
<1>8. (\E x : InOrder(x))'
  <2>1. policy'.limit > 0 => Len(a) <= policy'.limit
    BY <1>4, <1>5 DEF InOrder
  <2>2. ~backdated' => InTime(buffer'.value, a, refreshed', time')
    BY <1>4, <1>5 DEF InOrder
  <2>3. Holds(buffer', a, m_map')
    BY <1>4, <1>5
  <2> QED BY <2>1, <2>2, <2>3, OrderNext
<1> QED BY <1>2, <1>5, <1>7, <1>8 DEF ExpireInv

\* Moving the cursor keeps the invariant.
LEMMA CursorInv ==
    ASSUME ExpireInv, NEW s, InOrder(s), MoveCursor
    PROVE  ExpireInv'
<1>1. PICK c : buffer' = [buffer EXCEPT !.m_pCurrent = c]
  BY DEF MoveCursor
<1>2. Holds(buffer, s, m_map) /\ Ring(buffer, s)
  BY DEF InOrder, Holds
<1>3. Ring(buffer', s) /\ buffer'.value = buffer.value
  BY <1>1, <1>2, RingCursor
<1>4. /\ m_map' = m_map /\ refreshed' = refreshed /\ policy' = policy /\ time' = time
      /\ backdated' = backdated /\ broken' = broken
  BY DEF MoveCursor
<1>5. Holds(buffer', s, m_map)
  BY <1>2, <1>3 DEF Holds
<1>6. InOrder(s)'
  BY <1>3, <1>4, <1>5 DEF InOrder
<1> QED BY <1>4, <1>6 DEF ExpireInv

\* Time passing keeps the invariant.
LEMMA TimeInv ==
    ASSUME ExpireInv, NEW s, InOrder(s), TimePasses
    PROVE  ExpireInv'
<1>1. /\ buffer' = buffer /\ m_map' = m_map /\ refreshed' = refreshed /\ policy' = policy
      /\ time' = time + 1 /\ backdated' = backdated /\ broken' = broken
  BY DEF TimePasses
<1>2. refreshed \in Times /\ time \in Nat /\ policy.limit \in Nat
  BY DEF ExpireInv
<1>3. ASSUME InTime(buffer.value, s, refreshed, time) PROVE InTime(buffer.value, s, refreshed, time + 1)
  <2>1. \A e \in ToSet(s) : refreshed[buffer.value[e]] \in Nat
    BY <1>2 DEF InOrder, Holds, Times
  <2>2. \A e \in ToSet(s) : refreshed[buffer.value[e]] <= time + 1
    BY <1>2, <1>3, <2>1 DEF InTime
  <2> QED BY <1>3, <2>2 DEF InTime
<1>4. InOrder(s)'
  BY <1>1, <1>3 DEF InOrder
<1> QED BY <1>1, <1>2, <1>4 DEF ExpireInv

\* Every step keeps the invariant of the buffer.
LEMMA ExpireStep == ExpireInv /\ [ExpireNext]_expireVars => ExpireInv'
<1> SUFFICES ASSUME ExpireInv, [ExpireNext]_expireVars PROVE ExpireInv'
  OBVIOUS
<1>1. CASE UNCHANGED expireVars
  <2>1. ASSUME NEW s, InOrder(s) PROVE InOrder(s)'
    BY <1>1, <2>1 DEF expireVars, InOrder
  <2> QED BY <1>1, <2>1 DEF expireVars, ExpireInv
<1>2. CASE ExpireNext
  <2>1. PICK s : InOrder(s)
    BY <1>2 DEF ExpireInv, ExpireNext
  <2>2. ASSUME NEW k \in BufferKeys, Push(k) PROVE ExpireInv'
    BY <2>1, <2>2, PushInv
  <2>3. ASSUME NEW k \in BufferKeys, PopKey(k) PROVE ExpireInv'
    <3>1. m_map[k] \in ToSet(s) /\ buffer.value[m_map[k]] = k
      BY <2>1, <2>3 DEF PopKey, Known, InOrder, Holds
    <3> QED BY <2>1, <2>3, <3>1, OneErased DEF PopKey
  <2>4. ASSUME NEW k \in BufferKeys, NEW t \in GivenTimes \cup {time}, Update(k, t) PROVE ExpireInv'
    BY <2>1, <2>4, UpdateInv
  <2>5. CASE PopEnd
    <3>1. buffer.m_count > 0
      BY <2>5 DEF PopEnd
    <3>2. /\ buffer.m_pHead \in ToSet(s) /\ buffer.m_pTail \in ToSet(s)
          /\ PopFront(buffer) = UnlinkKey(buffer, buffer.m_pHead)
          /\ PopBack(buffer) = UnlinkKey(buffer, buffer.m_pTail)
      BY <2>1, <3>1, Ends
    <3>3. \/ Erase(UnlinkKey(buffer, buffer.m_pHead), {buffer.value[buffer.m_pHead]})
          \/ Erase(UnlinkKey(buffer, buffer.m_pTail), {buffer.value[buffer.m_pTail]})
      BY <2>5, <3>2 DEF PopEnd
    <3> QED BY <2>1, <3>2, <3>3, OneErased
  <2>6. CASE PopOld
    BY <2>1, <2>6, PopOldInv
  <2>7. CASE PopFrontOld
    <3>1. CASE buffer.m_count > 0 /\ TooOld(buffer.m_pHead)
      <4>1. /\ buffer.m_pHead \in ToSet(s)
            /\ PopFront(buffer) = UnlinkKey(buffer, buffer.m_pHead)
        BY <2>1, <3>1, Ends
      <4>2. Erase(UnlinkKey(buffer, buffer.m_pHead), {buffer.value[buffer.m_pHead]})
        BY <2>7, <3>1, <4>1 DEF PopFrontOld
      <4> QED BY <2>1, <4>1, <4>2, OneErased
    <3>2. CASE ~(buffer.m_count > 0 /\ TooOld(buffer.m_pHead))
      BY <1>1, <2>7, <3>2 DEF PopFrontOld
    <3> QED BY <3>1, <3>2
  <2>8. CASE MoveCursor
    BY <2>1, <2>8, CursorInv
  <2>9. CASE ClearBuffer
    BY <2>9 DEF ClearBuffer, ExpireInv, Times
  <2>10. CASE TimePasses
    BY <2>1, <2>10, TimeInv
  <2> QED BY <1>2, <2>2, <2>3, <2>4, <2>5, <2>6, <2>7, <2>8, <2>9, <2>10 DEF ExpireNext
<1> QED BY <1>1, <1>2

\* The invariant implies the property of the run.
LEMMA ExpireImplied == ExpireInv => BufferAgrees
<1> SUFFICES ASSUME ExpireInv, ~broken PROVE BufferAgrees
  BY DEF BufferAgrees
<1>1. PICK s : InOrder(s)
  BY DEF ExpireInv
<1>2. Holds(buffer, s, m_map) /\ Ring(buffer, s)
  BY <1>1 DEF InOrder, Holds
<1>3. Onward(buffer, buffer.m_pHead) = s
  BY <1>2, OnwardIs
<1>4. /\ s \in Seq(Entries) /\ IsInjective(s) /\ Len(s) \in Nat /\ DOMAIN s = 1..Len(s)
      /\ \A i \in 1..Len(s) : s[i] \in ToSet(s)
  BY <1>2, HeldEntries
<1>5. Len(s) = Cardinality(Known)
  BY <1>2, HeldCount DEF Known
<1>6. Len(s) = buffer.m_count /\ (s = <<>> => buffer.m_pTail = Tag)
  <2>1. Len(s) = buffer.m_count /\ buffer.m_pTail = Around(s, Len(s))
    BY <1>2 DEF Ring
  <2>2. s = <<>> => Len(s) = 0
    OBVIOUS
  <2> QED BY <2>1, <2>2 DEF Around
<1> DEFINE back[i \in 1..Len(s)] == IF i = 1 THEN buffer.m_pTail ELSE buffer.prev[back[i - 1]]
<1>7. \A i \in 1..Len(s) : back[Len(s) + 1 - i] = s[i]
  BY <1>2, BackIs
<1> HIDE DEF back
<1>8. \A i \in DOMAIN s : back[Len(s) + 1 - i] = s[i] /\ m_map[buffer.value[s[i]]] = s[i]
  BY <1>2, <1>4, <1>7 DEF Holds
<1>9. policy.limit > 0 => Len(s) <= policy.limit
  BY <1>1 DEF InOrder
<1>10. ASSUME ~backdated, NEW i \in 2..Len(s)
       PROVE  refreshed[buffer.value[s[i - 1]]] <= refreshed[buffer.value[s[i]]]
  <2>1. i - 1 \in 1..Len(s) /\ i \in 1..Len(s) /\ i > i - 1
    BY <1>4
  <2>2. Place(s, s[i - 1]) = i - 1 /\ Place(s, s[i]) = i
    BY <1>4, <2>1, PlaceIs
  <2>3. s[i - 1] \in ToSet(s) /\ s[i] \in ToSet(s)
    BY <1>4, <2>1
  <2>4. s[i] \in Behind(s, s[i - 1])
    BY <1>4, <2>1, <2>2, <2>3, BehindIs
  <2> QED BY <1>1, <1>10, <2>3, <2>4 DEF InOrder, InTime
<1> QED BY <1>3, <1>5, <1>6, <1>8, <1>9, <1>10 DEF BufferAgrees, back

\* Until clear() of a buffer that is not empty, the list read either way, the map and
\* the count agree, there are no more entries than the limit, and they are in the
\* order they were refreshed.
THEOREM ExpireHolds == ExpireSpec => []BufferAgrees
  BY ExpireStart, ExpireStep, ExpireImplied, PTL DEF ExpireSpec

\* In a state of the invariant, pop_old removes those that are too old and no others:
\* the order of the list is the order of the times.
LEMMA PopOldExact ==
    ASSUME ExpireInv, ~broken, ~backdated, PopOld
    PROVE  Known' = {k \in Known : time - refreshed[k] <= LivingTime}
<1>1. PICK s : InOrder(s)
  BY DEF ExpireInv
<1>2. PICK n \in 0..Len(s) : \E p : /\ \A j \in 1..n : TooOld(s[j])
                                    /\ n < Len(s) => ~TooOld(s[n + 1])
                                    /\ Erase(p, KeysBefore(buffer.value, s, n))
  BY <1>1, PopOldTakes
<1>3. /\ s \in Seq(Entries) /\ IsInjective(s) /\ Len(s) \in Nat
      /\ Null \notin ToSet(s)
      /\ \A i \in 1..Len(s) : s[i] \in ToSet(s)
      /\ \A e, f \in ToSet(s) : buffer.value[e] = buffer.value[f] => e = f
  BY <1>1, HeldEntries DEF InOrder
<1>4. refreshed \in Times /\ time \in Nat /\ LivingTime \in Nat
  BY ExpireAssumption DEF ExpireInv
<1>5. /\ \A k \in Known : m_map[k] \in ToSet(s) /\ buffer.value[m_map[k]] = k
      /\ \A f \in ToSet(s) : buffer.value[f] \in BufferKeys
  BY <1>1 DEF InOrder, Holds, Known
<1>6. InTime(buffer.value, s, refreshed, time)
  BY <1>1 DEF InOrder
<1>7. \A k \in BufferKeys : k \in Known' <=> k \in Known /\ k \notin KeysBefore(buffer.value, s, n)
  BY <1>2 DEF Erase, Known
<1>8. ASSUME NEW k \in Known
      PROVE  k \in KeysBefore(buffer.value, s, n) <=> ~(time - refreshed[k] <= LivingTime)
  <2> DEFINE j == Place(s, m_map[k])
  <2>1. j \in 1..Len(s) /\ s[j] = m_map[k] /\ buffer.value[s[j]] = k /\ k \in BufferKeys
    BY <1>3, <1>5, PlaceIs DEF Known
  <2> HIDE DEF j
  <2>2. TooOld(s[j]) <=> ~(time - refreshed[k] <= LivingTime)
    <3>1. refreshed[k] \in Nat
      BY <1>4, <2>1 DEF Times
    <3> QED BY <1>4, <2>1, <3>1 DEF TooOld
  <2>3. CASE j <= n
    <3>1. j \in 1..n
      BY <1>3, <2>1, <2>3
    <3>2. k \in KeysBefore(buffer.value, s, n)
      BY <2>1, <3>1 DEF KeysBefore
    <3>3. TooOld(s[j])
      BY <1>2, <3>1
    <3> QED BY <2>2, <3>2, <3>3
  <2>4. CASE n < j
    <3>1. n < Len(s) /\ n + 1 \in 1..Len(s) /\ n + 1 <= j
      BY <1>3, <2>1, <2>4
    <3>2. k \notin KeysBefore(buffer.value, s, n)
      <4> SUFFICES ASSUME NEW i \in 1..n, buffer.value[s[i]] = k PROVE FALSE
        BY DEF KeysBefore
      <4>1. i \in 1..Len(s) /\ i # j
        BY <1>3, <2>1, <2>4
      <4>2. s[i] = s[j]
        BY <1>3, <2>1, <4>1
      <4> QED BY <1>3, <2>1, <4>1, <4>2 DEF IsInjective
    <3>3. refreshed[buffer.value[s[n + 1]]] <= refreshed[k]
      <4>1. CASE n + 1 = j
        <5>1. refreshed[k] \in Nat
          BY <1>4, <2>1 DEF Times
        <5> QED BY <2>1, <4>1, <5>1
      <4>2. CASE n + 1 # j
        <5>1. Place(s, s[n + 1]) = n + 1 /\ Place(s, s[j]) = j
          BY <1>3, <2>1, <3>1, PlaceIs
        <5>2. s[n + 1] \in ToSet(s) /\ s[j] \in ToSet(s) /\ j > n + 1
          BY <1>3, <2>1, <3>1, <4>2
        <5>3. s[j] \in Behind(s, s[n + 1])
          BY <1>3, <5>1, <5>2, BehindIs
        <5> QED BY <1>6, <2>1, <5>2, <5>3 DEF InTime
      <4> QED BY <4>1, <4>2
    <3>4. refreshed[k] \in Nat /\ refreshed[buffer.value[s[n + 1]]] \in Nat
      BY <1>3, <1>4, <1>5, <2>1, <3>1 DEF Times
    <3>5. time - refreshed[buffer.value[s[n + 1]]] <= LivingTime
      <4>1. ~(LivingTime < time - refreshed[buffer.value[s[n + 1]]])
        BY <1>2, <3>1 DEF TooOld
      <4> QED BY <1>4, <3>4, <4>1
    <3>6. time - refreshed[k] <= LivingTime
      BY <1>4, <3>3, <3>4, <3>5
    <3> QED BY <3>2, <3>6
  <2>5. j <= n \/ n < j
    BY <1>3, <2>1
  <2> QED BY <2>3, <2>4, <2>5
<1>9. Known \subseteq BufferKeys /\ Known' \subseteq BufferKeys
  BY DEF Known
<1> QED BY <1>7, <1>8, <1>9

\* pop_old looks at the front only, and removes exactly what has not been refreshed for
\* the living time.
THEOREM ExpireExact == ExpireSpec => PopOldIsExact
<1>1. ExpireInv /\ [ExpireNext]_expireVars =>
          [~backdated /\ PopOld => Known' = {k \in Known : time - refreshed[k] <= LivingTime}]_expireVars
  BY PopOldExact DEF ExpireNext
<1> QED BY <1>1, ExpireStart, ExpireStep, PTL DEF ExpireSpec, PopOldIsExact

-----------------------------------------------------------------------------
(* The list.                                                               *)

\* An entry put behind the first c.
With(s, c, e) == [i \in 1..Len(s) + 1 |-> IF i <= c THEN s[i] ELSE IF i = c + 1 THEN e ELSE s[i - 1]]

\* What is around a sequence into which an entry has been put.
LEMMA AroundWith ==
    ASSUME NEW s \in Seq(Entries), IsInjective(s), NEW c \in 0..Len(s), NEW e \in Entries \ ToSet(s)
    PROVE  LET w == With(s, c, e) IN
           /\ w \in Seq(Entries) /\ IsInjective(w) /\ ToSet(w) = ToSet(s) \cup {e}
           /\ Len(w) = Len(s) + 1
           /\ \A i \in 0..Len(s) + 2 :
                 Around(w, i) = IF i <= c THEN Around(s, i) ELSE IF i = c + 1 THEN e ELSE Around(s, i - 1)
<1> DEFINE w == With(s, c, e)
<1>0. Len(s) \in Nat /\ c \in Nat /\ c <= Len(s) /\ DOMAIN s = 1..Len(s)
  OBVIOUS
<1>1. \A i \in 1..Len(s) : s[i] \in Entries /\ s[i] \in ToSet(s) /\ s[i] # e
  BY <1>0 DEF ToSet
<1>2. /\ \A i \in 1..Len(s) + 1 : i <= c => i \in 1..Len(s)
      /\ \A i \in 1..Len(s) + 1 : ~(i <= c) /\ i # c + 1 => i - 1 \in 1..Len(s)
  BY <1>0
<1>3. /\ DOMAIN w = 1..Len(s) + 1
      /\ \A i \in 1..Len(s) + 1 : w[i] = IF i <= c THEN s[i] ELSE IF i = c + 1 THEN e ELSE s[i - 1]
  BY DEF With
<1> HIDE DEF w
<1>4. \A i \in 1..Len(s) + 1 : w[i] \in Entries
  BY <1>1, <1>2, <1>3
<1>5. w \in Seq(Entries) /\ Len(w) = Len(s) + 1
  <2>1. w = [i \in 1..Len(s) + 1 |-> w[i]]
    BY DEF w, With
  <2>2. w \in [1..Len(s) + 1 -> Entries]
    BY <1>4, <2>1
  <2>3. Len(s) + 1 \in Nat
    BY <1>0
  <2> QED BY <2>2, <2>3
<1>6. IsInjective(w)
  <2>1. \A i, j \in 1..Len(s) : s[i] = s[j] => i = j
    BY <1>0 DEF IsInjective
  <2> SUFFICES ASSUME NEW i \in 1..Len(s) + 1, NEW j \in 1..Len(s) + 1, w[i] = w[j] PROVE i = j
    BY <1>3 DEF IsInjective
  <2>2. CASE i = c + 1
    BY <1>0, <1>1, <1>2, <1>3, <2>2
  <2>3. CASE j = c + 1
    BY <1>0, <1>1, <1>2, <1>3, <2>3
  <2>4. CASE i # c + 1 /\ j # c + 1
    <3>1. CASE i <= c /\ j <= c
      BY <1>2, <1>3, <2>1, <3>1
    <3>2. CASE ~(i <= c) /\ ~(j <= c)
      <4>1. i - 1 = j - 1
        BY <1>2, <1>3, <2>1, <2>4, <3>2
      <4> QED BY <1>0, <4>1
    <3>3. CASE i <= c /\ ~(j <= c)
      <4>1. i = j - 1
        BY <1>2, <1>3, <2>1, <2>4, <3>3
      <4> QED BY <1>0, <2>4, <3>3, <4>1
    <3>4. CASE ~(i <= c) /\ j <= c
      <4>1. i - 1 = j
        BY <1>2, <1>3, <2>1, <2>4, <3>4
      <4> QED BY <1>0, <2>4, <3>4, <4>1
    <3> QED BY <3>1, <3>2, <3>3, <3>4
  <2> QED BY <2>2, <2>3, <2>4
<1>7. ToSet(w) = ToSet(s) \cup {e}
  <2>1. \A i \in 1..Len(s) : /\ i <= c => i \in 1..Len(s) + 1 /\ w[i] = s[i]
                             /\ ~(i <= c) => i + 1 \in 1..Len(s) + 1 /\ w[i + 1] = s[i]
    <3> TAKE i \in 1..Len(s)
    <3>1. i \in 1..Len(s) + 1 /\ i + 1 \in 1..Len(s) + 1 /\ i + 1 - 1 = i
      BY <1>0
    <3>2. ~(i <= c) => ~(i + 1 <= c) /\ i + 1 # c + 1
      BY <1>0
    <3> QED BY <1>3, <3>1, <3>2
  <2>2. c + 1 \in 1..Len(s) + 1 /\ w[c + 1] = e
    BY <1>0, <1>3
  <2>3. \A x : x \in ToSet(w) <=> \E i \in 1..Len(s) + 1 : x = w[i]
    BY <1>3 DEF ToSet
  <2>4. \A x : x \in ToSet(s) <=> \E i \in 1..Len(s) : x = s[i]
    BY <1>0 DEF ToSet
  <2>5. \A x : x \in ToSet(w) => x \in ToSet(s) \cup {e}
    BY <1>1, <1>2, <1>3, <2>3
  <2>6. \A x : x \in ToSet(s) \cup {e} => x \in ToSet(w)
    BY <2>1, <2>2, <2>3, <2>4
  <2> QED BY <2>5, <2>6
<1>8. ASSUME NEW i \in 0..Len(s) + 2
      PROVE  Around(w, i) = IF i <= c THEN Around(s, i) ELSE IF i = c + 1 THEN e ELSE Around(s, i - 1)
  <2>1. CASE i \in 1..Len(s) + 1
    <3>1. Around(w, i) = w[i]
      BY <1>5, <2>1 DEF Around
    <3>2. i <= c => Around(s, i) = s[i]
      BY <1>2, <2>1 DEF Around
    <3>3. ~(i <= c) /\ i # c + 1 => Around(s, i - 1) = s[i - 1]
      BY <1>2, <2>1 DEF Around
    <3> QED BY <1>3, <2>1, <3>1, <3>2, <3>3
  <2>2. CASE i = 0
    <3>1. i <= c /\ i \notin 1..Len(w) /\ i \notin 1..Len(s)
      BY <1>0, <1>5, <2>2
    <3> QED BY <3>1 DEF Around
  <2>3. CASE i = Len(s) + 2
    <3>1. ~(i <= c) /\ i # c + 1 /\ i \notin 1..Len(w) /\ i - 1 \notin 1..Len(s)
      BY <1>0, <1>5, <2>3
    <3> QED BY <3>1 DEF Around
  <2>4. i \in 1..Len(s) + 1 \/ i = 0 \/ i = Len(s) + 2
    BY <1>0
  <2> QED BY <2>1, <2>2, <2>3, <2>4
<1> QED BY <1>5, <1>6, <1>7, <1>8 DEF w

\* An entry is linked in.
LEMMA JoinedWith ==
    ASSUME NEW s \in Seq(Entries), IsInjective(s), NEW c \in 0..Len(s), NEW e \in Entries \ ToSet(s),
           NEW nx, NEW pv, Joined(nx, pv, s), NEW ny, NEW py,
           ny[Around(s, c)] = e, ny[e] = Around(s, c + 1),
           py[Around(s, c + 1)] = e, py[e] = Around(s, c),
           SameLinks(nx, ny, {e, Around(s, c)}), SameLinks(pv, py, {e, Around(s, c + 1)})
    PROVE  Joined(ny, py, With(s, c, e))
<1> DEFINE w == With(s, c, e)
<1>0. Len(s) \in Nat /\ c \in Nat /\ c <= Len(s)
  OBVIOUS
<1>1. /\ Len(w) = Len(s) + 1
      /\ \A i \in 0..Len(s) + 2 :
            Around(w, i) = IF i <= c THEN Around(s, i) ELSE IF i = c + 1 THEN e ELSE Around(s, i - 1)
  BY AroundWith
<1> HIDE DEF w
<1>2. /\ \A i \in 0..Len(s) + 1 : Around(s, i) \in Entries \cup {Tag} /\ Around(s, i) # e
      /\ \A i, j \in 0..Len(s) : Around(s, i) = Around(s, j) => i = j
      /\ \A i, j \in 1..Len(s) + 1 : Around(s, i) = Around(s, j) => i = j
  <2>1. /\ \A i \in 0..Len(s) + 1 : Around(s, i) \in Entries \cup {Tag}
        /\ \A i, j \in 0..Len(s) : Around(s, i) = Around(s, j) => i = j
        /\ \A i, j \in 1..Len(s) + 1 : Around(s, i) = Around(s, j) => i = j
    BY AroundIs
  <2>2. ASSUME NEW i \in 0..Len(s) + 1 PROVE Around(s, i) # e
    <3>1. i \in 1..Len(s) => Around(s, i) \in ToSet(s)
      BY DEF Around, ToSet
    <3>2. i \notin 1..Len(s) => Around(s, i) = Tag
      BY DEF Around
    <3> QED BY <3>1, <3>2, EntriesAssumption
  <2> QED BY <2>1, <2>2
<1>3. ASSUME NEW i \in 0..Len(s), i # c
      PROVE  ny[Around(s, i)] = Around(s, i + 1) /\ py[Around(s, i + 1)] = Around(s, i)
  <2>1. i \in 0..Len(s) + 1 /\ i + 1 \in 0..Len(s) + 1 /\ i + 1 \in 1..Len(s) + 1 /\ c + 1 \in 1..Len(s) + 1 /\ i + 1 # c + 1
    BY <1>0, <1>3
  <2>2. Around(s, i) \notin {e, Around(s, c)} /\ Around(s, i + 1) \notin {e, Around(s, c + 1)}
    BY <1>2, <1>3, <2>1
  <2>3. ny[Around(s, i)] = nx[Around(s, i)] /\ py[Around(s, i + 1)] = pv[Around(s, i + 1)]
    BY <1>2, <2>1, <2>2 DEF SameLinks
  <2> QED BY <2>3 DEF Joined
<1>4. ASSUME NEW i \in 0..Len(w)
      PROVE  ny[Around(w, i)] = Around(w, i + 1) /\ py[Around(w, i + 1)] = Around(w, i)
  <2>0. i \in 0..Len(s) + 2 /\ i + 1 \in 0..Len(s) + 2
    BY <1>0, <1>1
  <2>1. CASE i < c
    <3>1. i \in 0..Len(s) /\ i # c /\ i <= c /\ i + 1 <= c
      BY <1>0, <1>1, <2>1
    <3>2. Around(w, i) = Around(s, i) /\ Around(w, i + 1) = Around(s, i + 1)
      BY <1>1, <2>0, <3>1
    <3> QED BY <1>3, <3>1, <3>2
  <2>2. CASE i = c
    <3>1. i <= c /\ ~(i + 1 <= c) /\ i + 1 = c + 1
      BY <1>0, <2>2
    <3>2. Around(w, i) = Around(s, c) /\ Around(w, i + 1) = e
      BY <1>1, <2>0, <2>2, <3>1
    <3> QED BY <3>2
  <2>3. CASE i = c + 1
    <3>1. ~(i <= c) /\ ~(i + 1 <= c) /\ i + 1 # c + 1 /\ i + 1 - 1 = c + 1
      BY <1>0, <2>3
    <3>2. Around(w, i) = e /\ Around(w, i + 1) = Around(s, c + 1)
      BY <1>1, <2>0, <2>3, <3>1
    <3> QED BY <3>2
  <2>4. CASE i > c + 1
    <3>1. ~(i <= c) /\ ~(i + 1 <= c) /\ i # c + 1 /\ i + 1 # c + 1 /\ i + 1 - 1 = i /\ i - 1 + 1 = i
          /\ i - 1 \in 0..Len(s) /\ i - 1 # c
      BY <1>0, <1>1, <2>4
    <3>2. Around(w, i) = Around(s, i - 1) /\ Around(w, i + 1) = Around(s, i - 1 + 1)
      BY <1>1, <2>0, <3>1
    <3> QED BY <1>3, <3>1, <3>2
  <2>5. i < c \/ i = c \/ i = c + 1 \/ i > c + 1
    BY <1>0, <1>1
  <2> QED BY <2>1, <2>2, <2>3, <2>4, <2>5
<1>5. Joined(ny, py, w)
  BY <1>4 DEF Joined
<1> QED BY <1>5 DEF w

\* A list into which an entry has been linked, with the head or the tail where it is
\* the first or the last.
LEMMA LinkedInRing ==
    ASSUME NEW b, NEW s, Ring(b, s), NEW c \in 0..Len(s), NEW e \in Entries \ ToSet(s), NEW v, NEW u,
           DOMAIN u = RingFields, u = [f \in RingFields |-> u[f]],
           u.prev = Relinked(b.prev, e, Around(s, c), Around(s, c + 1), e),
           u.next = Relinked(b.next, e, Around(s, c + 1), Around(s, c), e),
           u.value = [b.value EXCEPT ![e] = v],
           u.used = b.used \cup {e}, u.m_count = b.m_count + 1,
           u.m_pHead = IF c = 0 THEN e ELSE b.m_pHead,
           u.m_pTail = IF c = Len(s) THEN e ELSE b.m_pTail
    PROVE  Ring(u, With(s, c, e))
<1> DEFINE w == With(s, c, e)
           p == Around(s, c)
           n == Around(s, c + 1)
<1>1. /\ s \in Seq(Entries) /\ IsInjective(s)
      /\ b.prev \in Links /\ b.next \in Links
      /\ DOMAIN b.value = Entries
      /\ b.used = ToSet(s) /\ b.m_count = Len(s)
      /\ b.m_pHead = Around(s, 1) /\ b.m_pTail = Around(s, Len(s))
      /\ Joined(b.next, b.prev, s)
  BY DEF Ring
<1>0. Len(s) \in Nat /\ c \in Nat /\ c <= Len(s) /\ c \in 0..Len(s) + 1 /\ c + 1 \in 0..Len(s) + 1
  BY <1>1
<1>2. p \in Entries \cup {Tag} /\ n \in Entries \cup {Tag} /\ p # e /\ n # e /\ e \in Entries
  <2>1. p \in Entries \cup {Tag} /\ n \in Entries \cup {Tag}
    BY <1>0, <1>1, AroundIs
  <2>2. ASSUME NEW i PROVE Around(s, i) # e
    <3>1. i \in 1..Len(s) => Around(s, i) \in ToSet(s)
      BY <1>1 DEF Around, ToSet
    <3>2. i \notin 1..Len(s) => Around(s, i) = Tag
      BY DEF Around
    <3> QED BY <3>1, <3>2, EntriesAssumption
  <2> QED BY <2>1, <2>2
<1>3. /\ w \in Seq(Entries) /\ IsInjective(w) /\ ToSet(w) = ToSet(s) \cup {e} /\ Len(w) = Len(s) + 1
      /\ \A i \in 0..Len(s) + 2 :
            Around(w, i) = IF i <= c THEN Around(s, i) ELSE IF i = c + 1 THEN e ELSE Around(s, i - 1)
  BY <1>1, AroundWith
<1> HIDE DEF w
<1>4. /\ u.prev \in Links /\ u.prev[e] = p /\ u.prev[n] = e /\ SameLinks(b.prev, u.prev, {e, n})
  <2>1. p \in Targets /\ e \in Entries \cup {Tag} /\ b.prev \in Links /\ u.prev = Relinked(b.prev, e, p, n, e)
    BY <1>1, <1>2 DEF Targets
  <2> HIDE DEF p, n
  <2>2. /\ Relinked(b.prev, e, p, n, e) \in Links
        /\ Relinked(b.prev, e, p, n, e)[e] = p /\ Relinked(b.prev, e, p, n, e)[n] = e
        /\ SameLinks(b.prev, Relinked(b.prev, e, p, n, e), {e, n})
    BY <1>2, <2>1, RelinkedIs
  <2> QED BY <2>1, <2>2
<1>5. /\ u.next \in Links /\ u.next[e] = n /\ u.next[p] = e /\ SameLinks(b.next, u.next, {e, p})
  <2>1. n \in Targets /\ e \in Entries \cup {Tag} /\ b.next \in Links /\ u.next = Relinked(b.next, e, n, p, e)
    BY <1>1, <1>2 DEF Targets
  <2> HIDE DEF p, n
  <2>2. /\ Relinked(b.next, e, n, p, e) \in Links
        /\ Relinked(b.next, e, n, p, e)[e] = n /\ Relinked(b.next, e, n, p, e)[p] = e
        /\ SameLinks(b.next, Relinked(b.next, e, n, p, e), {e, p})
    BY <1>2, <2>1, RelinkedIs
  <2> QED BY <2>1, <2>2
<1>6. Joined(u.next, u.prev, w)
  BY <1>1, <1>4, <1>5, JoinedWith DEF w
<1>7. DOMAIN u.value = Entries /\ u.value = [x \in Entries |-> u.value[x]]
  BY <1>1
<1>8. u.m_pHead = Around(w, 1)
  <2>1. 1 \in 0..Len(s) + 2 /\ (c = 0 => 1 = c + 1 /\ ~(1 <= c)) /\ (c # 0 => 1 <= c)
    BY <1>0
  <2> QED BY <1>1, <1>3, <2>1
<1>9. u.m_pTail = Around(w, Len(w))
  <2>1. /\ Len(w) \in 0..Len(s) + 2 /\ ~(Len(w) <= c) /\ Len(w) - 1 = Len(s)
        /\ (c = Len(s) <=> Len(w) = c + 1)
    BY <1>0, <1>3
  <2> QED BY <1>1, <1>3, <2>1
<1>10. u.used = ToSet(w) /\ u.m_count = Len(w)
  BY <1>1, <1>3
<1>11. Ring(u, w)
  BY <1>3, <1>4, <1>5, <1>6, <1>7, <1>8, <1>9, <1>10 DEF Ring
<1> QED BY <1>11 DEF w

\* A new entry for v has been put behind the first c.
PutIn(b, s, u, c, v) == LET e == u.m_pCurrent IN
                        /\ e \in Entries \ ToSet(s)
                        /\ Ring(u, With(s, c, e))
                        /\ u.value = [b.value EXCEPT ![e] = v]

\* The entry e is taken, for a value between two others.
Made(b, e, v, p, n) == [b EXCEPT !.prev[e] = p, !.next[e] = n, !.value[e] = v,
                                 !.used = @ \cup {e}, !.m_pCurrent = e, !.m_count = @ + 1]

\* new takes an entry that is not in use, and changes no other.
LEMMA NewEntryIs ==
    ASSUME NEW b, NEW s, Ring(b, s), b.used # Entries, NEW v, NEW p, NEW n
    PROVE  \E e \in Entries \ ToSet(s) : /\ NewEntry(b, v, p, n) = Made(b, e, v, p, n)
                                         /\ Made(b, e, v, p, n).m_pCurrent = e
<1> DEFINE e == CHOOSE x \in Entries \ b.used : TRUE
<1>1. s \in Seq(Entries) /\ DOMAIN b = RingFields /\ b.used = ToSet(s)
  BY DEF Ring
<1>2. e \in Entries \ ToSet(s)
  <2>1. ToSet(s) \subseteq Entries
    BY <1>1 DEF ToSet
  <2> QED BY <1>1, <2>1
<1> HIDE DEF e
<1>3. NewEntry(b, v, p, n) = Made(b, e, v, p, n)
  BY DEF NewEntry, Made, e
<1>4. Made(b, e, v, p, n).m_pCurrent = e
  BY <1>1 DEF RingFields, Made
<1> QED BY <1>2, <1>3, <1>4

\* push_front.
LEMMA PushFrontPuts ==
    ASSUME NEW b, NEW s, Ring(b, s), b.used # Entries, NEW v
    PROVE  PutIn(b, s, PushFront(b, v), 0, v)
<1> DEFINE k == NewEntry(b, v, Tag, b.m_pHead)
           h == b.m_pHead
           u == PushFront(b, v)
<1>1. /\ s \in Seq(Entries) /\ DOMAIN b = RingFields /\ b = [f \in RingFields |-> b[f]]
      /\ b.m_count = Len(s) /\ h = Around(s, 1) /\ b.m_pTail = Around(s, Len(s))
  BY DEF Ring
<1>0. Len(s) \in Nat /\ 0 \in 0..Len(s) /\ 0 + 1 = 1 /\ (Len(s) = 0 <=> 0 = Len(s))
  BY <1>1
<1>2. PICK e \in Entries \ ToSet(s) : k = Made(b, e, v, Tag, h) /\ k.m_pCurrent = e
  BY NewEntryIs
<1>3. Around(s, 0) = Tag /\ (Len(s) = 0 => h = Tag)
  BY <1>0, <1>1 DEF Around
<1>4. u = IF b.m_count = 0
          THEN [[k EXCEPT !.m_pHead = e, !.next[Tag] = e] EXCEPT !.m_pTail = e, !.prev[Tag] = e]
          ELSE [[k EXCEPT !.m_pHead = e, !.next[Tag] = e] EXCEPT !.prev[h] = e]
  <2> HIDE DEF k
  <2> QED BY <1>2 DEF PushFront, k
<1> HIDE DEF k, h, u
<1>5. /\ DOMAIN u = RingFields /\ u = [f \in RingFields |-> u[f]]
      /\ u.prev = Relinked(b.prev, e, Tag, h, e) /\ u.next = Relinked(b.next, e, h, Tag, e)
      /\ u.value = [b.value EXCEPT ![e] = v]
      /\ u.used = b.used \cup {e} /\ u.m_count = b.m_count + 1 /\ u.m_pCurrent = e
      /\ u.m_pHead = e /\ u.m_pTail = (IF Len(s) = 0 THEN e ELSE b.m_pTail)
  <2>1. CASE b.m_count = 0
    BY <1>1, <1>2, <1>3, <1>4, <2>1 DEF RingFields, Relinked, Made
  <2>2. CASE b.m_count # 0
    BY <1>1, <1>2, <1>4, <2>2 DEF RingFields, Relinked, Made
  <2> QED BY <2>1, <2>2
<1>6. Ring(u, With(s, 0, e))
  <2>1. /\ u.prev = Relinked(b.prev, e, Around(s, 0), Around(s, 0 + 1), e)
        /\ u.next = Relinked(b.next, e, Around(s, 0 + 1), Around(s, 0), e)
    BY <1>0, <1>1, <1>3, <1>5
  <2>2. /\ u.m_pHead = IF 0 = 0 THEN e ELSE b.m_pHead
        /\ u.m_pTail = IF 0 = Len(s) THEN e ELSE b.m_pTail
    BY <1>0, <1>5
  <2> QED BY <1>0, <1>2, <1>5, <2>1, <2>2, LinkedInRing
<1> QED BY <1>2, <1>5, <1>6 DEF PutIn, u

\* Appending is putting it behind all.
LEMMA WithBehindAll ==
    ASSUME NEW s \in Seq(Entries), NEW e \in Entries
    PROVE  With(s, Len(s), e) = Append(s, e)
<1>1. Len(s) \in Nat
  OBVIOUS
<1>2. /\ Append(s, e) \in Seq(Entries) /\ Len(Append(s, e)) = Len(s) + 1
      /\ Append(s, e)[Len(s) + 1] = e /\ \A i \in 1..Len(s) : Append(s, e)[i] = s[i]
  OBVIOUS
<1> DEFINE w == With(s, Len(s), e)
<1>3. /\ DOMAIN w = 1..Len(s) + 1
      /\ \A i \in 1..Len(s) + 1 : w[i] = IF i <= Len(s) THEN s[i] ELSE IF i = Len(s) + 1 THEN e ELSE s[i - 1]
  BY DEF With
<1>4. \A i \in 1..Len(s) + 1 : (i \in 1..Len(s) /\ i <= Len(s)) \/ (i = Len(s) + 1 /\ ~(i <= Len(s)))
  BY <1>1
<1> HIDE DEF w
<1>5. \A i \in 1..Len(s) + 1 : w[i] = Append(s, e)[i]
  BY <1>2, <1>3, <1>4
<1>6. w \in Seq(Entries) /\ Len(w) = Len(s) + 1
  <2>1. w = [i \in 1..Len(s) + 1 |-> w[i]]
    BY DEF w, With
  <2>2. \A i \in 1..Len(s) + 1 : w[i] \in Entries
    BY <1>2, <1>5
  <2>3. w \in [1..Len(s) + 1 -> Entries] /\ Len(s) + 1 \in Nat
    BY <1>1, <2>1, <2>2
  <2> QED BY <2>3
<1> QED BY <1>2, <1>5, <1>6, SeqEqual DEF w

\* push_back.
LEMMA PushBackPuts ==
    ASSUME NEW b, NEW s, Ring(b, s), b.used # Entries, NEW v
    PROVE  PutIn(b, s, PushBack(b, v), Len(s), v)
<1> DEFINE u == PushBack(b, v)
           e == u.m_pCurrent
<1>1. e \in Entries \ ToSet(s) /\ Ring(u, Append(s, e)) /\ u.value = [b.value EXCEPT ![e] = v]
  BY PushBackRing
<1>2. s \in Seq(Entries)
  BY DEF Ring
<1>3. With(s, Len(s), e) = Append(s, e)
  BY <1>1, <1>2, WithBehindAll
<1> HIDE DEF u
<1>4. Ring(u, With(s, Len(s), e))
  BY <1>1, <1>3
<1> QED BY <1>1, <1>4 DEF PutIn, u

\* Between two entries.
LEMMA LinkPuts ==
    ASSUME NEW b, NEW s, Ring(b, s), b.used # Entries, NEW v, NEW c \in 1..Len(s) - 1
    PROVE  PutIn(b, s, Link(b, v, s[c], s[c + 1]), c, v)
<1> DEFINE p == s[c]
           n == s[c + 1]
           k == NewEntry(b, v, p, n)
           u == Link(b, v, p, n)
<1>1. /\ s \in Seq(Entries) /\ IsInjective(s) /\ DOMAIN b = RingFields /\ b = [f \in RingFields |-> b[f]]
  BY DEF Ring
<1>0. Len(s) \in Nat /\ c \in 0..Len(s) /\ c # 0 /\ c # Len(s) /\ c \in 1..Len(s) /\ c + 1 \in 1..Len(s)
  BY <1>1
<1>2. PICK e \in Entries \ ToSet(s) : k = Made(b, e, v, p, n) /\ k.m_pCurrent = e
  BY NewEntryIs
<1>3. Around(s, c) = p /\ Around(s, c + 1) = n
  BY <1>0 DEF Around
<1>4. u = [k EXCEPT !.next[p] = e, !.prev[n] = e]
  <2> HIDE DEF k
  <2> QED BY <1>2 DEF Link, k
<1> HIDE DEF k, u, p, n
<1>5. /\ DOMAIN u = RingFields /\ u = [f \in RingFields |-> u[f]]
      /\ u.prev = Relinked(b.prev, e, p, n, e) /\ u.next = Relinked(b.next, e, n, p, e)
      /\ u.value = [b.value EXCEPT ![e] = v]
      /\ u.used = b.used \cup {e} /\ u.m_count = b.m_count + 1 /\ u.m_pCurrent = e
      /\ u.m_pHead = b.m_pHead /\ u.m_pTail = b.m_pTail
  BY <1>1, <1>2, <1>4 DEF RingFields, Relinked, Made
<1>6. Ring(u, With(s, c, e))
  <2>1. /\ u.prev = Relinked(b.prev, e, Around(s, c), Around(s, c + 1), e)
        /\ u.next = Relinked(b.next, e, Around(s, c + 1), Around(s, c), e)
    BY <1>3, <1>5
  <2>2. /\ u.m_pHead = IF c = 0 THEN e ELSE b.m_pHead
        /\ u.m_pTail = IF c = Len(s) THEN e ELSE b.m_pTail
    BY <1>0, <1>5
  <2> QED BY <1>0, <1>2, <1>5, <2>1, <2>2, LinkedInRing
<1> QED BY <1>2, <1>5, <1>6 DEF PutIn, u, p, n

\* The entry at place c has been taken out, and the cursor moved to the one behind
\* it or, from the last, to the one in front.
TakenAt(b, s, u, c) == LET w == WithoutKey(s, s[c]) IN
                       /\ Ring(u, w)
                       /\ u.value = [b.value EXCEPT ![s[c]] = Null]
                       /\ u.m_pCurrent = Around(w, IF c < Len(s) THEN c ELSE c - 1)

\* The neighbours of an entry, where one is the tag, and where the cursor goes.
LEMMA Neighbours ==
    ASSUME NEW b, NEW s, Ring(b, s), NEW c \in 1..Len(s)
    PROVE  /\ s[c] \in Entries /\ s[c] \in ToSet(s) /\ s[c] # Tag
           /\ b.next[s[c]] = Around(s, c + 1) /\ b.prev[s[c]] = Around(s, c - 1)
           /\ Around(s, c + 1) = Tag <=> c = Len(s)
           /\ Around(s, c - 1) = Tag <=> c = 1
           /\ Around(WithoutKey(s, s[c]), IF c < Len(s) THEN c ELSE c - 1) =
                 (IF c < Len(s) THEN Around(s, c + 1) ELSE Around(s, c - 1))
<1>1. s \in Seq(Entries) /\ IsInjective(s) /\ Joined(b.next, b.prev, s)
  BY DEF Ring
<1>0. /\ Len(s) \in Nat /\ DOMAIN s = 1..Len(s)
      /\ c \in 0..Len(s) /\ c - 1 \in 0..Len(s) /\ c - 1 + 1 = c
      /\ c + 1 \in 1..Len(s) + 1 /\ Len(s) + 1 \in 1..Len(s) + 1 /\ 0 \in 0..Len(s)
      /\ (c + 1 = Len(s) + 1 <=> c = Len(s)) /\ (c - 1 = 0 <=> c = 1)
      /\ ~(c < c) /\ c - 1 < c /\ (c < Len(s) \/ c = Len(s))
  BY <1>1
<1>2. Around(s, c) = s[c] /\ s[c] \in Entries /\ s[c] # Tag
  BY <1>1, AroundIs
<1>3. s[c] \in ToSet(s)
  BY <1>0 DEF ToSet
<1>4. b.next[s[c]] = Around(s, c + 1) /\ b.prev[s[c]] = Around(s, c - 1)
  BY <1>0, <1>1, <1>2 DEF Joined
<1>5. /\ Around(s, c + 1) = Tag <=> c = Len(s)
      /\ Around(s, c - 1) = Tag <=> c = 1
  <2>1. Around(s, 0) = Tag /\ Around(s, Len(s) + 1) = Tag
    BY <1>1, AroundIs
  <2>2. /\ Around(s, c + 1) = Around(s, Len(s) + 1) => c + 1 = Len(s) + 1
        /\ Around(s, c - 1) = Around(s, 0) => c - 1 = 0
    BY <1>0, <1>1, AroundIs
  <2> QED BY <1>0, <2>1, <2>2
<1>6. \A i \in 0..Len(s) : Around(WithoutKey(s, s[c]), i) = IF i < c THEN Around(s, i) ELSE Around(s, i + 1)
  BY <1>1, AroundWithout
<1> QED BY <1>0, <1>2, <1>3, <1>4, <1>5, <1>6

\* Taking the first and the last.
LEMMA PopEnds ==
    ASSUME NEW b, NEW s, Ring(b, s), s # <<>>
    PROVE  TakenAt(b, s, PopFront(b), 1) /\ TakenAt(b, s, PopBack(b), Len(s))
<1>1. /\ s \in Seq(Entries) /\ DOMAIN b = RingFields /\ b = [f \in RingFields |-> b[f]]
      /\ b.m_count = Len(s)
  BY DEF Ring
<1>2. Len(s) \in Nat /\ Len(s) # 0 /\ 1 \in 1..Len(s) /\ Len(s) \in 1..Len(s)
      /\ ~(Len(s) < Len(s)) /\ (1 < Len(s) \/ 1 = Len(s))
  <2>1. Len(s) \in Nat /\ Len(s) # 0
    BY <1>1, EmptySeq
  <2>2. \A n \in Nat : n # 0 => 1 \in 1..n /\ n \in 1..n /\ ~(n < n) /\ (1 < n \/ 1 = n)
    OBVIOUS
  <2> QED BY <2>1, <2>2
<1>3. /\ b.m_pHead = s[1] /\ s[1] \in ToSet(s) /\ b.m_pTail = s[Len(s)] /\ s[Len(s)] \in ToSet(s)
      /\ PopFront(b) = UnlinkKey(b, s[1]) /\ PopBack(b) = UnlinkKey(b, s[Len(s)])
  BY PopIsUnlink
<1>4. /\ Ring(PopFront(b), WithoutKey(s, s[1]))
      /\ PopFront(b).value = [b.value EXCEPT ![s[1]] = Null]
      /\ Ring(PopBack(b), WithoutKey(s, s[Len(s)]))
      /\ PopBack(b).value = [b.value EXCEPT ![s[Len(s)]] = Null]
  <2>1. /\ Ring(UnlinkKey(b, s[1]), WithoutKey(s, s[1]))
        /\ UnlinkKey(b, s[1]).value = [b.value EXCEPT ![s[1]] = Null]
    BY <1>3, UnlinkKeyRing
  <2>2. /\ Ring(UnlinkKey(b, s[Len(s)]), WithoutKey(s, s[Len(s)]))
        /\ UnlinkKey(b, s[Len(s)]).value = [b.value EXCEPT ![s[Len(s)]] = Null]
    BY <1>3, UnlinkKeyRing
  <2> QED BY <1>3, <2>1, <2>2
<1>5. PopFront(b).m_pCurrent = b.next[s[1]] /\ PopBack(b).m_pCurrent = b.prev[s[Len(s)]]
  <2>1. \A e : DOMAIN Delete(b, e) = RingFields
    BY <1>1 DEF Delete, RingFields
  <2>2. \A e, n : [Delete(b, e) EXCEPT !.m_pCurrent = n, !.prev[n] = Tag, !.next[Tag] = n, !.m_pHead = n,
                              !.m_pTail = IF b.m_count = 1 THEN Tag ELSE @].m_pCurrent = n
    BY <2>1 DEF RingFields
  <2>3. \A e, p : [Delete(b, e) EXCEPT !.m_pCurrent = p, !.next[p] = Tag, !.prev[Tag] = p, !.m_pTail = p,
                              !.m_pHead = IF b.m_count = 1 THEN Tag ELSE @].m_pCurrent = p
    BY <2>1 DEF RingFields
  <2> QED BY <1>1, <1>2, <1>3, <2>2, <2>3 DEF PopFront, PopBack
<1>6. /\ PopFront(b).m_pCurrent = Around(WithoutKey(s, s[1]), IF 1 < Len(s) THEN 1 ELSE 1 - 1)
      /\ PopBack(b).m_pCurrent = Around(WithoutKey(s, s[Len(s)]), IF Len(s) < Len(s) THEN Len(s) ELSE Len(s) - 1)
  <2>1. /\ b.next[s[1]] = Around(s, 1 + 1)
        /\ Around(WithoutKey(s, s[1]), IF 1 < Len(s) THEN 1 ELSE 1 - 1) =
                 (IF 1 < Len(s) THEN Around(s, 1 + 1) ELSE Around(s, 1 - 1))
    BY <1>2, Neighbours
  <2>2. /\ b.prev[s[Len(s)]] = Around(s, Len(s) - 1)
        /\ Around(WithoutKey(s, s[Len(s)]), IF Len(s) < Len(s) THEN Len(s) ELSE Len(s) - 1) =
                 (IF Len(s) < Len(s) THEN Around(s, Len(s) + 1) ELSE Around(s, Len(s) - 1))
    BY <1>2, Neighbours
  <2>3. ~(1 < Len(s)) => Around(s, 1 + 1) = Around(s, 1 - 1)
    <3>1. ~(1 < Len(s)) => 1 + 1 \notin 1..Len(s) /\ 1 - 1 \notin 1..Len(s)
      BY <1>2
    <3> QED BY <3>1 DEF Around
  <2> QED BY <1>2, <1>5, <2>1, <2>2, <2>3
<1> QED BY <1>4, <1>6 DEF TakenAt

\* pop_current.
LEMMA PopCurrentTakes ==
    ASSUME NEW b, NEW s, Ring(b, s), NEW c \in 1..Len(s), b.m_pCurrent = s[c]
    PROVE  TakenAt(b, s, PopCurrent(b), c)
<1> DEFINE e == s[c]
           p == b.prev[e]
           n == b.next[e]
<1>1. /\ s \in Seq(Entries) /\ DOMAIN b = RingFields /\ b = [f \in RingFields |-> b[f]]
      /\ b.m_count = Len(s)
  BY DEF Ring
<1>2. Len(s) \in Nat /\ Len(s) # 0 /\ s # <<>> /\ (c < Len(s) <=> c # Len(s))
  BY <1>1
<1>3. /\ e \in Entries /\ e \in ToSet(s) /\ e # Tag
      /\ n = Around(s, c + 1) /\ p = Around(s, c - 1)
      /\ (n = Tag <=> c = Len(s)) /\ (p = Tag <=> c = 1)
      /\ Around(WithoutKey(s, e), IF c < Len(s) THEN c ELSE c - 1) = IF c < Len(s) THEN n ELSE p
  BY Neighbours
<1>4. PopCurrent(b) = IF n = Tag THEN PopBack(b) ELSE IF p = Tag THEN PopFront(b)
                      ELSE [Delete(b, e) EXCEPT !.m_pCurrent = n, !.prev[n] = p, !.next[p] = n]
  BY <1>1, <1>2, <1>3 DEF PopCurrent
<1>5. CASE n = Tag
  BY <1>2, <1>3, <1>4, <1>5, PopEnds
<1>6. CASE n # Tag /\ p = Tag
  BY <1>2, <1>3, <1>4, <1>6, PopEnds
<1>7. CASE n # Tag /\ p # Tag
  <2> DEFINE d == Delete(b, e)
             k == UnlinkKey(b, e)
  <2>1. DOMAIN d = RingFields /\ d = [f \in RingFields |-> d[f]]
    BY <1>1 DEF Delete, RingFields
  <2>2. k = [d EXCEPT !.next[p] = n, !.prev[n] = p, !.m_pTail = @, !.m_pHead = @, !.m_pCurrent = @]
    BY <1>7 DEF UnlinkKey
  <2>3. Ring(k, WithoutKey(s, e)) /\ k.value = [b.value EXCEPT ![e] = Null]
    BY <1>3, UnlinkKeyRing
  <2> HIDE DEF d, k, p, n, e
  <2>4. PopCurrent(b) = [k EXCEPT !.m_pCurrent = n]
    <3>1. PopCurrent(b) = [d EXCEPT !.m_pCurrent = n, !.prev[n] = p, !.next[p] = n]
      BY <1>4, <1>7 DEF d
    <3> QED BY <2>1, <2>2, <3>1 DEF RingFields
  <2>5. Ring(PopCurrent(b), WithoutKey(s, e)) /\ PopCurrent(b).value = k.value
    BY <2>3, <2>4, RingCursor
  <2>6. PopCurrent(b).m_pCurrent = n
    BY <2>1, <2>2, <2>4 DEF RingFields
  <2> QED BY <1>2, <1>3, <1>7, <2>3, <2>5, <2>6 DEF TakenAt, e
<1> QED BY <1>5, <1>6, <1>7

\* What inserting an element does to a sequence.
LEMMA InsertAtIs ==
    ASSUME NEW S, NEW s \in Seq(S), NEW p \in 1..Len(s) + 1, NEW e \in S
    PROVE  /\ InsertAt(s, p, e) \in Seq(S) /\ Len(InsertAt(s, p, e)) = Len(s) + 1
           /\ \A i \in 1..Len(s) + 1 :
                 InsertAt(s, p, e)[i] = IF i < p THEN s[i] ELSE IF i = p THEN e ELSE s[i - 1]
<1> DEFINE c == p - 1
           a == SubSeq(s, 1, c)
           z == SubSeq(s, c + 1, Len(s))
           m == a \o <<e>>
           w == InsertAt(s, p, e)
<1>00. c \in 0..Len(s) /\ p = c + 1 /\ Len(s) \in Nat
  OBVIOUS
<1> HIDE DEF c
<1>0. Len(s) \in Nat /\ c \in Nat /\ c <= Len(s) /\ c \in Int /\ Len(s) \in Int /\ c + 1 \in Int /\ (c + 1) - 1 = c
      /\ \A i \in 1..Len(s) : s[i] \in S
  BY <1>00
<1>1. a \in Seq(S) /\ Len(a) = c /\ \A i \in 1..c : a[i] = s[i]
  <2>1. \A i \in 1..c : s[i] \in S
    BY <1>0
  <2>2. /\ a \in Seq(S) /\ Len(a) = (IF 1 <= c THEN c - 1 + 1 ELSE 0)
        /\ \A i \in 1..c - 1 + 1 : a[i] = s[1 + i - 1]
    BY <1>0, <2>1, SubSeqProperties
  <2>3. (IF 1 <= c THEN c - 1 + 1 ELSE 0) = c /\ c - 1 + 1 = c /\ \A i \in 1..c : 1 + i - 1 = i
    BY <1>0
  <2> HIDE DEF a
  <2> QED BY <2>2, <2>3
<1>2. z \in Seq(S) /\ Len(z) = Len(s) - c /\ \A i \in 1..Len(s) - c : z[i] = s[c + i]
  <2>1. \A i \in c + 1..Len(s) : s[i] \in S
    BY <1>0
  <2>2. /\ z \in Seq(S) /\ Len(z) = (IF c + 1 <= Len(s) THEN Len(s) - (c + 1) + 1 ELSE 0)
        /\ \A i \in 1..Len(s) - (c + 1) + 1 : z[i] = s[c + 1 + i - 1]
    BY <1>0, <2>1, SubSeqProperties
  <2>3. (IF c + 1 <= Len(s) THEN Len(s) - (c + 1) + 1 ELSE 0) = Len(s) - c
    BY <1>0
  <2>4. Len(s) - (c + 1) + 1 = Len(s) - c /\ \A i \in 1..Len(s) - c : c + 1 + i - 1 = c + i
    BY <1>0
  <2> HIDE DEF z
  <2> QED BY <2>2, <2>3, <2>4
<1>3. w = m \o z
  <2>1. w = SubSeq(s, 1, (c + 1) - 1) \o <<e>> \o z
    BY <1>00 DEF InsertAt
  <2> HIDE DEF w, z
  <2> QED BY <1>0, <2>1
<1> HIDE DEF a, z, w
<1>4. <<e>> \in Seq(S) /\ Len(<<e>>) = 1 /\ <<e>>[1] = e
  OBVIOUS
<1>5. m \in Seq(S) /\ Len(m) = c + 1 /\ \A i \in 1..c + 1 : m[i] = IF i <= c THEN s[i] ELSE e
  <2>1. /\ m \in Seq(S) /\ Len(m) = Len(a) + Len(<<e>>)
        /\ \A i \in 1..Len(a) + Len(<<e>>) : m[i] = IF i <= Len(a) THEN a[i] ELSE <<e>>[i - Len(a)]
    BY <1>1, <1>4, ConcatProperties
  <2>2. \A i \in 1..c + 1 : (i <= c => i \in 1..c) /\ (~(i <= c) => i - c = 1)
    BY <1>0
  <2> HIDE DEF m
  <2> QED BY <1>1, <1>4, <2>1, <2>2
<1> HIDE DEF m
<1>6. /\ w \in Seq(S) /\ Len(w) = Len(m) + Len(z)
      /\ \A i \in 1..Len(m) + Len(z) : w[i] = IF i <= Len(m) THEN m[i] ELSE z[i - Len(m)]
  BY <1>2, <1>3, <1>5, ConcatProperties
<1>7. Len(m) + Len(z) = Len(s) + 1
  BY <1>0, <1>2, <1>5
<1>8. ASSUME NEW i \in 1..Len(s) + 1
      PROVE  w[i] = IF i <= c THEN s[i] ELSE IF i = c + 1 THEN e ELSE s[i - 1]
  <2>1. CASE i <= c + 1
    <3>1. i \in 1..c + 1 /\ (~(i <= c) => i = c + 1)
      BY <1>0, <2>1
    <3> QED BY <1>5, <1>6, <1>7, <2>1, <3>1
  <2>2. CASE ~(i <= c + 1)
    <3>1. ~(i <= c) /\ i # c + 1 /\ i - (c + 1) \in 1..Len(s) - c /\ c + (i - (c + 1)) = i - 1
      BY <1>0, <2>2
    <3>2. w[i] = z[i - (c + 1)]
      BY <1>5, <1>6, <1>7, <2>2
    <3>3. z[i - (c + 1)] = s[c + (i - (c + 1))]
      BY <1>2, <3>1
    <3> QED BY <3>1, <3>2, <3>3
  <2> QED BY <2>1, <2>2
<1>9. \A i \in 1..Len(s) + 1 : i <= c <=> i < p
  BY <1>00
<1> QED BY <1>00, <1>6, <1>7, <1>8, <1>9 DEF w

-----------------------------------------------------------------------------
(* What CursorList sees of a list.                                         *)

\* The elements, of entries in that order with those values, and the place of one.
Elements(s, v) == [i \in 1..Len(s) |-> [id |-> s[i], value |-> v[s[i]]]]
PlaceOrNone(s, x) == IF x \in ToSet(s) THEN Place(s, x) ELSE 0

\* The list's entries are s, the cursor and the handle are of them or of none.
Listed(l, s, h) == /\ Ring(l, s)
                   /\ \A e \in ToSet(s) : l.value[e] \in ListValues
                   /\ l.m_pCurrent \in ToSet(s) \cup {Tag}
                   /\ h \in ToSet(s) \cup {Null}

Element == [id : Entries, value : ListValues]

\* The elements, and that none of them is there twice.
LEMMA ElementsAre ==
    ASSUME NEW s \in Seq(Entries), IsInjective(s), NEW v, \A e \in ToSet(s) : v[e] \in ListValues
    PROVE  /\ Elements(s, v) \in Seq(Element) /\ Len(Elements(s, v)) = Len(s)
           /\ DOMAIN Elements(s, v) = 1..Len(s) /\ IsInjective(Elements(s, v))
           /\ \A i \in 1..Len(s) : /\ s[i] \in ToSet(s)
                                   /\ Elements(s, v)[i] \in Element
                                   /\ Elements(s, v)[i] = [id |-> s[i], value |-> v[s[i]]]
                                   /\ Elements(s, v)[i].id = s[i]
                                   /\ Elements(s, v)[i].value = v[s[i]]
<1> DEFINE w == Elements(s, v)
<1>0. Len(s) \in Nat /\ DOMAIN s = 1..Len(s)
  OBVIOUS
<1>1. \A i \in 1..Len(s) : s[i] \in ToSet(s) /\ s[i] \in Entries
  BY <1>0 DEF ToSet
<1>2. DOMAIN w = 1..Len(s) /\ \A i \in 1..Len(s) : w[i] = [id |-> s[i], value |-> v[s[i]]]
  BY DEF Elements
<1>3. \A i \in 1..Len(s) : [id |-> s[i], value |-> v[s[i]]] \in Element
  BY <1>1 DEF Element
<1>4. w \in Seq(Element) /\ Len(w) = Len(s)
  <2>1. w \in [1..Len(s) -> Element]
    BY <1>3 DEF Elements
  <2> HIDE DEF w
  <2> QED BY <1>0, <2>1
<1> HIDE DEF w
<1>5. \A i \in 1..Len(s) : w[i].id = s[i] /\ w[i].value = v[s[i]]
  BY <1>2
<1>6. IsInjective(w)
  BY <1>0, <1>2, <1>5 DEF IsInjective
<1> QED BY <1>1, <1>2, <1>3, <1>4, <1>5, <1>6 DEF w

\* What CursorList sees, by the entries and the cursor.
LEMMA SeenAs ==
    ASSUME NEW l, NEW s, NEW h, Listed(l, s, h)
    PROVE  /\ ItemsOf(l) = Elements(s, l.value)
           /\ CursorOf(l) = PlaceOrNone(s, l.m_pCurrent)
<1>1. /\ Ring(l, s) /\ s \in Seq(Entries) /\ IsInjective(s) /\ l.m_pCurrent \in ToSet(s) \cup {Tag}
      /\ DOMAIN s = 1..Len(s)
  BY DEF Listed, Ring
<1>2. Onward(l, l.m_pHead) = s
  BY <1>1, OnwardIs
<1>3. ItemsOf(l) = Elements(s, l.value)
  BY <1>1, <1>2 DEF ItemsOf, Elements
<1>4. Tag \notin ToSet(s)
  BY <1>1, EntriesAssumption DEF ToSet
<1>5. CASE l.m_pCurrent = Tag
  BY <1>2, <1>3, <1>4, <1>5 DEF CursorOf, PlaceOrNone
<1>6. CASE l.m_pCurrent # Tag
  <2> DEFINE at == {i \in DOMAIN s : s[i] = l.m_pCurrent}
  <2>1. Place(s, l.m_pCurrent) \in 1..Len(s) /\ s[Place(s, l.m_pCurrent)] = l.m_pCurrent
    BY <1>1, <1>6, PlaceIs
  <2>2. \A i \in 1..Len(s) : s[i] = l.m_pCurrent => i = Place(s, l.m_pCurrent)
    BY <1>1, <2>1 DEF IsInjective
  <2>3. at = {Place(s, l.m_pCurrent)}
    BY <1>1, <2>1, <2>2
  <2> HIDE DEF at
  <2>4. Min(at) = Place(s, l.m_pCurrent)
    BY <2>1, <2>3 DEF Min
  <2>5. CursorOf(l) = Min(at)
    BY <1>2, <1>6, <2>3 DEF CursorOf, at
  <2>6. l.m_pCurrent \in ToSet(s)
    BY <1>1, <1>6
  <2> QED BY <1>3, <2>4, <2>5, <2>6 DEF PlaceOrNone
<1> QED BY <1>3, <1>5, <1>6

\* The ids of a list's elements are its entries.
LEMMA IdsAre ==
    ASSUME NEW l, NEW s, NEW h, Listed(l, s, h)
    PROVE  Abstract!IdsOf(ItemsOf(l)) = ToSet(s) /\ l.used = ToSet(s)
<1>1. s \in Seq(Entries) /\ IsInjective(s) /\ l.used = ToSet(s) /\ \A e \in ToSet(s) : l.value[e] \in ListValues
  BY DEF Listed, Ring
<1>2. ItemsOf(l) = Elements(s, l.value)
  BY SeenAs
<1>3. DOMAIN ItemsOf(l) = 1..Len(s) /\ \A i \in 1..Len(s) : ItemsOf(l)[i].id = s[i]
  <2>1. /\ DOMAIN Elements(s, l.value) = 1..Len(s)
        /\ \A i \in 1..Len(s) : Elements(s, l.value)[i].id = s[i]
    BY <1>1, ElementsAre
  <2> QED BY <1>2, <2>1
<1>4. Abstract!IdsOf(ItemsOf(l)) = {ItemsOf(l)[i].id : i \in DOMAIN ItemsOf(l)}
  BY DEF Abstract!IdsOf
<1>5. DOMAIN s = 1..Len(s)
  BY <1>1
<1> QED BY <1>1, <1>3, <1>4, <1>5 DEF ToSet

\* An element put in, as CursorList sees it.
LEMMA PutSeen ==
    ASSUME NEW b, NEW s, NEW h, Listed(b, s, h), NEW c \in 0..Len(s), NEW x \in ListValues,
           NEW u, PutIn(b, s, u, c, x)
    PROVE  LET e == u.m_pCurrent
               new == [id |-> e, value |-> x]
           IN /\ e \in Entries \ ToSet(s) /\ Listed(u, With(s, c, e), h)
              /\ Len(ItemsOf(b)) = Len(s) /\ Len(ItemsOf(u)) = Len(s) + 1
              /\ ItemsOf(u) = InsertAt(ItemsOf(b), c + 1, new) /\ ItemsOf(u)[c + 1] = new
              /\ CursorOf(u) = c + 1
<1> DEFINE e == u.m_pCurrent
           new == [id |-> e, value |-> x]
           w == With(s, c, e)
<1>1. /\ Ring(b, s) /\ s \in Seq(Entries) /\ IsInjective(s) /\ \A f \in ToSet(s) : b.value[f] \in ListValues
      /\ DOMAIN b.value = Entries /\ h \in ToSet(s) \cup {Null}
  BY DEF Listed, Ring
<1>0. Len(s) \in Nat /\ c \in Nat /\ c <= Len(s) /\ c + 1 \in 1..Len(s) + 1 /\ c + 1 \in 0..Len(s) + 2 /\ ~(c + 1 <= c)
  BY <1>1
<1>2. e \in Entries \ ToSet(s) /\ Ring(u, w) /\ u.value = [b.value EXCEPT ![e] = x]
  BY DEF PutIn
<1> HIDE DEF e
<1>3. /\ w \in Seq(Entries) /\ IsInjective(w) /\ ToSet(w) = ToSet(s) \cup {e} /\ Len(w) = Len(s) + 1
      /\ Around(w, c + 1) = e
  BY <1>0, <1>1, <1>2, AroundWith
<1>4. w[c + 1] = e
  BY <1>0, <1>3 DEF Around
<1>5. \A i \in 1..Len(s) + 1 : w[i] = IF i <= c THEN s[i] ELSE IF i = c + 1 THEN e ELSE s[i - 1]
  BY DEF With
<1> HIDE DEF w
<1>6. ToSet(s) \subseteq Entries
  BY <1>1 DEF ToSet
<1>7. u.value[e] = x /\ \A f \in ToSet(s) : u.value[f] = b.value[f]
  BY <1>1, <1>2, <1>6
<1>8. \A f \in ToSet(w) : u.value[f] \in ListValues
  BY <1>1, <1>3, <1>7
<1>9. Listed(u, w, h)
  <2>1. u.m_pCurrent \in ToSet(w) \cup {Tag} /\ h \in ToSet(w) \cup {Null}
    BY <1>1, <1>3 DEF e
  <2> QED BY <1>2, <1>8, <2>1 DEF Listed
<1>10. ItemsOf(b) = Elements(s, b.value) /\ ItemsOf(u) = Elements(w, u.value) /\ CursorOf(u) = PlaceOrNone(w, e)
  BY <1>9, SeenAs DEF e
<1>11. /\ Elements(s, b.value) \in Seq(Element) /\ Len(Elements(s, b.value)) = Len(s)
       /\ \A i \in 1..Len(s) : s[i] \in ToSet(s) /\ Elements(s, b.value)[i] = [id |-> s[i], value |-> b.value[s[i]]]
  BY <1>1, ElementsAre
<1>12. /\ Elements(w, u.value) \in Seq(Element) /\ Len(Elements(w, u.value)) = Len(s) + 1
       /\ \A i \in 1..Len(s) + 1 : Elements(w, u.value)[i] = [id |-> w[i], value |-> u.value[w[i]]]
  <2>1. Len(w) = Len(s) + 1
    BY <1>3
  <2> QED BY <1>3, <1>8, <2>1, ElementsAre
<1>13. new \in Element
  BY <1>2 DEF Element
<1>14. ItemsOf(u)[c + 1] = new
  BY <1>0, <1>4, <1>7, <1>10, <1>12
<1>15. ItemsOf(u) = InsertAt(ItemsOf(b), c + 1, new)
  <2> HIDE DEF new
  <2>0. ASSUME NEW t \in Seq(Element), NEW p \in 1..Len(t) + 1, NEW n \in Element
        PROVE  /\ InsertAt(t, p, n) \in Seq(Element) /\ Len(InsertAt(t, p, n)) = Len(t) + 1
               /\ \A i \in 1..Len(t) + 1 :
                     InsertAt(t, p, n)[i] = IF i < p THEN t[i] ELSE IF i = p THEN n ELSE t[i - 1]
    BY InsertAtIs
  <2>1. /\ InsertAt(ItemsOf(b), c + 1, new) \in Seq(Element)
        /\ Len(InsertAt(ItemsOf(b), c + 1, new)) = Len(s) + 1
        /\ \A i \in 1..Len(s) + 1 : InsertAt(ItemsOf(b), c + 1, new)[i] =
               IF i <= c THEN ItemsOf(b)[i] ELSE IF i = c + 1 THEN new ELSE ItemsOf(b)[i - 1]
    <3> DEFINE t == ItemsOf(b)
               p == c + 1
    <3>1. t \in Seq(Element) /\ Len(t) = Len(s)
      BY <1>10, <1>11
    <3>2. p \in 1..Len(t) + 1
      BY <1>0, <3>1
    <3>3. \A i \in 1..Len(s) + 1 : i <= c <=> i < p
      BY <1>0
    <3> HIDE DEF t, p
    <3>4. /\ InsertAt(t, p, new) \in Seq(Element) /\ Len(InsertAt(t, p, new)) = Len(t) + 1
          /\ \A i \in 1..Len(t) + 1 :
                InsertAt(t, p, new)[i] = IF i < p THEN t[i] ELSE IF i = p THEN new ELSE t[i - 1]
      BY <1>13, <2>0, <3>1, <3>2
    <3> QED BY <3>1, <3>3, <3>4 DEF t, p
  <2>2. ASSUME NEW i \in 1..Len(s) + 1
        PROVE  ItemsOf(u)[i] = IF i <= c THEN ItemsOf(b)[i] ELSE IF i = c + 1 THEN new ELSE ItemsOf(b)[i - 1]
    <3>1. CASE i <= c
      <4>1. i \in 1..Len(s) /\ w[i] = s[i]
        BY <1>0, <1>5, <3>1
      <4>2. ItemsOf(b)[i] = [id |-> s[i], value |-> b.value[s[i]]] /\ s[i] \in ToSet(s)
        BY <1>10, <1>11, <4>1
      <4>3. ItemsOf(u)[i] = [id |-> w[i], value |-> u.value[w[i]]]
        BY <1>10, <1>12
      <4> QED BY <1>7, <3>1, <4>1, <4>2, <4>3
    <3>2. CASE i = c + 1
      BY <1>0, <1>14, <3>2
    <3>3. CASE ~(i <= c) /\ i # c + 1
      <4>1. i - 1 \in 1..Len(s) /\ w[i] = s[i - 1]
        BY <1>0, <1>5, <3>3
      <4>2. ItemsOf(b)[i - 1] = [id |-> s[i - 1], value |-> b.value[s[i - 1]]] /\ s[i - 1] \in ToSet(s)
        BY <1>10, <1>11, <4>1
      <4>3. ItemsOf(u)[i] = [id |-> w[i], value |-> u.value[w[i]]]
        BY <1>10, <1>12
      <4> QED BY <1>7, <3>3, <4>1, <4>2, <4>3
    <3> QED BY <3>1, <3>2, <3>3
  <2>3. ItemsOf(u) \in Seq(Element) /\ Len(ItemsOf(u)) = Len(s) + 1
    BY <1>10, <1>12
  <2>4. \A i \in 1..Len(s) + 1 : ItemsOf(u)[i] = InsertAt(ItemsOf(b), c + 1, new)[i]
    BY <2>1, <2>2
  <2> QED BY <2>1, <2>3, <2>4, SeqEqual
<1>16. CursorOf(u) = c + 1
  <2>1. e \in ToSet(w) /\ c + 1 \in 1..Len(w)
    BY <1>0, <1>3
  <2>2. Place(w, w[c + 1]) = c + 1
    BY <1>3, <2>1, PlaceIs
  <2> QED BY <1>4, <1>10, <2>1, <2>2 DEF PlaceOrNone
<1>17. Len(ItemsOf(b)) = Len(s) /\ Len(ItemsOf(u)) = Len(s) + 1
  BY <1>10, <1>11, <1>12
<1> QED BY <1>2, <1>9, <1>14, <1>15, <1>16, <1>17 DEF e, w

\* The handle that the application keeps of entries that are used.
StillKept(h, used) == IF h \in used THEN h ELSE Null

\* The place of an entry that is given by its place.
LEMMA PlaceAround ==
    ASSUME NEW s \in Seq(Entries), IsInjective(s), NEW j \in 0..Len(s)
    PROVE  PlaceOrNone(s, Around(s, j)) = j /\ Around(s, j) \in ToSet(s) \cup {Tag}
<1>1. Len(s) \in Nat /\ DOMAIN s = 1..Len(s) /\ Tag \notin ToSet(s)
  BY EntriesAssumption DEF ToSet
<1>2. CASE j \in 1..Len(s)
  BY <1>1, <1>2, PlaceIs DEF Around, PlaceOrNone, ToSet
<1>3. CASE j \notin 1..Len(s)
  BY <1>1, <1>3 DEF Around, PlaceOrNone
<1> QED BY <1>2, <1>3

\* An element taken out, as CursorList sees it.
LEMMA TakeSeen ==
    ASSUME NEW b, NEW s, NEW h, Listed(b, s, h), NEW c \in 1..Len(s), NEW u, TakenAt(b, s, u, c)
    PROVE  /\ Listed(u, WithoutKey(s, s[c]), StillKept(h, u.used))
           /\ Len(ItemsOf(b)) = Len(s) /\ Len(ItemsOf(u)) = Len(s) - 1
           /\ ItemsOf(u) = RemoveAt(ItemsOf(b), c)
           /\ CursorOf(u) = IF c < Len(s) THEN c ELSE c - 1
<1> DEFINE w == WithoutKey(s, s[c])
           j == IF c < Len(s) THEN c ELSE c - 1
<1>1. /\ Ring(b, s) /\ s \in Seq(Entries) /\ IsInjective(s) /\ \A f \in ToSet(s) : b.value[f] \in ListValues
      /\ DOMAIN b.value = Entries
  BY DEF Listed, Ring
<1>0. Len(s) \in Nat /\ c \in Nat /\ c <= Len(s) /\ c >= 1
  BY <1>1
<1>2. Ring(u, w) /\ u.value = [b.value EXCEPT ![s[c]] = Null] /\ u.m_pCurrent = Around(w, j)
  BY DEF TakenAt
<1>3. /\ s[c] \in ToSet(s) /\ Place(s, s[c]) = c
      /\ w \in Seq(Entries) /\ IsInjective(w) /\ ToSet(w) = ToSet(s) \ {s[c]} /\ Len(w) = Len(s) - 1
      /\ \A i \in 1..Len(s) - 1 : w[i] = IF i < c THEN s[i] ELSE s[i + 1]
  <2>1. s[c] \in ToSet(s) /\ Place(s, s[c]) = c
    BY <1>1, PlaceIs DEF ToSet
  <2> DEFINE e == s[c]
  <2>2. e \in ToSet(s)
    BY <2>1
  <2> HIDE DEF e
  <2>3. /\ WithoutKey(s, e) \in Seq(Entries) /\ IsInjective(WithoutKey(s, e))
        /\ ToSet(WithoutKey(s, e)) = ToSet(s) \ {e} /\ Len(WithoutKey(s, e)) = Len(s) - 1
        /\ \A i \in 1..Len(s) - 1 : WithoutKey(s, e)[i] = IF i < Place(s, e) THEN s[i] ELSE s[i + 1]
    BY <1>1, <2>2, WithoutKeyIs
  <2> QED BY <2>1, <2>3 DEF e
<1> HIDE DEF w
<1>4. \A f \in ToSet(w) : u.value[f] = b.value[f] /\ u.value[f] \in ListValues /\ f \in ToSet(s)
  <2>1. ToSet(s) \subseteq Entries
    BY <1>1 DEF ToSet
  <2> QED BY <1>1, <1>2, <1>3, <2>1
<1>5. j \in 0..Len(w)
  BY <1>0, <1>3
<1> HIDE DEF j
<1>6. Listed(u, w, StillKept(h, u.used))
  <2>1. u.m_pCurrent \in ToSet(w) \cup {Tag}
    BY <1>2, <1>3, <1>5, PlaceAround
  <2>2. u.used = ToSet(w)
    BY <1>2 DEF Ring
  <2> QED BY <1>2, <1>4, <2>1, <2>2 DEF Listed, StillKept
<1>7. ItemsOf(b) = Elements(s, b.value) /\ ItemsOf(u) = Elements(w, u.value)
      /\ CursorOf(u) = PlaceOrNone(w, u.m_pCurrent)
  BY <1>6, SeenAs
<1>8. CursorOf(u) = j
  BY <1>2, <1>3, <1>5, <1>7, PlaceAround
<1>9. /\ Elements(s, b.value) \in Seq(Element) /\ Len(Elements(s, b.value)) = Len(s)
      /\ IsInjective(Elements(s, b.value)) /\ DOMAIN Elements(s, b.value) = 1..Len(s)
      /\ \A i \in 1..Len(s) : s[i] \in ToSet(s) /\ Elements(s, b.value)[i] = [id |-> s[i], value |-> b.value[s[i]]]
  BY <1>1, ElementsAre
<1>10. /\ Elements(w, u.value) \in Seq(Element) /\ Len(Elements(w, u.value)) = Len(w)
       /\ \A i \in 1..Len(w) : w[i] \in ToSet(w) /\ Elements(w, u.value)[i] = [id |-> w[i], value |-> u.value[w[i]]]
  BY <1>3, <1>4, ElementsAre
<1>11. ItemsOf(u) = RemoveAt(ItemsOf(b), c)
  <2> DEFINE t == ItemsOf(b)
             r == ItemsOf(u)
  <2>1. t \in Seq(Element) /\ IsInjective(t) /\ Len(t) = Len(s) /\ DOMAIN t = 1..Len(s)
    BY <1>7, <1>9
  <2>2. \A i \in 1..Len(s) : t[i] = [id |-> s[i], value |-> b.value[s[i]]] /\ s[i] \in ToSet(s)
    BY <1>7, <1>9
  <2>3. r \in Seq(Element) /\ Len(r) = Len(s) - 1
    BY <1>3, <1>7, <1>10
  <2>4. \A i \in 1..Len(s) - 1 : r[i] = [id |-> w[i], value |-> u.value[w[i]]] /\ w[i] \in ToSet(w)
    BY <1>3, <1>7, <1>10
  <2> HIDE DEF t, r
  <2>5. t[c] \in ToSet(t) /\ Place(t, t[c]) = c
    BY <1>0, <2>1, PlaceIs DEF ToSet
  <2>6. RemoveAt(t, c) = WithoutKey(t, t[c])
    BY <2>5 DEF WithoutKey
  <2>7. /\ WithoutKey(t, t[c]) \in Seq(Element) /\ Len(WithoutKey(t, t[c])) = Len(s) - 1
        /\ \A i \in 1..Len(s) - 1 : WithoutKey(t, t[c])[i] = IF i < c THEN t[i] ELSE t[i + 1]
    <3>1. /\ WithoutKey(t, t[c]) \in Seq(Element) /\ Len(WithoutKey(t, t[c])) = Len(t) - 1
          /\ \A i \in 1..Len(t) - 1 : WithoutKey(t, t[c])[i] = IF i < Place(t, t[c]) THEN t[i] ELSE t[i + 1]
      BY <2>1, <2>5, WithoutKeyIs
    <3> QED BY <2>1, <2>5, <3>1
  <2>8. ASSUME NEW i \in 1..Len(s) - 1 PROVE r[i] = WithoutKey(t, t[c])[i]
    <3>1. u.value[w[i]] = b.value[w[i]]
      BY <1>4, <2>4
    <3>2. CASE i < c
      <4>1. i \in 1..Len(s) /\ w[i] = s[i]
        BY <1>0, <1>3, <3>2
      <4>2. WithoutKey(t, t[c])[i] = [id |-> s[i], value |-> b.value[s[i]]]
        BY <2>2, <2>7, <3>2, <4>1
      <4> QED BY <2>4, <3>1, <4>1, <4>2
    <3>3. CASE ~(i < c)
      <4>1. i + 1 \in 1..Len(s) /\ w[i] = s[i + 1]
        BY <1>0, <1>3, <3>3
      <4>2. WithoutKey(t, t[c])[i] = [id |-> s[i + 1], value |-> b.value[s[i + 1]]]
        BY <2>2, <2>7, <3>3, <4>1
      <4> QED BY <2>4, <3>1, <4>1, <4>2
    <3> QED BY <3>2, <3>3
  <2>9. r = WithoutKey(t, t[c])
    BY <2>3, <2>7, <2>8, SeqEqual
  <2> QED BY <2>6, <2>9 DEF t, r
<1>12. Len(ItemsOf(b)) = Len(s) /\ Len(ItemsOf(u)) = Len(s) - 1
  BY <1>3, <1>7, <1>9, <1>10
<1> QED BY <1>6, <1>8, <1>11, <1>12 DEF w, j

\* A search from place c on comes to the first that passes, or to the tag.
LEMMA FirstFromIs ==
    ASSUME NEW b, NEW s, Ring(b, s), NEW c \in 1..Len(s) + 1, NEW values
    PROVE  \/ /\ FirstFrom(b, Around(s, c), values) = Tag
              /\ \A i \in c..Len(s) : b.value[s[i]] \notin values
           \/ \E j \in c..Len(s) : /\ FirstFrom(b, Around(s, c), values) = s[j]
                                   /\ b.value[s[j]] \in values
                                   /\ \A i \in c..j - 1 : b.value[s[i]] \notin values
<1> DEFINE a == After(s, c - 1)
           n == Len(s) - (c - 1)
           hits == {i \in DOMAIN a : b.value[a[i]] \in values}
<1>0. s \in Seq(Entries) /\ Len(s) \in Nat /\ c \in Nat /\ c >= 1 /\ n \in Nat
  BY DEF Ring
<1>1. DOMAIN a = 1..n /\ \A i \in 1..n : a[i] = s[(c - 1) + i]
  BY DEF After
<1>2. FirstFrom(b, Around(s, c), values) = IF hits = {} THEN Tag ELSE a[Min(hits)]
  <2>1. Onward(b, Around(s, c)) = a
    BY OnwardFrom
  <2> HIDE DEF a
  <2> QED BY <2>1 DEF FirstFrom
<1> HIDE DEF a
<1>3. \A i \in c..Len(s) : i - (c - 1) \in 1..n /\ a[i - (c - 1)] = s[i]
  <2> TAKE i \in c..Len(s)
  <2>1. i - (c - 1) \in 1..n /\ (c - 1) + (i - (c - 1)) = i
    BY <1>0
  <2> HIDE DEF n
  <2> QED BY <1>1, <2>1
<1>4. CASE hits = {}
  <2>1. ASSUME NEW i \in c..Len(s) PROVE b.value[s[i]] \notin values
    <3>1. i - (c - 1) \notin hits
      BY <1>4
    <3> QED BY <1>1, <1>3, <3>1
  <2> QED BY <1>2, <1>4, <2>1
<1>5. CASE hits # {}
  <2>1. PICK m \in hits : \A k \in hits : m <= k
    <3>1. hits \subseteq 0..n
      BY <1>1
    <3> HIDE DEF hits, n
    <3> QED BY <1>0, <1>5, <3>1, FirstOfPlaces
  <2>2. hits \subseteq Int
    BY <1>1
  <2>3. m \in 1..n /\ b.value[a[m]] \in values
    BY <1>1
  <2>4. Min(hits) = m
    <3> HIDE DEF hits
    <3>1. \A x \in hits : (\A y \in hits : x =< y) => x = m
      BY <2>1, <2>2
    <3> QED BY <2>1, <3>1 DEF Min
  <2> DEFINE j == (c - 1) + m
  <2>5. j \in c..Len(s) /\ a[m] = s[j]
    <3>1. j \in c..Len(s)
      BY <1>0, <2>3
    <3> QED BY <1>1, <2>3, <3>1
  <2>6. ASSUME NEW i \in c..j - 1 PROVE b.value[s[i]] \notin values
    <3>1. i \in c..Len(s) /\ ~(m <= i - (c - 1))
      BY <1>0, <2>3, <2>5
    <3>2. i - (c - 1) \notin hits
      <4> HIDE DEF hits, n, j
      <4> QED BY <2>1, <3>1
    <3> QED BY <1>1, <1>3, <3>1, <3>2
  <2>7. FirstFrom(b, Around(s, c), values) = s[j]
    BY <1>2, <1>5, <2>4, <2>5
  <2> HIDE DEF j
  <2> QED BY <2>3, <2>5, <2>6, <2>7
<1> QED BY <1>4, <1>5

\* The cursor moved to a place, as CursorList sees it.
LEMMA MoveSeen ==
    ASSUME NEW b, NEW s, NEW h, Listed(b, s, h), NEW j \in 0..Len(s)
    PROVE  LET u == [b EXCEPT !.m_pCurrent = Around(s, j)] IN
           /\ Listed(u, s, h) /\ u.used = b.used /\ u.value = b.value
           /\ u.m_pCurrent = Around(s, j)
           /\ ItemsOf(u) = ItemsOf(b) /\ CursorOf(u) = j
<1> DEFINE u == [b EXCEPT !.m_pCurrent = Around(s, j)]
<1>1. /\ Ring(b, s) /\ s \in Seq(Entries) /\ IsInjective(s) /\ DOMAIN b = RingFields /\ b.used = ToSet(s)
  BY DEF Listed, Ring
<1>2. Ring(u, s) /\ u.value = b.value
  BY <1>1, RingCursor
<1>3. u.m_pCurrent = Around(s, j)
  BY <1>1 DEF RingFields
<1> HIDE DEF u
<1>4. PlaceOrNone(s, Around(s, j)) = j /\ Around(s, j) \in ToSet(s) \cup {Tag}
  BY <1>1, PlaceAround
<1>5. Listed(u, s, h)
  BY <1>2, <1>3, <1>4 DEF Listed
<1>6. ItemsOf(u) = ItemsOf(b) /\ CursorOf(u) = j
  <2>1. ItemsOf(b) = Elements(s, b.value)
    BY SeenAs
  <2>2. ItemsOf(u) = Elements(s, u.value) /\ CursorOf(u) = PlaceOrNone(s, u.m_pCurrent)
    BY <1>5, SeenAs
  <2> QED BY <1>2, <1>3, <1>4, <2>1, <2>2
<1>7. u.used = b.used
  BY <1>1, <1>2 DEF Ring
<1> QED BY <1>2, <1>3, <1>5, <1>6, <1>7 DEF u

\* Where the cursor of a list may be.
LEMMA CursorIs ==
    ASSUME NEW b, NEW s, NEW h, Listed(b, s, h)
    PROVE  /\ s \in Seq(Entries) /\ IsInjective(s) /\ Len(s) \in Nat /\ b.m_count = Len(s)
           /\ CursorOf(b) \in 0..Len(s) /\ b.m_pCurrent = Around(s, CursorOf(b))
           /\ b.m_pCurrent = Tag <=> CursorOf(b) = 0
           /\ Len(ItemsOf(b)) = Len(s) /\ DOMAIN ItemsOf(b) = 1..Len(s)
           /\ \A i \in 1..Len(s) : /\ s[i] \in ToSet(s)
                                   /\ ItemsOf(b)[i] = [id |-> s[i], value |-> b.value[s[i]]]
           /\ b.m_pHead = Around(s, 1) /\ b.m_pTail = Around(s, Len(s))
           /\ ToSet(s) \subseteq Entries
           /\ ItemsOf(b) \in Seq(Element)
<1>1. /\ Ring(b, s) /\ s \in Seq(Entries) /\ IsInjective(s) /\ b.m_pCurrent \in ToSet(s) \cup {Tag}
      /\ b.m_count = Len(s) /\ \A e \in ToSet(s) : b.value[e] \in ListValues
      /\ b.m_pHead = Around(s, 1) /\ b.m_pTail = Around(s, Len(s))
  BY DEF Listed, Ring
<1>2. Len(s) \in Nat /\ DOMAIN s = 1..Len(s) /\ ToSet(s) \subseteq Entries /\ Tag \notin ToSet(s)
  BY <1>1, EntriesAssumption DEF ToSet
<1>3. ItemsOf(b) = Elements(s, b.value) /\ CursorOf(b) = PlaceOrNone(s, b.m_pCurrent)
  BY SeenAs
<1>4. /\ Elements(s, b.value) \in Seq(Element) /\ Len(Elements(s, b.value)) = Len(s)
      /\ DOMAIN Elements(s, b.value) = 1..Len(s)
      /\ \A i \in 1..Len(s) : s[i] \in ToSet(s) /\ Elements(s, b.value)[i] = [id |-> s[i], value |-> b.value[s[i]]]
  BY <1>1, ElementsAre
<1>5. CASE b.m_pCurrent = Tag
  <2>1. CursorOf(b) = 0 /\ 0 \in 0..Len(s) /\ 0 \notin 1..Len(s)
    BY <1>2, <1>3, <1>5 DEF PlaceOrNone
  <2>2. Around(s, 0) = Tag
    BY <2>1 DEF Around
  <2> QED BY <1>1, <1>2, <1>3, <1>4, <1>5, <2>1, <2>2
<1>6. CASE b.m_pCurrent # Tag
  <2>1. b.m_pCurrent \in ToSet(s)
    BY <1>1, <1>6
  <2>2. Place(s, b.m_pCurrent) \in 1..Len(s) /\ s[Place(s, b.m_pCurrent)] = b.m_pCurrent
    BY <1>1, <2>1, PlaceIs
  <2>3. CursorOf(b) = Place(s, b.m_pCurrent)
    BY <1>3, <2>1 DEF PlaceOrNone
  <2>4. CursorOf(b) \in 0..Len(s) /\ CursorOf(b) # 0 /\ b.m_pCurrent = Around(s, CursorOf(b))
    BY <2>2, <2>3 DEF Around
  <2> QED BY <1>1, <1>2, <1>3, <1>4, <1>6, <2>4
<1> QED BY <1>5, <1>6

\* The state is a list that is s.
ListIs(s) == Listed(list, s, kept)
ListInv == \E s : ListIs(s)

\* A step puts an element in, as CursorList does.
LEMMA PutRefines ==
    ASSUME NEW s, ListIs(s), NEW c \in 0..Len(s), NEW x \in ListValues,
           PutIn(list, s, list', c, x), kept' = StillKept(kept, list'.used)
    PROVE  /\ Abstract!PutAt(c + 1) /\ Len(ItemsOf(list')) > Len(ItemsOf(list))
           /\ ListInv' /\ ItemsOf(list')[c + 1].value = x
<1> DEFINE e == list'.m_pCurrent
           new == [id |-> e, value |-> x]
           w == With(s, c, e)
<1>1. Listed(list, s, kept)
  BY DEF ListIs
<1>2. /\ e \in Entries \ ToSet(s) /\ Listed(list', w, kept)
      /\ Len(ItemsOf(list)) = Len(s) /\ Len(ItemsOf(list')) = Len(s) + 1
      /\ ItemsOf(list') = InsertAt(ItemsOf(list), c + 1, new) /\ ItemsOf(list')[c + 1] = new
      /\ CursorOf(list') = c + 1
  BY <1>1, PutSeen
<1>3. Len(s) \in Nat /\ Abstract!IdsOf(ItemsOf(list)) = ToSet(s)
  BY <1>1, IdsAre, CursorIs
<1>4. Abstract!IdsOf(ItemsOf(list')) = ToSet(w) /\ list'.used = ToSet(w)
  BY <1>2, IdsAre
<1>5. kept' = kept /\ kept \in ToSet(w) \cup {Null}
  BY <1>2, <1>4 DEF StillKept, Listed
<1> HIDE DEF w
<1>6. ListInv'
  BY <1>2, <1>5 DEF ListInv, ListIs
<1>7. Abstract!Forget
  BY <1>4, <1>5 DEF Abstract!Forget
<1>8. new.id = e /\ new.value = x
  OBVIOUS
<1> HIDE DEF e, new
<1>9. Abstract!InsertAtPlace(c + 1)
  BY <1>2, <1>3, <1>8 DEF Abstract!InsertAtPlace, Abstract!InsertAt, InsertAt
<1>10. Abstract!PutAt(c + 1)
  BY <1>2, <1>7, <1>9 DEF Abstract!PutAt
<1>11. Len(ItemsOf(list')) > Len(ItemsOf(list))
  BY <1>2, <1>3
<1> QED BY <1>2, <1>6, <1>8, <1>10, <1>11

\* A step takes an element out, as CursorList does.
LEMMA TakeRefines ==
    ASSUME NEW s, ListIs(s), NEW c \in 1..Len(s),
           TakenAt(list, s, list', c), kept' = StillKept(kept, list'.used)
    PROVE  /\ Abstract!TakeOut(c) /\ Len(ItemsOf(list')) < Len(ItemsOf(list))
           /\ ListInv'
<1> DEFINE w == WithoutKey(s, s[c])
<1>1. Listed(list, s, kept)
  BY DEF ListIs
<1>2. /\ Listed(list', w, kept')
      /\ Len(ItemsOf(list)) = Len(s) /\ Len(ItemsOf(list')) = Len(s) - 1
      /\ ItemsOf(list') = RemoveAt(ItemsOf(list), c)
      /\ CursorOf(list') = IF c < Len(s) THEN c ELSE c - 1
  BY <1>1, TakeSeen
<1>3. Len(s) \in Nat
  BY <1>1, CursorIs
<1>4. Abstract!IdsOf(ItemsOf(list')) = ToSet(w) /\ list'.used = ToSet(w)
  BY <1>2, IdsAre
<1> HIDE DEF w
<1>5. ListInv'
  BY <1>2 DEF ListInv, ListIs
<1>6. Abstract!Forget
  BY <1>4 DEF Abstract!Forget, StillKept
<1>7. Abstract!TakeOut(c)
  BY <1>2, <1>6 DEF Abstract!TakeOut, Abstract!RemoveAt, RemoveAt
<1> QED BY <1>2, <1>3, <1>5, <1>7

\* A step that CursorList allows, or one that it does not see.
Seen == \/ Abstract!Insertion \/ Abstract!Removal \/ Abstract!Search
        \/ Abstract!Set \/ Abstract!Assign
        \/ UNCHANGED <<ItemsOf(list), CursorOf(list), kept>>

\* Nothing done.
LEMMA NothingSeen ==
    ASSUME NEW s, ListIs(s), Becomes(list)
    PROVE  ListInv' /\ Seen
<1>1. Listed(list, s, kept)
  BY DEF ListIs
<1>2. kept \in list.used \cup {Null}
  BY <1>1, IdsAre DEF Listed
<1>3. list' = list /\ kept' = kept
  BY <1>2 DEF Becomes
<1>4. ListInv'
  BY <1>1, <1>3 DEF ListInv, ListIs
<1>5. UNCHANGED <<ItemsOf(list), CursorOf(list), kept>>
  BY <1>3
<1> QED BY <1>4, <1>5 DEF Seen

\* push_front and push_back.
LEMMA PushSeen ==
    ASSUME NEW s, ListIs(s), list.used # Entries, NEW v \in ListValues
    PROVE  /\ Becomes(PushFront(list, v)) => ListInv' /\ Seen /\ Abstract!PutAt(1)
           /\ Becomes(PushBack(list, v)) => ListInv' /\ Seen
<1>1. Ring(list, s) /\ Len(s) \in Nat /\ 0 \in 0..Len(s) /\ Len(s) \in 0..Len(s) /\ Len(ItemsOf(list)) = Len(s)
  BY CursorIs DEF ListIs, Listed
<1>2. ASSUME Becomes(PushFront(list, v)) PROVE ListInv' /\ Seen /\ Abstract!PutAt(1)
  <2>1. PutIn(list, s, list', 0, v) /\ kept' = StillKept(kept, list'.used)
    BY <1>1, <1>2, PushFrontPuts DEF Becomes, StillKept
  <2>2. Abstract!PutAt(0 + 1) /\ Len(ItemsOf(list')) > Len(ItemsOf(list)) /\ ListInv'
    BY <1>1, <2>1, PutRefines
  <2>3. 0 + 1 = 1
    OBVIOUS
  <2>4. Abstract!PutAt(1)
    BY <2>2, <2>3
  <2>5. Abstract!Insertion
    BY <2>2, <2>4 DEF Abstract!Insertion, Abstract!PushFront
  <2> QED BY <2>2, <2>4, <2>5 DEF Seen
<1>3. ASSUME Becomes(PushBack(list, v)) PROVE ListInv' /\ Seen
  <2>1. PutIn(list, s, list', Len(s), v) /\ kept' = StillKept(kept, list'.used)
    BY <1>1, <1>3, PushBackPuts DEF Becomes, StillKept
  <2>2. Abstract!PutAt(Len(s) + 1) /\ Len(ItemsOf(list')) > Len(ItemsOf(list)) /\ ListInv'
    BY <1>1, <2>1, PutRefines
  <2>3. Abstract!Insertion
    BY <1>1, <2>2 DEF Abstract!Insertion, Abstract!PushBack
  <2> QED BY <2>2, <2>3 DEF Seen
<1> QED BY <1>2, <1>3

\* Around the cursor: which place it has.
LEMMA CursorAt ==
    ASSUME NEW s, ListIs(s)
    PROVE  LET c == CursorOf(list) IN
           /\ IsHead(list) => c = 1
           /\ IsTail(list) => c = Len(s) /\ Len(s) # 0
           /\ c # 0 /\ ~IsHead(list) => c \in 2..Len(s) /\ list.prev[list.m_pCurrent] = s[c - 1]
           /\ c # 0 /\ ~IsTail(list) => c \in 1..Len(s) - 1 /\ list.next[list.m_pCurrent] = s[c + 1]
           /\ c # 0 => list.m_pCurrent = s[c] /\ c \in 1..Len(s)
<1> DEFINE c == CursorOf(list)
<1>1. /\ c \in 0..Len(s) /\ list.m_pCurrent = Around(s, c) /\ Len(s) \in Nat
      /\ (list.m_pCurrent = Tag <=> c = 0) /\ Ring(list, s)
  BY CursorIs DEF ListIs, Listed
<1> HIDE DEF c
<1>2. CASE c = 0
  BY <1>1, <1>2 DEF IsHead, IsTail, c
<1>3. CASE c # 0
  <2>1. c \in 1..Len(s) /\ list.m_pCurrent = s[c] /\ list.m_pCurrent # Tag
    BY <1>1, <1>3 DEF Around
  <2>2. /\ list.next[s[c]] = Around(s, c + 1) /\ list.prev[s[c]] = Around(s, c - 1)
        /\ Around(s, c + 1) = Tag <=> c = Len(s)
        /\ Around(s, c - 1) = Tag <=> c = 1
    BY <1>1, <2>1, Neighbours
  <2>3. (IsHead(list) <=> c = 1) /\ (IsTail(list) <=> c = Len(s))
    BY <2>1, <2>2 DEF IsHead, IsTail
  <2>4. /\ c # 1 => c \in 2..Len(s) /\ c - 1 \in 1..Len(s)
        /\ c # Len(s) => c \in 1..Len(s) - 1 /\ c + 1 \in 1..Len(s)
        /\ Len(s) # 0
    BY <1>1, <2>1
  <2> QED BY <2>1, <2>2, <2>3, <2>4 DEF Around, c
<1> QED BY <1>2, <1>3

\* insert, at the cursor.
LEMMA InsertHereSeen ==
    ASSUME NEW s, ListIs(s), list.used # Entries, NEW v \in ListValues,
           Becomes(InsertHere(list, v))
    PROVE  ListInv' /\ Seen
<1> DEFINE c == CursorOf(list)
<1>1. /\ c \in 0..Len(s) /\ list.m_pCurrent = Around(s, c) /\ Len(s) \in Nat
      /\ (list.m_pCurrent = Tag <=> c = 0) /\ Ring(list, s) /\ list.m_count = Len(s)
  BY CursorIs DEF ListIs, Listed
<1>2. /\ c # 0 /\ ~IsTail(list) => c \in 1..Len(s) - 1 /\ list.next[list.m_pCurrent] = s[c + 1]
      /\ c # 0 /\ ~IsHead(list) => c \in 2..Len(s)
      /\ c # 0 => list.m_pCurrent = s[c]
  BY CursorAt
<1>3. CASE list.m_count = 0 \/ IsHead(list)
  BY <1>3, PushSeen DEF InsertHere
<1>4. CASE list.m_count # 0 /\ ~IsHead(list) /\ list.m_pCurrent = Tag
  BY <1>4, NothingSeen DEF InsertHere
<1>5. CASE list.m_count # 0 /\ ~IsHead(list) /\ list.m_pCurrent # Tag /\ IsTail(list)
  BY <1>5, PushSeen DEF InsertHere
<1>6. CASE list.m_count # 0 /\ ~IsHead(list) /\ list.m_pCurrent # Tag /\ ~IsTail(list)
  <2>1. c \in 1..Len(s) - 1 /\ c \in 2..Len(s) /\ c \in 0..Len(s) /\ c > 1
    BY <1>1, <1>2, <1>6
  <2>2. list' = Link(list, v, s[c], s[c + 1]) /\ kept' = StillKept(kept, list'.used)
    <3> HIDE DEF c
    <3> QED BY <1>1, <1>2, <1>6, <2>1 DEF InsertHere, Becomes, StillKept
  <2>3. PutIn(list, s, list', c, v)
    <3> HIDE DEF c
    <3> QED BY <1>1, <2>1, <2>2, LinkPuts
  <2>4. Abstract!PutAt(c + 1) /\ Len(ItemsOf(list')) > Len(ItemsOf(list)) /\ ListInv'
    <3> HIDE DEF c
    <3> QED BY <2>1, <2>2, <2>3, PutRefines
  <2>5. Abstract!Insertion
    BY <2>1, <2>4 DEF Abstract!Insertion, Abstract!Insert
  <2> QED BY <2>4, <2>5 DEF Seen
<1> QED BY <1>3, <1>4, <1>5, <1>6

\* insert_sort: in front of the first that is larger, or smaller.
LEMMA InsertSortSeen ==
    ASSUME NEW s, ListIs(s), list.used # Entries, NEW v \in ListValues, NEW mode \in {0, 1},
           Becomes(InsertSort(list, v, mode))
    PROVE  ListInv' /\ Seen
<1> DEFINE larger == LargerThan(v, mode)
           at == FirstFrom(list, list.m_pHead, larger)
<1>1. /\ Ring(list, s) /\ Len(s) \in Nat /\ s \in Seq(Entries) /\ IsInjective(s)
      /\ list.m_pHead = Around(s, 1) /\ list.m_count = Len(s)
      /\ Len(ItemsOf(list)) = Len(s)
      /\ \A i \in 1..Len(s) : /\ s[i] \in ToSet(s)
                              /\ ItemsOf(list)[i] = [id |-> s[i], value |-> list.value[s[i]]]
      /\ \A e \in ToSet(s) : list.value[e] \in ListValues
  BY CursorIs DEF ListIs, Listed
<1>2. \/ /\ at = Tag
         /\ \A i \in 1..Len(s) : list.value[s[i]] \notin larger
      \/ \E j \in 1..Len(s) : /\ at = s[j]
                              /\ list.value[s[j]] \in larger
                              /\ \A i \in 1..j - 1 : list.value[s[i]] \notin larger
  <2>1. 1 \in 1..Len(s) + 1
    <3>1. \A n \in Nat : 1 \in 1..n + 1
      OBVIOUS
    <3> QED BY <1>1, <3>1
  <2> HIDE DEF larger
  <2> QED BY <1>1, <2>1, FirstFromIs
<1>3. ASSUME NEW i \in 1..Len(s)
      PROVE  list.value[s[i]] \notin larger <=> IF mode = 0 THEN ItemsOf(list)[i].value <= v ELSE ItemsOf(list)[i].value >= v
  <2>1. list.value[s[i]] \in ListValues /\ ItemsOf(list)[i].value = list.value[s[i]]
    <3>1. s[i] \in ToSet(s) /\ ItemsOf(list)[i] = [id |-> s[i], value |-> list.value[s[i]]]
      BY <1>1
    <3> QED BY <1>1, <3>1
  <2>2. list.value[s[i]] \in Int /\ v \in Int
    BY <2>1, ListAssumption
  <2>3. v >= list.value[s[i]] <=> list.value[s[i]] <= v
    BY <2>2
  <2>4. v <= list.value[s[i]] <=> list.value[s[i]] >= v
    BY <2>2
  <2> QED BY <2>1, <2>3, <2>4 DEF LargerThan
<1> HIDE DEF larger, at
<1>4. list' = IF at = list.m_pHead THEN PushFront(list, v)
              ELSE IF at = Tag THEN PushBack(list, v) ELSE Link(list, v, list.prev[at], at)
  BY DEF InsertSort, Becomes, at, larger
<1>5. kept' = StillKept(kept, list'.used)
  BY DEF Becomes, StillKept
<1>6. ASSUME NEW j \in 1..Len(s) + 1,
             \A i \in 1..j - 1 : list.value[s[i]] \notin larger,
             j <= Len(s) => list.value[s[j]] \in larger,
             NEW c \in 0..Len(s), j = c + 1, PutIn(list, s, list', c, v)
      PROVE  ListInv' /\ Seen
  <2>1. /\ Abstract!PutAt(j) /\ Len(ItemsOf(list')) > Len(ItemsOf(list)) /\ ListInv'
        /\ ItemsOf(list')[j].value = v
    BY <1>5, <1>6, PutRefines
  <2>2. \A i \in 1..j - 1 : IF mode = 0 THEN ItemsOf(list)[i].value <= v ELSE ItemsOf(list)[i].value >= v
    <3>1. \A i \in 1..j - 1 : i \in 1..Len(s)
      BY <1>1
    <3> QED BY <1>3, <1>6, <3>1
  <2>3. j <= Len(s) => ~(IF mode = 0 THEN ItemsOf(list)[j].value <= v ELSE ItemsOf(list)[j].value >= v)
    <3>1. j <= Len(s) => j \in 1..Len(s)
      BY <1>1
    <3> QED BY <1>3, <1>6, <3>1
  <2>4. Abstract!InsertSort
    BY <1>1, <2>1, <2>2, <2>3 DEF Abstract!InsertSort
  <2>5. Abstract!Insertion
    BY <2>1, <2>4 DEF Abstract!Insertion
  <2> QED BY <2>1, <2>5 DEF Seen
<1>7. CASE at = Tag
  <2>1. CASE at = list.m_pHead
    BY <1>4, <1>5, <2>1, PushSeen DEF Becomes, StillKept
  <2>2. CASE at # list.m_pHead
    BY <1>4, <1>5, <1>7, <2>2, PushSeen DEF Becomes, StillKept
  <2> QED BY <2>1, <2>2
<1>8. CASE at # Tag
  <2>1. PICK j \in 1..Len(s) : /\ at = s[j] /\ list.value[s[j]] \in larger
                               /\ \A i \in 1..j - 1 : list.value[s[i]] \notin larger
    BY <1>2, <1>8
  <2>2. CASE at = list.m_pHead
    BY <1>4, <1>5, <2>2, PushSeen DEF Becomes, StillKept
  <2>3. CASE at # list.m_pHead
    <3>1. j # 1
      <4>1. 1 \in 1..Len(s) => Around(s, 1) = s[1]
        BY DEF Around
      <4> QED BY <1>1, <2>1, <2>3, <4>1
    <3> DEFINE c == j - 1
    <3>2. c \in 1..Len(s) - 1 /\ c \in 0..Len(s) /\ j = c + 1 /\ j \in 1..Len(s) + 1 /\ c \in 1..Len(s)
      BY <1>1, <2>1, <3>1
    <3>3. list.prev[at] = Around(s, c)
      BY <1>1, <2>1, Neighbours
    <3> HIDE DEF c
    <3>4. list.prev[at] = s[c]
      BY <3>2, <3>3 DEF Around
    <3>5. list' = Link(list, v, s[c], s[c + 1])
      BY <1>4, <1>8, <2>1, <2>3, <3>2, <3>4
    <3>6. PutIn(list, s, list', c, v)
      BY <1>1, <3>2, <3>5, LinkPuts
    <3> QED BY <1>6, <2>1, <3>2, <3>6
  <2> QED BY <2>2, <2>3
<1> QED BY <1>7, <1>8

\* pop_front, pop_back and pop_current.
LEMMA PopSeen ==
    ASSUME NEW s, ListIs(s), Pop
    PROVE  ListInv' /\ Seen
<1>1. /\ Ring(list, s) /\ Len(s) \in Nat /\ s \in Seq(Entries) /\ list.m_count = Len(s)
      /\ Len(ItemsOf(list)) = Len(s)
      /\ CursorOf(list) \in 0..Len(s) /\ (list.m_pCurrent = Tag <=> CursorOf(list) = 0)
  BY CursorIs DEF ListIs, Listed
<1>2. CASE Becomes(list)
  BY <1>2, NothingSeen
<1>3. ASSUME NEW c \in 1..Len(s), TakenAt(list, s, list', c), kept' = StillKept(kept, list'.used)
      PROVE  Abstract!TakeOut(c) /\ Len(ItemsOf(list')) < Len(ItemsOf(list)) /\ ListInv'
  BY <1>3, TakeRefines
<1>4. Len(s) # 0 => /\ s # <<>> /\ ItemsOf(list) # <<>> /\ 1 \in 1..Len(s) /\ Len(s) \in 1..Len(s)
  BY <1>1
<1>5. CASE list.m_count # 0 /\ Becomes(PopFront(list))
  <2>1. TakenAt(list, s, list', 1) /\ kept' = StillKept(kept, list'.used)
    BY <1>1, <1>4, <1>5, PopEnds DEF Becomes, StillKept
  <2>2. Abstract!TakeOut(1) /\ Len(ItemsOf(list')) < Len(ItemsOf(list)) /\ ListInv'
    BY <1>1, <1>3, <1>4, <1>5, <2>1
  <2> QED BY <1>1, <1>4, <1>5, <2>2 DEF Seen, Abstract!Removal, Abstract!PopFront
<1>6. CASE list.m_count # 0 /\ Becomes(PopBack(list))
  <2>1. TakenAt(list, s, list', Len(s)) /\ kept' = StillKept(kept, list'.used)
    BY <1>1, <1>4, <1>6, PopEnds DEF Becomes, StillKept
  <2>2. Abstract!TakeOut(Len(s)) /\ Len(ItemsOf(list')) < Len(ItemsOf(list)) /\ ListInv'
    BY <1>1, <1>3, <1>4, <1>6, <2>1
  <2> QED BY <1>1, <1>4, <1>6, <2>2 DEF Seen, Abstract!Removal, Abstract!PopBack
<1>7. CASE list.m_count # 0 /\ list.m_pCurrent # Tag /\ Becomes(PopCurrent(list))
  <2> DEFINE c == CursorOf(list)
  <2>1. c \in 1..Len(s) /\ list.m_pCurrent = s[c] /\ c # 0
    BY <1>1, <1>7, CursorAt
  <2>2. TakenAt(list, s, list', c) /\ kept' = StillKept(kept, list'.used)
    <3> HIDE DEF c
    <3> QED BY <1>1, <1>7, <2>1, PopCurrentTakes DEF Becomes, StillKept
  <2>3. Abstract!TakeOut(c) /\ Len(ItemsOf(list')) < Len(ItemsOf(list)) /\ ListInv'
    BY <1>3, <2>1, <2>2
  <2> QED BY <2>1, <2>3 DEF Seen, Abstract!Removal, Abstract!PopCurrent
<1>8. \/ Becomes(list)
      \/ list.m_count # 0 /\ Becomes(PopFront(list))
      \/ list.m_count # 0 /\ Becomes(PopBack(list))
      \/ list.m_count # 0 /\ list.m_pCurrent # Tag /\ Becomes(PopCurrent(list))
  BY DEF Pop, PopFront, PopBack, PopCurrent
<1> QED BY <1>2, <1>5, <1>6, <1>7, <1>8

\* The cursor goes to a place.
LEMMA MoveRefines ==
    ASSUME NEW s, ListIs(s), NEW j \in 0..Len(s), CursorTo(Around(s, j))
    PROVE  ListInv' /\ Abstract!Go(j)
<1>1. Listed(list, s, kept)
  BY DEF ListIs
<1>2. list' = [list EXCEPT !.m_pCurrent = Around(s, j)] /\ kept' = kept
  BY DEF CursorTo
<1>3. Listed(list', s, kept) /\ ItemsOf(list') = ItemsOf(list) /\ CursorOf(list') = j
  BY <1>1, <1>2, MoveSeen
<1> QED BY <1>2, <1>3 DEF ListInv, ListIs, Abstract!Go

\* It stays at the tag.
LEMMA StaySeen ==
    ASSUME NEW s, ListIs(s), CursorOf(list) = 0, CursorTo(Tag)
    PROVE  ListInv' /\ Seen
<1>1. Len(s) \in Nat /\ Around(s, 0) = Tag /\ 0 \in 0..Len(s)
  BY CursorIs DEF ListIs, Around
<1>2. ListInv' /\ Abstract!Go(0)
  BY <1>1, MoveRefines
<1> QED BY <1>2 DEF Seen, Abstract!Go

\* front, back, next, prev, reset, and a position.
LEMMA MovesSeen ==
    ASSUME NEW s, ListIs(s), Move
    PROVE  ListInv' /\ Seen
<1> DEFINE c == CursorOf(list)
<1>1. /\ Ring(list, s) /\ Len(s) \in Nat /\ s \in Seq(Entries) /\ list.m_count = Len(s)
      /\ Len(ItemsOf(list)) = Len(s) /\ DOMAIN ItemsOf(list) = 1..Len(s)
      /\ list.m_pHead = Around(s, 1) /\ list.m_pTail = Around(s, Len(s))
      /\ c \in 0..Len(s) /\ (list.m_pCurrent = Tag <=> c = 0)
  BY CursorIs DEF ListIs, Listed
<1>2. /\ c # 0 /\ ~IsTail(list) => c \in 1..Len(s) - 1 /\ list.next[list.m_pCurrent] = s[c + 1]
      /\ c # 0 /\ ~IsHead(list) => c \in 2..Len(s) /\ list.prev[list.m_pCurrent] = s[c - 1]
  BY CursorAt
<1>3. Onward(list, list.m_pHead) = s
  BY <1>1, OnwardIs
<1> HIDE DEF c
<1>4. ASSUME NEW j \in 0..Len(s), CursorTo(Around(s, j)) PROVE ListInv' /\ Abstract!Go(j)
  BY <1>4, MoveRefines
<1>5. ASSUME NEW j, Abstract!Go(j), Abstract!Step PROVE Seen
  BY <1>5 DEF Seen, Abstract!Search, Abstract!Go
<1>6. ASSUME Len(s) # 0, CursorTo(list.m_pHead) PROVE ListInv' /\ Seen
  <2>1. 1 \in 0..Len(s) /\ ItemsOf(list) # <<>>
    BY <1>1, <1>6
  <2>2. ListInv' /\ Abstract!Go(1)
    BY <1>1, <1>4, <1>6, <2>1
  <2>3. Abstract!Step
    BY <2>1, <2>2 DEF Abstract!Step
  <2> QED BY <1>5, <2>2, <2>3
<1>7. ASSUME Len(s) # 0, CursorTo(list.m_pTail) PROVE ListInv' /\ Seen
  <2>1. Len(s) \in 0..Len(s) /\ ItemsOf(list) # <<>>
    BY <1>1, <1>7
  <2>2. ListInv' /\ Abstract!Go(Len(s))
    BY <1>1, <1>4, <1>7, <2>1
  <2>3. Abstract!Step
    BY <1>1, <2>1, <2>2 DEF Abstract!Step
  <2> QED BY <1>5, <2>2, <2>3
<1>8. ASSUME Len(s) = 0, CursorTo(list.m_pHead) PROVE ListInv' /\ Seen
  <2>1. list.m_pHead = Tag /\ c = 0
    BY <1>1, <1>8 DEF Around
  <2> QED BY <1>8, <2>1, StaySeen DEF c
<1>9. ASSUME list.m_pCurrent # Tag, ~IsTail(list), CursorTo(list.next[list.m_pCurrent]) PROVE ListInv' /\ Seen
  <2> DEFINE j == c + 1
  <2>1. c \in 1..Len(s) - 1 /\ list.next[list.m_pCurrent] = s[j] /\ j \in 1..Len(s) /\ j \in 0..Len(s)
    BY <1>1, <1>2, <1>9
  <2> HIDE DEF j
  <2>2. s[j] = Around(s, j)
    BY <2>1 DEF Around
  <2>3. ListInv' /\ Abstract!Go(j)
    BY <1>4, <1>9, <2>1, <2>2
  <2>4. Abstract!Step
    BY <1>1, <2>1, <2>3 DEF Abstract!Step, j, c
  <2> QED BY <1>5, <2>3, <2>4
<1>10. ASSUME list.m_pCurrent # Tag, ~IsHead(list), CursorTo(list.prev[list.m_pCurrent]) PROVE ListInv' /\ Seen
  <2> DEFINE j == c - 1
  <2>1. c > 1 /\ list.prev[list.m_pCurrent] = s[j] /\ j \in 1..Len(s) /\ j \in 0..Len(s)
    BY <1>1, <1>2, <1>10
  <2> HIDE DEF j
  <2>2. s[j] = Around(s, j)
    BY <2>1 DEF Around
  <2>3. ListInv' /\ Abstract!Go(j)
    BY <1>4, <1>10, <2>1, <2>2
  <2>4. Abstract!Step
    BY <1>1, <2>1, <2>3 DEF Abstract!Step, j, c
  <2> QED BY <1>5, <2>3, <2>4
<1>11. ASSUME NEW i \in 1..Len(s), CursorTo(s[i]) PROVE ListInv' /\ Seen
  <2>1. s[i] = Around(s, i) /\ i \in 0..Len(s)
    BY <1>1, <1>11 DEF Around
  <2>2. ListInv' /\ Abstract!Go(i)
    BY <1>4, <1>11, <2>1
  <2>3. Abstract!Step
    BY <1>1, <2>2 DEF Abstract!Step
  <2> QED BY <1>5, <2>2, <2>3
<1>12. CASE list.m_count > 0 /\ (CursorTo(list.m_pHead) \/ CursorTo(list.m_pTail))
  BY <1>1, <1>6, <1>7, <1>12
<1>13. CASE CursorTo(list.m_pHead)
  BY <1>6, <1>8, <1>13
<1>14. CASE \E i \in 1..list.m_count : CursorTo(Onward(list, list.m_pHead)[i])
  BY <1>1, <1>3, <1>11, <1>14
<1> QED BY <1>9, <1>10, <1>12, <1>13, <1>14 DEF Move

\* contain: from the cursor on.
LEMMA SearchSeen ==
    ASSUME NEW s, ListIs(s), NEW v \in ListValues, Search(v)
    PROVE  ListInv' /\ Seen
<1> DEFINE c == CursorOf(list)
           e == FirstFrom(list, list.m_pCurrent, {v})
<1>1. /\ Ring(list, s) /\ Len(s) \in Nat /\ s \in Seq(Entries) /\ list.m_count = Len(s)
      /\ Len(ItemsOf(list)) = Len(s) /\ DOMAIN ItemsOf(list) = 1..Len(s)
      /\ c \in 0..Len(s) /\ (list.m_pCurrent = Tag <=> c = 0) /\ list.m_pCurrent = Around(s, c)
      /\ \A i \in 1..Len(s) : /\ s[i] \in ToSet(s)
                              /\ ItemsOf(list)[i] = [id |-> s[i], value |-> list.value[s[i]]]
      /\ list.used = ToSet(s) /\ kept \in ToSet(s) \cup {Null} /\ DOMAIN list = RingFields
  BY CursorIs DEF ListIs, Listed, Ring
<1>2. CursorTo(e)
  <2>1. list' = [list EXCEPT !.m_pCurrent = e]
    BY DEF Search, Becomes, Contain
  <2>2. list'.used = list.used
    BY <1>1, <2>1 DEF RingFields
  <2>3. kept' = kept
    BY <1>1, <2>2 DEF Search, Becomes
  <2> QED BY <2>1, <2>3 DEF CursorTo
<1>3. Around(s, 0) = Tag /\ Around(s, Len(s) + 1) = Tag /\ 0 \in 0..Len(s)
  <2>1. 0 \notin 1..Len(s) /\ Len(s) + 1 \notin 1..Len(s) /\ 0 \in 0..Len(s)
    BY <1>1
  <2> QED BY <2>1 DEF Around
<1> HIDE DEF c
<1>4. CASE c = 0
  <2> DEFINE p == Len(s) + 1
  <2>1. p \in 1..Len(s) + 1 /\ \A i \in p..Len(s) : FALSE
    BY <1>1
  <2>2. list.m_pCurrent = Around(s, p)
    BY <1>1, <1>3, <1>4
  <2> HIDE DEF p
  <2>3. FirstFrom(list, Around(s, p), {v}) = Tag
    BY <1>1, <2>1, FirstFromIs
  <2> QED BY <1>2, <1>4, <2>2, <2>3, StaySeen DEF c
<1>5. CASE c # 0
  <2>1. c \in 1..Len(s) + 1 /\ \A i \in c..Len(s) : i \in 1..Len(s) /\ i \in 0..Len(s)
    BY <1>1, <1>5
  <2>2. \/ e = Tag /\ \A i \in c..Len(s) : list.value[s[i]] # v
        \/ \E j \in c..Len(s) : /\ e = s[j] /\ list.value[s[j]] = v
                                /\ \A i \in c..j - 1 : list.value[s[i]] # v
    <3>1. \/ /\ FirstFrom(list, Around(s, c), {v}) = Tag
             /\ \A i \in c..Len(s) : list.value[s[i]] \notin {v}
          \/ \E j \in c..Len(s) : /\ FirstFrom(list, Around(s, c), {v}) = s[j]
                                  /\ list.value[s[j]] \in {v}
                                  /\ \A i \in c..j - 1 : list.value[s[i]] \notin {v}
      BY <1>1, <2>1, FirstFromIs
    <3> QED BY <1>1, <3>1
  <2> DEFINE hits == {i \in c..Len(s) : ItemsOf(list)[i].value = v}
  <2>3. \A i \in c..Len(s) : i \in hits <=> list.value[s[i]] = v
    BY <1>1, <2>1
  <2>4. ASSUME NEW j \in 0..Len(s), Abstract!Go(j),
               \/ hits = {} /\ j = 0
               \/ j \in hits /\ \A i \in hits : j <= i
        PROVE  Seen
    <3>1. Abstract!Contain
      BY <1>1, <1>5, <2>4 DEF Abstract!Contain, c
    <3> QED BY <2>4, <3>1 DEF Seen, Abstract!Search, Abstract!Go
  <2>5. \A i \in hits : i \in c..Len(s)
    OBVIOUS
  <2> HIDE DEF hits, e
  <2>6. CASE e = Tag /\ \A i \in c..Len(s) : list.value[s[i]] # v
    <3>1. hits = {}
      BY <2>3, <2>5, <2>6
    <3>2. ListInv' /\ Abstract!Go(0)
      BY <1>2, <1>3, <2>6, MoveRefines
    <3> QED BY <1>3, <2>4, <3>1, <3>2
  <2>7. ASSUME NEW j \in c..Len(s), e = s[j], list.value[s[j]] = v,
               \A i \in c..j - 1 : list.value[s[i]] # v
        PROVE  ListInv' /\ Seen
    <3>1. j \in hits /\ j \in 1..Len(s) /\ j \in 0..Len(s)
      BY <2>1, <2>3, <2>7
    <3>2. \A i \in hits : j <= i
      <4>1. \A i \in c..Len(s) : i \in c..j - 1 \/ j <= i
        BY <1>1, <3>1
      <4> QED BY <2>3, <2>5, <2>7, <4>1
    <3>3. s[j] = Around(s, j)
      BY <3>1 DEF Around
    <3>4. ListInv' /\ Abstract!Go(j)
      BY <1>2, <2>7, <3>1, <3>3, MoveRefines
    <3> QED BY <2>4, <3>1, <3>2, <3>4
  <2> QED BY <2>2, <2>6, <2>7
<1> QED BY <1>4, <1>5

\* A sequence of elements in which one has another value.
LEMMA OtherValue ==
    ASSUME NEW t \in Seq(Element), NEW i \in 1..Len(t), NEW v \in ListValues
    PROVE  LET w == [t EXCEPT ![i].value = v] IN
           /\ w \in Seq(Element) /\ Len(w) = Len(t)
           /\ \A n \in 1..Len(t) : w[n] = IF n = i THEN [id |-> t[i].id, value |-> v] ELSE t[n]
<1> DEFINE w == [t EXCEPT ![i].value = v]
<1>1. Len(t) \in Nat /\ DOMAIN t = 1..Len(t) /\ t[i] \in Element
  OBVIOUS
<1>2. [id |-> t[i].id, value |-> v] \in Element /\ [t[i] EXCEPT !.value = v] = [id |-> t[i].id, value |-> v]
  BY <1>1 DEF Element
<1>3. w = [t EXCEPT ![i] = [id |-> t[i].id, value |-> v]]
  BY <1>1, <1>2
<1>4. [t EXCEPT ![i] = [id |-> t[i].id, value |-> v]] \in Seq(Element)
  BY <1>1, <1>2, ExceptSeq
<1> QED BY <1>1, <1>3, <1>4

\* A value assigned at a position.
LEMMA SetSeen ==
    ASSUME NEW s, ListIs(s), NEW i \in 1..list.m_count, NEW v \in ListValues, SetValue(i, v)
    PROVE  ListInv' /\ Seen
<1>1. /\ Ring(list, s) /\ Len(s) \in Nat /\ s \in Seq(Entries) /\ IsInjective(s) /\ list.m_count = Len(s)
      /\ ItemsOf(list) \in Seq(Element) /\ Len(ItemsOf(list)) = Len(s) /\ DOMAIN ItemsOf(list) = 1..Len(s)
      /\ \A n \in 1..Len(s) : /\ s[n] \in ToSet(s)
                              /\ ItemsOf(list)[n] = [id |-> s[n], value |-> list.value[s[n]]]
      /\ list.used = ToSet(s) /\ kept \in ToSet(s) \cup {Null} /\ DOMAIN list = RingFields
      /\ list = [f \in RingFields |-> list[f]]
      /\ ToSet(s) \subseteq Entries /\ DOMAIN list.value = Entries
      /\ \A e \in ToSet(s) : list.value[e] \in ListValues
      /\ list.value = [x \in Entries |-> list.value[x]]
  BY CursorIs DEF ListIs, Listed, Ring
<1> DEFINE e == s[i]
<1>2. i \in 1..Len(s) /\ e \in ToSet(s) /\ e \in Entries
  BY <1>1
<1>3. list' = [list EXCEPT !.m_pCurrent = e, !.value[e] = v] /\ kept' = kept
  <2>1. Onward(list, list.m_pHead) = s
    BY <1>1, OnwardIs
  <2>2. list' = [list EXCEPT !.m_pCurrent = e, !.value[e] = v] /\ kept' = IF kept \in list'.used THEN kept ELSE Null
    BY <2>1 DEF SetValue, Becomes
  <2>3. list'.used = list.used
    BY <1>1, <2>2 DEF RingFields
  <2> QED BY <1>1, <2>2, <2>3
<1> HIDE DEF e
<1>4. /\ DOMAIN list' = RingFields /\ list' = [f \in RingFields |-> list'[f]]
      /\ list'.prev = list.prev /\ list'.next = list.next /\ list'.used = list.used
      /\ list'.m_count = list.m_count /\ list'.m_pHead = list.m_pHead /\ list'.m_pTail = list.m_pTail
      /\ list'.m_pCurrent = e /\ list'.value = [list.value EXCEPT ![e] = v]
  BY <1>1, <1>3 DEF RingFields
<1>5. DOMAIN list'.value = Entries /\ list'.value = [x \in Entries |-> list'.value[x]]
  <2>1. \A f : DOMAIN f = Entries => DOMAIN [f EXCEPT ![e] = v] = Entries
                                  /\ [f EXCEPT ![e] = v] = [x \in Entries |-> [f EXCEPT ![e] = v][x]]
    OBVIOUS
  <2>2. DOMAIN list.value = Entries
    BY <1>1
  <2>3. /\ DOMAIN [list.value EXCEPT ![e] = v] = Entries
        /\ [list.value EXCEPT ![e] = v] = [x \in Entries |-> [list.value EXCEPT ![e] = v][x]]
    BY <2>1, <2>2
  <2>4. list'.value = [list.value EXCEPT ![e] = v]
    BY <1>4
  <2> QED BY <2>3, <2>4
<1>6. Ring(list', s)
  BY <1>1, <1>4, <1>5 DEF Ring
<1>7. \A f \in ToSet(s) : list'.value[f] = IF f = e THEN v ELSE list.value[f]
  BY <1>1, <1>4
<1>8. Listed(list', s, kept)
  BY <1>1, <1>2, <1>4, <1>6, <1>7 DEF Listed
<1>9. /\ ItemsOf(list') \in Seq(Element) /\ Len(ItemsOf(list')) = Len(s)
      /\ \A n \in 1..Len(s) : ItemsOf(list')[n] = [id |-> s[n], value |-> list'.value[s[n]]]
  BY <1>8, CursorIs
<1>10. CursorOf(list') = i
  <2>1. CursorOf(list') = PlaceOrNone(s, e)
    BY <1>4, <1>8, SeenAs
  <2>2. e = Around(s, i) /\ i \in 0..Len(s)
    BY <1>1, <1>2 DEF Around, e
  <2> QED BY <1>1, <2>1, <2>2, PlaceAround
<1>11. ItemsOf(list') = [ItemsOf(list) EXCEPT ![i].value = v]
  <2> DEFINE t == ItemsOf(list)
             w == [t EXCEPT ![i].value = v]
  <2>1. \A n \in 1..Len(s) : n # i => s[n] # e
    BY <1>1, <1>2 DEF IsInjective, e
  <2>2. t \in Seq(Element) /\ i \in 1..Len(t) /\ Len(t) = Len(s)
    BY <1>1, <1>2
  <2> HIDE DEF t
  <2>3. /\ w \in Seq(Element) /\ Len(w) = Len(s)
        /\ \A n \in 1..Len(s) : w[n] = IF n = i THEN [id |-> t[i].id, value |-> v] ELSE t[n]
    BY <2>2, OtherValue
  <2> HIDE DEF w
  <2>4. ASSUME NEW n \in 1..Len(s) PROVE ItemsOf(list')[n] = w[n]
    <3>1. /\ ItemsOf(list')[n] = [id |-> s[n], value |-> list'.value[s[n]]]
          /\ t[n] = [id |-> s[n], value |-> list.value[s[n]]] /\ s[n] \in ToSet(s)
      BY <1>1, <1>9 DEF t
    <3>2. list'.value[s[n]] = IF s[n] = e THEN v ELSE list.value[s[n]]
      BY <1>7, <3>1
    <3>3. t[n].id = s[n]
      BY <3>1
    <3> QED BY <2>1, <2>3, <3>1, <3>2, <3>3 DEF e
  <2>5. ItemsOf(list') = w
    BY <1>9, <2>3, <2>4, SeqEqual
  <2> QED BY <2>5 DEF w, t
<1>12. ListInv'
  BY <1>3, <1>8 DEF ListInv, ListIs
<1>13. Abstract!Set
  <2>1. i \in DOMAIN ItemsOf(list)
    BY <1>1, <1>2
  <2> QED BY <1>3, <1>10, <1>11, <2>1 DEF Abstract!Set
<1> QED BY <1>12, <1>13 DEF Seen

\* get_current_handle.
LEMMA HandleSeen ==
    ASSUME NEW s, ListIs(s), GetCurrentHandle
    PROVE  ListInv' /\ Seen
<1> DEFINE c == CursorOf(list)
<1>1. /\ Listed(list, s, kept)
      /\ \A n \in 1..Len(s) : /\ s[n] \in ToSet(s)
                              /\ ItemsOf(list)[n] = [id |-> s[n], value |-> list.value[s[n]]]
      /\ (list.m_pCurrent = Tag <=> c = 0)
  BY CursorIs DEF ListIs
<1>2. list' = list /\ kept' = list.m_pCurrent /\ c # 0
  BY <1>1 DEF GetCurrentHandle
<1>3. c \in 1..Len(s) /\ list.m_pCurrent = s[c]
  BY <1>2, CursorAt
<1> HIDE DEF c
<1>4. ItemsOf(list)[c] = [id |-> s[c], value |-> list.value[s[c]]] /\ s[c] \in ToSet(s)
  BY <1>1, <1>3
<1>5. kept' \in ToSet(s) /\ kept' = ItemsOf(list)[c].id
  BY <1>2, <1>3, <1>4
<1>6. ListInv'
  <2>1. Listed(list', s, kept')
    BY <1>1, <1>2, <1>5 DEF Listed
  <2> QED BY <2>1 DEF ListInv, ListIs
<1>7. Abstract!GetHandle
  BY <1>2, <1>5 DEF Abstract!GetHandle, c
<1>8. Abstract!Search
  BY <1>2, <1>7 DEF Abstract!Search
<1> QED BY <1>6, <1>8 DEF Seen

\* reset.
LEMMA ResetSeen ==
    ASSUME NEW b, NEW s, NEW h, Listed(b, s, h)
    PROVE  LET j == IF Len(s) = 0 THEN 0 ELSE 1 IN
           /\ Listed(Reset(b), s, h) /\ Reset(b).used = b.used /\ Reset(b).value = b.value
           /\ j \in 0..Len(s) /\ Reset(b).m_pCurrent = Around(s, j)
           /\ ItemsOf(Reset(b)) = ItemsOf(b) /\ CursorOf(Reset(b)) = j
<1> DEFINE j == IF Len(s) = 0 THEN 0 ELSE 1
<1>1. Len(s) \in Nat /\ b.m_pHead = Around(s, 1)
  BY CursorIs
<1>2. j \in 0..Len(s) /\ Around(s, j) = Around(s, 1)
  <2>1. j \in 0..Len(s) /\ (Len(s) = 0 => 0 \notin 1..Len(s) /\ 1 \notin 1..Len(s))
    BY <1>1
  <2> QED BY <2>1 DEF Around
<1> HIDE DEF j
<1>3. Reset(b) = [b EXCEPT !.m_pCurrent = Around(s, j)]
  BY <1>1, <1>2 DEF Reset
<1>4. LET u == [b EXCEPT !.m_pCurrent = Around(s, j)] IN
           /\ Listed(u, s, h) /\ u.used = b.used /\ u.value = b.value
           /\ u.m_pCurrent = Around(s, j)
           /\ ItemsOf(u) = ItemsOf(b) /\ CursorOf(u) = j
  BY <1>2, MoveSeen
<1> QED BY <1>2, <1>3, <1>4 DEF j

\* The element of a handle removed.
LEMMA UseSeen ==
    ASSUME NEW s, ListIs(s), UseHandle
    PROVE  ListInv' /\ Seen
<1> DEFINE c == Place(s, kept)
           b == [list EXCEPT !.m_pCurrent = kept]
           p == PopCurrent(b)
           w == WithoutKey(s, s[c])
<1>1. /\ Listed(list, s, kept) /\ Ring(list, s)
      /\ Len(s) \in Nat /\ s \in Seq(Entries) /\ IsInjective(s) /\ DOMAIN s = 1..Len(s)
      /\ Len(ItemsOf(list)) = Len(s) /\ DOMAIN ItemsOf(list) = 1..Len(s)
      /\ \A n \in 1..Len(s) : /\ s[n] \in ToSet(s)
                              /\ ItemsOf(list)[n] = [id |-> s[n], value |-> list.value[s[n]]]
      /\ kept \in ToSet(s) \cup {Null} /\ Null \notin Entries
  BY CursorIs, EntriesAssumption DEF ListIs, Listed
<1>2. kept # Null /\ kept \in ToSet(s)
  BY <1>1 DEF UseHandle
<1>3. c \in 1..Len(s) /\ s[c] = kept
  BY <1>1, <1>2, PlaceIs
<1>4. /\ list' = Reset(p) /\ kept' = IF kept \in list'.used THEN kept ELSE Null
  BY DEF UseHandle, RemoveByHandle, Becomes
<1> HIDE DEF c
<1>5. Listed(b, s, kept) /\ ItemsOf(b) = ItemsOf(list) /\ b.m_pCurrent = s[c]
  <2>1. c \in 0..Len(s) /\ Around(s, c) = kept
    BY <1>1, <1>3 DEF Around
  <2>2. LET u == [list EXCEPT !.m_pCurrent = Around(s, c)] IN
           /\ Listed(u, s, kept) /\ u.used = list.used /\ u.value = list.value
           /\ u.m_pCurrent = Around(s, c)
           /\ ItemsOf(u) = ItemsOf(list) /\ CursorOf(u) = c
    BY <1>1, <2>1, MoveSeen
  <2> QED BY <1>3, <2>1, <2>2
<1> HIDE DEF b
<1>6. TakenAt(b, s, p, c)
  <2>1. Ring(b, s)
    BY <1>5 DEF Listed
  <2> QED BY <1>3, <1>5, <2>1, PopCurrentTakes
<1> HIDE DEF p
<1>7. /\ Listed(p, w, StillKept(kept, p.used))
      /\ Len(ItemsOf(p)) = Len(s) - 1
      /\ ItemsOf(p) = RemoveAt(ItemsOf(list), c)
  BY <1>3, <1>5, <1>6, TakeSeen
<1>8. Len(w) = Len(s) - 1 /\ ToSet(w) = ToSet(s) \ {kept} /\ w \in Seq(Entries)
  <2>1. w = WithoutKey(s, kept)
    BY <1>3
  <2>2. /\ Len(WithoutKey(s, kept)) = Len(s) - 1 /\ ToSet(WithoutKey(s, kept)) = ToSet(s) \ {kept}
        /\ WithoutKey(s, kept) \in Seq(Entries)
    BY <1>1, <1>2, WithoutKeyIs
  <2> QED BY <2>1, <2>2
<1> HIDE DEF w
<1>9. p.used = ToSet(w)
  BY <1>7, IdsAre
<1>10. Listed(p, w, Null)
  BY <1>7, <1>8, <1>9 DEF StillKept
<1>11. /\ Listed(list', w, Null) /\ list'.used = p.used /\ ItemsOf(list') = ItemsOf(p)
       /\ CursorOf(list') = IF Len(w) = 0 THEN 0 ELSE 1
  BY <1>4, <1>10, ResetSeen
<1>12. kept' = Null
  BY <1>4, <1>8, <1>9, <1>11
<1>13. ListInv'
  BY <1>11, <1>12 DEF ListInv, ListIs
<1>14. ItemsOf(list') = <<>> <=> Len(w) = 0
  <2>1. ItemsOf(list') \in Seq(Element) /\ Len(ItemsOf(list')) = Len(w)
    BY <1>11, CursorIs
  <2> QED BY <2>1
<1>15. ItemsOf(list') = RemoveAt(ItemsOf(list), c) /\ ItemsOf(list)[c].id = kept
  <2>1. ItemsOf(list)[c] = [id |-> s[c], value |-> list.value[s[c]]]
    BY <1>1, <1>3
  <2> QED BY <1>3, <1>7, <1>11, <2>1
<1>16. Abstract!RemoveByHandle
  BY <1>1, <1>2, <1>3, <1>11, <1>12, <1>14, <1>15 DEF Abstract!RemoveByHandle, Abstract!RemoveAt, RemoveAt
<1>17. Len(ItemsOf(list')) < Len(ItemsOf(list))
  BY <1>1, <1>7, <1>11
<1> QED BY <1>13, <1>16, <1>17 DEF Seen, Abstract!Removal

\* Entries without repetition are as many as their places.
LEMMA AsManyPlaces ==
    ASSUME NEW s \in Seq(Entries), IsInjective(s)
    PROVE  Cardinality(ToSet(s)) = Len(s)
<1>1. Len(s) \in Nat /\ DOMAIN s = 1..Len(s)
  OBVIOUS
<1>2. IsFiniteSet(1..Len(s)) /\ Cardinality(1..Len(s)) = Len(s)
  BY <1>1, FirstPlaces
<1>3. s \in Bijection(1..Len(s), ToSet(s))
  BY <1>1 DEF IsInjective, Bijection, Injection, Surjection, ToSet
<1>4. ExistsBijection(1..Len(s), ToSet(s))
  BY <1>3 DEF ExistsBijection
<1> QED BY <1>2, <1>4, FS_Bijection

\* Popping one of a list of which the application has no handle.
LEMMA PopOne ==
    ASSUME NEW b, NEW w, Listed(b, w, Null), Len(w) # 0
    PROVE  \E z : Listed(PopFront(b), z, Null) /\ Len(z) = Len(w) - 1
<1> DEFINE u == PopFront(b)
           z == WithoutKey(w, w[1])
<1>1. Ring(b, w) /\ w \in Seq(Entries) /\ IsInjective(w) /\ Len(w) \in Nat /\ w # <<>> /\ 1 \in 1..Len(w) /\ w[1] \in ToSet(w)
  <2>1. Ring(b, w) /\ w \in Seq(Entries) /\ IsInjective(w) /\ Len(w) \in Nat
    BY CursorIs DEF Listed
  <2>2. \A n \in Nat : n # 0 => 1 \in 1..n
    OBVIOUS
  <2> QED BY <2>1, <2>2 DEF ToSet
<1>2. TakenAt(b, w, u, 1)
  BY <1>1, PopEnds
<1> HIDE DEF u
<1>3. Listed(u, z, StillKept(Null, u.used))
  BY <1>1, <1>2, TakeSeen
<1>4. Len(z) = Len(w) - 1
  <2> DEFINE e == w[1]
  <2>1. e \in ToSet(w)
    BY <1>1
  <2> HIDE DEF e
  <2>2. Len(WithoutKey(w, e)) = Len(w) - 1
    BY <1>1, <2>1, WithoutKeyIs
  <2> QED BY <2>2 DEF e
<1>5. StillKept(Null, u.used) = Null
  BY DEF StillKept
<1> QED BY <1>3, <1>4, <1>5 DEF u

\* remove_all.
LEMMA RemoveAllIs ==
    ASSUME NEW b, NEW s, NEW h, Listed(b, s, h)
    PROVE  Listed(RemoveAll(b), <<>>, Null)
<1> DEFINE n == b.m_count
           popped[i \in 0..b.m_count] == IF i = 0 THEN b ELSE PopFront(popped[i - 1])
           bad == {i \in 0..n : ~\E w : Listed(popped[i], w, Null) /\ Len(w) = n - i}
<1>1. n = Len(s) /\ Len(s) \in Nat
  BY CursorIs
<1>2. RemoveAll(b) = popped[n]
  BY DEF RemoveAll
<1>3. Repeats(popped, b, n)
  <2>1. PICK g : Repeats(g, b, n)
    BY <1>1, RepeatsIs
  <2>2. popped = CHOOSE f : f = [i \in 0..n |-> IF i = 0 THEN b ELSE PopFront(f[i - 1])]
    BY DEF popped
  <2> HIDE DEF popped, n
  <2> QED BY <2>1, <2>2 DEF Repeats
<1> HIDE DEF popped, n
<1>4. Listed(b, s, Null)
  BY DEF Listed
<1>5. bad = {}
  <2> SUFFICES ASSUME bad # {} PROVE FALSE
    OBVIOUS
  <2>1. PICK i \in bad : \A j \in bad : i <= j
    <3>1. bad \subseteq 0..n
      OBVIOUS
    <3> HIDE DEF bad
    <3> QED BY <1>1, <3>1, FirstOfPlaces
  <2>2. i \in 0..n /\ ~\E w : Listed(popped[i], w, Null) /\ Len(w) = n - i
    OBVIOUS
  <2>3. popped[i] = IF i = 0 THEN b ELSE PopFront(popped[i - 1])
    BY <1>3, <2>2 DEF Repeats
  <2>4. CASE i = 0
    <3>1. Len(s) = n - i
      BY <1>1, <2>4
    <3> QED BY <1>4, <2>2, <2>3, <2>4, <3>1
  <2>5. CASE i # 0
    <3>1. i - 1 \in 0..n /\ ~(i <= i - 1) /\ n - (i - 1) # 0 /\ (n - (i - 1)) - 1 = n - i
      BY <1>1, <2>2, <2>5
    <3>2. i - 1 \notin bad
      <4> HIDE DEF bad
      <4> QED BY <2>1, <3>1
    <3>3. PICK w : Listed(popped[i - 1], w, Null) /\ Len(w) = n - (i - 1)
      BY <3>1, <3>2
    <3> HIDE DEF bad
    <3>4. \E z : Listed(PopFront(popped[i - 1]), z, Null) /\ Len(z) = Len(w) - 1
      BY <3>1, <3>3, PopOne
    <3> QED BY <2>2, <2>3, <2>5, <3>1, <3>3, <3>4
  <2> QED BY <2>4, <2>5
<1>6. PICK w : Listed(popped[n], w, Null) /\ Len(w) = 0
  <2>1. n \in 0..n /\ n \notin bad /\ n - n = 0
    BY <1>1, <1>5
  <2> QED BY <2>1
<1>7. w = <<>>
  BY <1>6, CursorIs, EmptySeq
<1> QED BY <1>2, <1>6, <1>7

\* The list and its cursor after an element has been put in.
LEMMA PutListed ==
    ASSUME NEW b, NEW s, NEW h, Listed(b, s, h), NEW x \in ListValues, NEW u, NEW c \in 0..Len(s),
           PutIn(b, s, u, c, x)
    PROVE  Listed(u, With(s, c, u.m_pCurrent), h) /\ CursorOf(u) = c + 1
<1> DEFINE e == u.m_pCurrent
           new == [id |-> e, value |-> x]
           w == With(s, c, e)
<1>1. /\ e \in Entries \ ToSet(s) /\ Listed(u, w, h)
      /\ Len(ItemsOf(b)) = Len(s) /\ Len(ItemsOf(u)) = Len(s) + 1
      /\ ItemsOf(u) = InsertAt(ItemsOf(b), c + 1, new) /\ ItemsOf(u)[c + 1] = new
      /\ CursorOf(u) = c + 1
  BY PutSeen
<1> QED BY <1>1

\* operator=, of no more values than there is memory for.
LEMMA AssignIs ==
    ASSUME NEW b, NEW s, NEW h, Listed(b, s, h), NEW n \in Nat, n <= Cardinality(Entries),
           NEW vs \in [1..n -> ListValues]
    PROVE  LET u == Assign(b, vs) IN
           \E w : Listed(u, w, Null) /\ Len(w) = n /\ CursorOf(u) = n
<1> DEFINE a == RemoveAll(b)
           m == Len(vs)
           filled[i \in 0..Len(vs)] == IF i = 0 THEN RemoveAll(b) ELSE PushBack(filled[i - 1], vs[i])
           Good(i) == \E w : Listed(filled[i], w, Null) /\ Len(w) = i /\ CursorOf(filled[i]) = i
           bad == {i \in 0..n : ~Good(i)}
<1>1. m = n
  OBVIOUS
<1>2. Assign(b, vs) = filled[m]
  BY DEF Assign
<1>3. Turns(filled, "push", a, vs, m)
  <2>1. PICK g : Turns(g, "push", a, vs, m)
    <3>1. m \in Nat
      BY <1>1
    <3> HIDE DEF m, a
    <3> QED BY <3>1, TurnsAre
  <2>2. filled = CHOOSE f : f = [i \in 0..m |-> IF i = 0 THEN a ELSE PushBack(f[i - 1], vs[i])]
    BY DEF filled
  <2> HIDE DEF filled, a, m
  <2>3. \A f, i : Turn("push", f[i - 1], vs, i) = PushBack(f[i - 1], vs[i])
    BY DEF Turn
  <2>4. \A f : Turns(f, "push", a, vs, m) <=> f = [i \in 0..m |-> IF i = 0 THEN a ELSE PushBack(f[i - 1], vs[i])]
    BY <2>3 DEF Turns
  <2> QED BY <2>1, <2>2, <2>4
<1> HIDE DEF filled, a, m
<1>4. Listed(a, <<>>, Null)
  BY RemoveAllIs DEF a
<1>5. ASSUME NEW p, NEW w, Listed(p, w, Null), Len(w) < n, NEW v \in ListValues
      PROVE  LET u == PushBack(p, v) IN
             \E z : Listed(u, z, Null) /\ Len(z) = Len(w) + 1 /\ CursorOf(u) = Len(w) + 1
  <2>1. /\ Ring(p, w) /\ w \in Seq(Entries) /\ IsInjective(w) /\ Len(w) \in Nat /\ p.used = ToSet(w)
        /\ Len(w) \in 0..Len(w)
    BY <1>5, CursorIs DEF Listed, Ring
  <2>2. p.used # Entries
    <3>1. Cardinality(ToSet(w)) = Len(w)
      BY <2>1, AsManyPlaces
    <3>2. Cardinality(Entries) # Len(w)
      <4>1. Cardinality(Entries) \in Nat
        BY EntriesAssumption, FS_CardinalityType
      <4> QED BY <1>5, <2>1, <4>1
    <3> QED BY <2>1, <3>1, <3>2
  <2> DEFINE u == PushBack(p, v)
             e == u.m_pCurrent
             z == With(w, Len(w), e)
  <2>3. PutIn(p, w, u, Len(w), v)
    BY <2>1, <2>2, PushBackPuts
  <2>4. Listed(u, z, Null) /\ CursorOf(u) = Len(w) + 1
    <3> DEFINE c == Len(w)
    <3>1. c \in 0..Len(w) /\ PutIn(p, w, u, c, v)
      BY <2>1, <2>3
    <3> HIDE DEF u, c
    <3>2. Listed(u, With(w, c, u.m_pCurrent), Null) /\ CursorOf(u) = c + 1
      BY <1>5, <3>1, PutListed
    <3> QED BY <3>2 DEF c
  <2>5. Len(z) = Len(w) + 1
    <3>1. z = [i \in 1..Len(w) + 1 |-> z[i]] /\ Len(w) + 1 \in Nat
      BY <2>1 DEF With
    <3> HIDE DEF z
    <3> QED BY <3>1
  <2> QED BY <2>4, <2>5
<1>6. bad = {}
  <2> SUFFICES ASSUME bad # {} PROVE FALSE
    OBVIOUS
  <2> HIDE DEF Good
  <2>1. PICK i \in bad : \A j \in bad : i <= j
    <3>1. bad \subseteq 0..n
      OBVIOUS
    <3> HIDE DEF bad
    <3> QED BY <1>1, <3>1, FirstOfPlaces
  <2>2. i \in 0..n /\ ~Good(i)
    OBVIOUS
  <2>3. filled[i] = IF i = 0 THEN a ELSE PushBack(filled[i - 1], vs[i])
    BY <1>1, <1>3, <2>2 DEF Turns, Turn
  <2>4. CASE i = 0
    <3>1. Len(<<>>) = 0 /\ CursorOf(a) \in 0..Len(<<>>)
      BY <1>4, CursorIs
    <3>2. CursorOf(a) = 0
      BY <3>1
    <3> QED BY <1>4, <2>2, <2>3, <2>4, <3>1, <3>2 DEF Good
  <2>5. CASE i # 0
    <3>1. i - 1 \in 0..n /\ ~(i <= i - 1) /\ i - 1 < n /\ (i - 1) + 1 = i /\ i \in 1..n
      BY <1>1, <2>2, <2>5
    <3>2. i - 1 \notin bad
      <4> HIDE DEF bad
      <4> QED BY <2>1, <3>1
    <3>3. Good(i - 1)
      BY <3>1, <3>2
    <3>4. PICK w : Listed(filled[i - 1], w, Null) /\ Len(w) = i - 1
      BY <3>3 DEF Good
    <3> HIDE DEF bad
    <3>5. vs[i] \in ListValues
      BY <3>1
    <3>6. LET u == PushBack(filled[i - 1], vs[i]) IN
          \E z : Listed(u, z, Null) /\ Len(z) = Len(w) + 1 /\ CursorOf(u) = Len(w) + 1
      BY <1>5, <3>1, <3>4, <3>5
    <3> QED BY <2>2, <2>3, <2>5, <3>1, <3>4, <3>6 DEF Good
  <2> QED BY <2>4, <2>5
<1>7. Good(n)
  <2>1. n \in 0..n /\ n \notin bad
    BY <1>6
  <2> HIDE DEF Good
  <2> QED BY <2>1
<1> QED BY <1>1, <1>2, <1>7

\* operator= as CursorList sees it.
LEMMA AssignSeen ==
    ASSUME NEW s, ListIs(s), AssignOther
    PROVE  ListInv' /\ Seen
<1>0. PICK n \in 0..Min({2, Cardinality(Entries)}) :
          \E vs \in [1..n -> ListValues] : list' = Assign(list, vs) /\ kept' = Null
  BY DEF AssignOther
<1>1. PICK vs \in [1..n -> ListValues] : list' = Assign(list, vs) /\ kept' = Null
  BY <1>0
<1>2. n \in Nat /\ n <= 2 /\ n <= Cardinality(Entries)
  <2> DEFINE N == Cardinality(Entries)
             S == {2, N}
  <2>1. N \in Nat
    BY EntriesAssumption, FS_CardinalityType
  <2> HIDE DEF N
  <2>2. Min(S) = IF 2 <= N THEN 2 ELSE N
    <3>1. \A x \in S : (\A y \in S : x =< y) <=> x = IF 2 <= N THEN 2 ELSE N
      BY <2>1
    <3>2. (IF 2 <= N THEN 2 ELSE N) \in S
      OBVIOUS
    <3> HIDE DEF S
    <3> QED BY <3>1, <3>2 DEF Min
  <2>3. n \in 0..Min(S)
    BY <1>0 DEF N
  <2> HIDE DEF S
  <2>4. n \in Nat /\ n <= 2 /\ n <= N
    BY <2>1, <2>2, <2>3
  <2> QED BY <2>4 DEF N
<1>3. Listed(list, s, kept)
  BY DEF ListIs
<1>4. PICK w : Listed(list', w, Null) /\ Len(w) = n /\ CursorOf(list') = n
  BY <1>1, <1>2, <1>3, AssignIs
<1>5. /\ ItemsOf(list') \in Seq(Element) /\ Len(ItemsOf(list')) = Len(w)
      /\ w \in Seq(Entries) /\ IsInjective(w)
  BY <1>4, CursorIs
<1>6. \A i, j \in DOMAIN ItemsOf(list') : ItemsOf(list')[i].id = ItemsOf(list')[j].id => i = j
  <2>1. /\ DOMAIN ItemsOf(list') = 1..Len(w) /\ DOMAIN w = 1..Len(w)
        /\ \A i \in 1..Len(w) : ItemsOf(list')[i] = [id |-> w[i], value |-> list'.value[w[i]]]
    BY <1>4, CursorIs
  <2>2. \A i \in 1..Len(w) : ItemsOf(list')[i].id = w[i]
    BY <2>1
  <2> QED BY <1>5, <2>1, <2>2 DEF IsInjective
<1>7. Abstract!Assign
  <2>1. CursorOf(list') = Len(ItemsOf(list')) /\ CursorOf(list') <= 2
    BY <1>2, <1>4, <1>5
  <2>2. ItemsOf(list') \in Seq([id : Entries, value : ListValues])
    BY <1>5 DEF Element
  <2>3. kept' = Null
    BY <1>1
  <2> QED BY <1>6, <2>1, <2>2, <2>3 DEF Abstract!Assign
<1>8. ListInv'
  BY <1>1, <1>4 DEF ListInv, ListIs
<1> QED BY <1>7, <1>8 DEF Seen

\* Of the list l, which is s, the list u still has the entries w, those at places f,
\* in their order and with their values, and all but some that have the value v.
Left(u, w, f, l, s, v, h) ==
    /\ Listed(u, w, StillKept(h, u.used))
    /\ f \in [1..Len(w) -> 1..Len(s)]
    /\ \A i, j \in 1..Len(w) : i < j => f[i] < f[j]
    /\ \A i \in 1..Len(w) : w[i] = s[f[i]] /\ u.value[w[i]] = l.value[w[i]]
    /\ \A p \in 1..Len(s) : l.value[s[p]] # v => \E i \in 1..Len(w) : f[i] = p
    /\ Len(w) < Len(s) \/ w = s

\* After i rounds of remove(value): at the tag, when the value is not there any more,
\* or else at an entry that has it, and i have been removed.
Round(u, i, l, s, v, h) ==
    \E w, f : /\ Left(u, w, f, l, s, v, h)
              /\ \/ u.m_pCurrent = Tag /\ \A j \in 1..Len(w) : l.value[w[j]] # v
                 \/ \E j \in 1..Len(w) : /\ u.m_pCurrent = w[j] /\ l.value[w[j]] = v
                                         /\ Len(w) <= Len(s) - i

\* Before the first.
LEMMA LeftAll ==
    ASSUME NEW l, NEW s, NEW h, Listed(l, s, h), NEW v
    PROVE  Left(l, s, [i \in 1..Len(s) |-> i], l, s, v, h)
<1>1. l.used = ToSet(s) /\ h \in ToSet(s) \cup {Null} /\ Len(s) \in Nat
  BY CursorIs DEF Listed, Ring
<1>2. StillKept(h, l.used) = h
  BY <1>1 DEF StillKept
<1> DEFINE f == [i \in 1..Len(s) |-> i]
<1>3. f \in [1..Len(s) -> 1..Len(s)] /\ \A i \in 1..Len(s) : f[i] = i
  OBVIOUS
<1> HIDE DEF f
<1>4. Left(l, s, f, l, s, v, h)
  BY <1>1, <1>2, <1>3 DEF Left
<1> QED BY <1>4 DEF f

\* The search for the value, after a reset.
LEMMA LeftSearch ==
    ASSUME NEW u, NEW w, NEW f, NEW l, NEW s, NEW v, NEW h, Left(u, w, f, l, s, v, h),
           NEW i, Len(w) <= Len(s) - i
    PROVE  Round(Contain(Reset(u), v), i, l, s, v, h)
<1> DEFINE r == Reset(u)
           e == FirstFrom(r, r.m_pCurrent, {v})
           z == Contain(r, v)
           k == StillKept(h, u.used)
           j0 == IF Len(w) = 0 THEN 0 ELSE 1
<1>1. Listed(u, w, k)
  BY DEF Left
<1> HIDE DEF k
<1>2. /\ Listed(r, w, k) /\ r.used = u.used /\ r.value = u.value
      /\ j0 \in 0..Len(w) /\ r.m_pCurrent = Around(w, j0)
  BY <1>1, ResetSeen
<1>3. /\ Ring(r, w) /\ Len(w) \in Nat /\ DOMAIN r = RingFields
  BY <1>2, CursorIs DEF Listed, Ring
<1>4. Around(w, j0) = Around(w, 1) /\ 1 \in 1..Len(w) + 1
  <2>1. /\ Len(w) = 0 => 0 \notin 1..Len(w) /\ 1 \notin 1..Len(w)
        /\ \A n \in Nat : 1 \in 1..n + 1
    BY <1>3
  <2> QED BY <1>3, <2>1 DEF Around
<1>5. \/ e = Tag /\ \A i0 \in 1..Len(w) : r.value[w[i0]] \notin {v}
      \/ \E j \in 1..Len(w) : e = w[j] /\ r.value[w[j]] \in {v}
  <2>1. \/ /\ FirstFrom(r, Around(w, 1), {v}) = Tag
           /\ \A i0 \in 1..Len(w) : r.value[w[i0]] \notin {v}
        \/ \E j \in 1..Len(w) : /\ FirstFrom(r, Around(w, 1), {v}) = w[j]
                                /\ r.value[w[j]] \in {v}
                                /\ \A i0 \in 1..j - 1 : r.value[w[i0]] \notin {v}
    <3> HIDE DEF r
    <3> QED BY <1>3, <1>4, FirstFromIs
  <2> QED BY <1>2, <1>4, <2>1
<1>6. z = [r EXCEPT !.m_pCurrent = e]
  BY DEF Contain
<1> HIDE DEF r, e, z
<1>7. \A j \in 1..Len(w) : r.value[w[j]] = l.value[w[j]]
  BY <1>2 DEF Left
<1>8. ASSUME NEW j \in 0..Len(w), e = Around(w, j)
      PROVE  Left(z, w, f, l, s, v, h) /\ z.m_pCurrent = e
  <2>1. z = [r EXCEPT !.m_pCurrent = Around(w, j)]
    BY <1>6, <1>8
  <2>2. /\ Listed(z, w, k) /\ z.used = r.used /\ z.value = r.value /\ z.m_pCurrent = Around(w, j)
    BY <1>2, <2>1, MoveSeen
  <2>3. z.used = u.used /\ z.value = u.value
    BY <1>2, <2>2
  <2> QED BY <1>8, <2>2, <2>3 DEF Left, k
<1>9. CASE e = Tag /\ \A i0 \in 1..Len(w) : r.value[w[i0]] \notin {v}
  <2>1. 0 \in 0..Len(w) /\ Around(w, 0) = Tag
    BY <1>3 DEF Around
  <2>2. Left(z, w, f, l, s, v, h) /\ z.m_pCurrent = Tag
    BY <1>8, <1>9, <2>1
  <2> QED BY <1>7, <1>9, <2>2 DEF Round, z, r
<1>10. CASE \E j \in 1..Len(w) : e = w[j] /\ r.value[w[j]] \in {v}
  <2>1. PICK j \in 1..Len(w) : e = w[j] /\ r.value[w[j]] \in {v}
    BY <1>10
  <2>2. j \in 0..Len(w) /\ e = Around(w, j)
    BY <1>3, <2>1 DEF Around
  <2>3. Left(z, w, f, l, s, v, h) /\ z.m_pCurrent = w[j]
    BY <1>8, <2>1, <2>2
  <2> QED BY <1>7, <2>1, <2>3 DEF Round, z, r
<1> QED BY <1>5, <1>9, <1>10

\* One with the value removed.
LEMMA LeftTake ==
    ASSUME NEW u, NEW w, NEW f, NEW l, NEW s, NEW v, NEW h, Left(u, w, f, l, s, v, h),
           Len(s) \in Nat,
           NEW c \in 1..Len(w), u.m_pCurrent = w[c], l.value[w[c]] = v
    PROVE  \E z, g : Left(PopCurrent(u), z, g, l, s, v, h) /\ Len(z) = Len(w) - 1
<1> DEFINE x == PopCurrent(u)
           e == w[c]
           z == WithoutKey(w, e)
           g == [i \in 1..Len(w) - 1 |-> IF i < c THEN f[i] ELSE f[i + 1]]
           k == StillKept(h, u.used)
<1>1. Listed(u, w, k)
  BY DEF Left
<1>2. /\ Ring(u, w) /\ w \in Seq(Entries) /\ IsInjective(w) /\ Len(w) \in Nat /\ DOMAIN w = 1..Len(w)
      /\ u.used = ToSet(w) /\ ToSet(w) \subseteq Entries /\ DOMAIN u.value = Entries
  <2>1. /\ Ring(u, w) /\ w \in Seq(Entries) /\ IsInjective(w)
        /\ u.used = ToSet(w) /\ DOMAIN u.value = Entries
    BY <1>1 DEF Listed, Ring
  <2>2. Len(w) \in Nat /\ DOMAIN w = 1..Len(w) /\ ToSet(w) \subseteq Entries
    BY <2>1 DEF ToSet
  <2> QED BY <2>1, <2>2
<1>3. TakenAt(u, w, x, c)
  BY <1>2, PopCurrentTakes
<1> HIDE DEF x, k
<1>4. Listed(x, z, StillKept(k, x.used))
  BY <1>1, <1>3, TakeSeen
<1>5. x.value = [u.value EXCEPT ![e] = Null]
  BY <1>3 DEF TakenAt
<1>6. e \in ToSet(w) /\ Place(w, e) = c
  BY <1>2, PlaceIs DEF ToSet
<1> HIDE DEF e
<1>7. /\ Len(z) = Len(w) - 1 /\ ToSet(z) = ToSet(w) \ {e} /\ z \in Seq(Entries)
      /\ \A i \in 1..Len(w) - 1 : z[i] = IF i < c THEN w[i] ELSE w[i + 1]
  <2>1. /\ WithoutKey(w, e) \in Seq(Entries) /\ Len(WithoutKey(w, e)) = Len(w) - 1
        /\ ToSet(WithoutKey(w, e)) = ToSet(w) \ {e}
        /\ \A i \in 1..Len(w) - 1 : WithoutKey(w, e)[i] = IF i < Place(w, e) THEN w[i] ELSE w[i + 1]
    BY <1>2, <1>6, WithoutKeyIs
  <2> QED BY <1>6, <2>1
<1> HIDE DEF z
<1>8. x.used = ToSet(z)
  BY <1>4, IdsAre
<1>9. StillKept(k, x.used) = StillKept(h, x.used)
  <2>1. Null \notin ToSet(z)
    BY <1>2, <1>7, EntriesAssumption
  <2>2. h \in x.used => h \in u.used
    BY <1>2, <1>7, <1>8
  <2> QED BY <1>8, <2>1, <2>2 DEF StillKept, k
<1>10. /\ \A i \in 1..Len(w) - 1 : i \in 1..Len(w) /\ i + 1 \in 1..Len(w)
       /\ c \in Nat /\ Len(w) - 1 \in Nat
  BY <1>2
<1>11. /\ f \in [1..Len(w) -> 1..Len(s)]
       /\ \A i, j \in 1..Len(w) : i < j => f[i] < f[j]
       /\ \A i \in 1..Len(w) : w[i] = s[f[i]] /\ u.value[w[i]] = l.value[w[i]]
       /\ \A p \in 1..Len(s) : l.value[s[p]] # v => \E i \in 1..Len(w) : f[i] = p
       /\ Len(w) < Len(s) \/ w = s
  BY DEF Left
<1>12. \A i \in 1..Len(w) - 1 : g[i] = IF i < c THEN f[i] ELSE f[i + 1]
  OBVIOUS
<1>13. g \in [1..Len(w) - 1 -> 1..Len(s)]
  BY <1>10, <1>11
<1> HIDE DEF g
<1>14. ASSUME NEW i \in 1..Len(w) - 1, NEW j \in 1..Len(w) - 1, i < j PROVE g[i] < g[j]
  <2>1. i \in 1..Len(w) /\ i + 1 \in 1..Len(w) /\ j \in 1..Len(w) /\ j + 1 \in 1..Len(w)
    BY <1>10
  <2>2. i < j + 1 /\ i + 1 < j + 1 /\ (j < c => i < c)
    BY <1>10, <1>14
  <2>3. f[i] < f[j] /\ f[i] < f[j + 1] /\ f[i + 1] < f[j + 1]
    BY <1>11, <1>14, <2>1, <2>2
  <2> QED BY <1>12, <2>2, <2>3
<1>15. ASSUME NEW i \in 1..Len(w) - 1 PROVE z[i] = s[g[i]] /\ x.value[z[i]] = l.value[z[i]]
  <2>1. i \in 1..Len(w) /\ i + 1 \in 1..Len(w)
    BY <1>10
  <2>2. z[i] = s[g[i]] /\ u.value[z[i]] = l.value[z[i]]
    BY <1>7, <1>11, <1>12, <2>1
  <2>3. z[i] \in ToSet(z)
    <3>1. DOMAIN z = 1..Len(w) - 1
      BY <1>7, <1>10
    <3> QED BY <3>1 DEF ToSet
  <2>4. z[i] # e /\ z[i] \in Entries
    BY <1>2, <1>7, <2>3
  <2> QED BY <1>2, <1>5, <2>2, <2>4
<1>16. ASSUME NEW p \in 1..Len(s), l.value[s[p]] # v PROVE \E i \in 1..Len(w) - 1 : g[i] = p
  <2>1. PICK i \in 1..Len(w) : f[i] = p
    BY <1>11, <1>16
  <2>2. i # c
    BY <1>11, <1>16, <2>1
  <2>3. CASE i < c
    <3>1. i \in 1..Len(w) - 1
      BY <1>2, <2>3
    <3> QED BY <1>12, <2>1, <2>3, <3>1
  <2>4. CASE ~(i < c)
    <3> DEFINE j == i - 1
    <3>1. j \in 1..Len(w) - 1 /\ ~(j < c) /\ j + 1 = i
      BY <1>2, <1>10, <2>1, <2>2, <2>4
    <3> HIDE DEF j
    <3> QED BY <1>12, <2>1, <3>1
  <2> QED BY <2>3, <2>4
<1>17. Len(z) < Len(s)
  BY <1>2, <1>7, <1>11
<1>18. Left(x, z, g, l, s, v, h)
  <2>1. Listed(x, z, StillKept(h, x.used))
    BY <1>4, <1>9
  <2> QED BY <1>7, <1>13, <1>14, <1>15, <1>16, <1>17, <2>1 DEF Left
<1> QED BY <1>7, <1>18 DEF x

\* A round.
LEMMA RoundNext ==
    ASSUME NEW u, NEW i \in Int, NEW l, NEW s, NEW v, NEW h, Len(s) \in Nat, Round(u, i, l, s, v, h)
    PROVE  Round(NextRound(u, v), i + 1, l, s, v, h)
<1>1. PICK w, f : /\ Left(u, w, f, l, s, v, h)
                  /\ \/ u.m_pCurrent = Tag /\ \A j \in 1..Len(w) : l.value[w[j]] # v
                     \/ \E j \in 1..Len(w) : /\ u.m_pCurrent = w[j] /\ l.value[w[j]] = v
                                             /\ Len(w) <= Len(s) - i
  BY DEF Round
<1>2. w \in Seq(Entries) /\ Len(w) \in Nat /\ \A j \in 1..Len(w) : w[j] \in Entries
  BY <1>1, CursorIs DEF Left
<1>3. CASE u.m_pCurrent = Tag
  <2>1. \A j \in 1..Len(w) : l.value[w[j]] # v
    BY <1>1, <1>2, <1>3, EntriesAssumption
  <2>2. NextRound(u, v) = u
    BY <1>3 DEF NextRound
  <2> QED BY <1>1, <1>3, <2>1, <2>2 DEF Round
<1>4. CASE u.m_pCurrent # Tag
  <2>1. PICK c \in 1..Len(w) : u.m_pCurrent = w[c] /\ l.value[w[c]] = v /\ Len(w) <= Len(s) - i
    BY <1>1, <1>4
  <2>2. PICK z, g : Left(PopCurrent(u), z, g, l, s, v, h) /\ Len(z) = Len(w) - 1
    BY <1>1, <2>1, LeftTake
  <2> DEFINE n == i + 1
  <2>3. Len(z) <= Len(s) - n
    BY <1>2, <2>1, <2>2
  <2> HIDE DEF n
  <2>4. Round(Contain(Reset(PopCurrent(u)), v), n, l, s, v, h)
    BY <2>2, <2>3, LeftSearch
  <2>5. NextRound(u, v) = Contain(Reset(PopCurrent(u)), v)
    BY <1>4 DEF NextRound
  <2> QED BY <2>4, <2>5 DEF n
<1> QED BY <1>3, <1>4

\* remove(value).
LEMMA RemoveValueIs ==
    ASSUME NEW l, NEW s, NEW h, Listed(l, s, h), NEW v
    PROVE  \E w, f : /\ Left(RemoveValue(l, v), w, f, l, s, v, h)
                     /\ RemoveValue(l, v).m_pCurrent = Tag
                     /\ \A j \in 1..Len(w) : l.value[w[j]] # v
<1> DEFINE n == l.m_count
           first == Contain(Reset(l), v)
           rounds[i \in 0..l.m_count] == IF i = 0 THEN Contain(Reset(l), v) ELSE NextRound(rounds[i - 1], v)
           bad == {i \in 0..n : ~Round(rounds[i], i, l, s, v, h)}
<1>1. n = Len(s) /\ Len(s) \in Nat
  BY CursorIs
<1>2. RemoveValue(l, v) = rounds[n]
  BY DEF RemoveValue
<1>3. Turns(rounds, "round", first, v, n)
  <2>1. PICK g : Turns(g, "round", first, v, n)
    BY <1>1, TurnsAre
  <2>2. rounds = CHOOSE f : f = [i \in 0..n |-> IF i = 0 THEN first ELSE NextRound(f[i - 1], v)]
    BY DEF rounds
  <2> HIDE DEF rounds, first, n
  <2>3. \A f, i : Turn("round", f[i - 1], v, i) = NextRound(f[i - 1], v)
    BY DEF Turn
  <2>4. \A f : Turns(f, "round", first, v, n) <=> f = [i \in 0..n |-> IF i = 0 THEN first ELSE NextRound(f[i - 1], v)]
    BY <2>3 DEF Turns
  <2> QED BY <2>1, <2>2, <2>4
<1> HIDE DEF rounds, n
<1>4. Round(first, 0, l, s, v, h)
  <2> DEFINE f == [i \in 1..Len(s) |-> i]
             i0 == 0
  <2>1. Left(l, s, f, l, s, v, h)
    BY LeftAll
  <2>2. Len(s) <= Len(s) - i0
    BY <1>1
  <2> HIDE DEF f, i0
  <2>3. Round(Contain(Reset(l), v), i0, l, s, v, h)
    BY <2>1, <2>2, LeftSearch
  <2> QED BY <2>3 DEF i0
<1> HIDE DEF first
<1>5. bad = {}
  <2> SUFFICES ASSUME bad # {} PROVE FALSE
    OBVIOUS
  <2>1. PICK i \in bad : \A j \in bad : i <= j
    <3>1. bad \subseteq 0..n
      OBVIOUS
    <3> HIDE DEF bad
    <3> QED BY <1>1, <3>1, FirstOfPlaces
  <2>2. i \in 0..n /\ ~Round(rounds[i], i, l, s, v, h)
    OBVIOUS
  <2>3. rounds[i] = IF i = 0 THEN first ELSE NextRound(rounds[i - 1], v)
    BY <1>3, <2>2 DEF Turns, Turn
  <2>4. CASE i = 0
    BY <1>4, <2>2, <2>3, <2>4
  <2>5. CASE i # 0
    <3> DEFINE p == i - 1
    <3>1. p \in 0..n /\ ~(i <= p) /\ p \in Int /\ p + 1 = i
      BY <1>1, <2>2, <2>5
    <3>2. p \notin bad
      <4> HIDE DEF bad, p
      <4> QED BY <2>1, <3>1
    <3>3. Round(rounds[p], p, l, s, v, h)
      BY <3>1, <3>2
    <3>4. rounds[i] = NextRound(rounds[p], v)
      BY <2>3, <2>5
    <3> HIDE DEF bad, p
    <3>5. Round(NextRound(rounds[p], v), p + 1, l, s, v, h)
      BY <1>1, <3>1, <3>3, RoundNext
    <3> QED BY <2>2, <3>1, <3>4, <3>5
  <2> QED BY <2>4, <2>5
<1>6. Round(rounds[n], n, l, s, v, h)
  <2>1. n \in 0..n
    BY <1>1
  <2> QED BY <1>5, <2>1
<1>7. PICK w, f : /\ Left(rounds[n], w, f, l, s, v, h)
                  /\ \/ rounds[n].m_pCurrent = Tag /\ \A j \in 1..Len(w) : l.value[w[j]] # v
                     \/ \E j \in 1..Len(w) : /\ rounds[n].m_pCurrent = w[j] /\ l.value[w[j]] = v
                                             /\ Len(w) <= Len(s) - n
  BY <1>6 DEF Round
<1>8. ~\E j \in 1..Len(w) : Len(w) <= Len(s) - n
  <2>1. Len(w) \in Nat
    BY <1>7, CursorIs DEF Left
  <2> QED BY <1>1, <2>1
<1> QED BY <1>2, <1>7, <1>8

\* remove(value) as CursorList sees it.
LEMMA RemoveSeen ==
    ASSUME NEW s, ListIs(s), RemoveThese
    PROVE  ListInv' /\ Seen
<1>1. PICK v \in ListValues : Becomes(RemoveValue(list, v))
  BY DEF RemoveThese
<1>2. Listed(list, s, kept)
  BY DEF ListIs
<1>3. PICK w, f : /\ Left(list', w, f, list, s, v, kept)
                  /\ list'.m_pCurrent = Tag
                  /\ \A j \in 1..Len(w) : list.value[w[j]] # v
  <2>1. list' = RemoveValue(list, v)
    BY <1>1 DEF Becomes
  <2>2. \E w, f : /\ Left(RemoveValue(list, v), w, f, list, s, v, kept)
                  /\ RemoveValue(list, v).m_pCurrent = Tag
                  /\ \A j \in 1..Len(w) : list.value[w[j]] # v
    BY <1>2, RemoveValueIs
  <2> QED BY <2>1, <2>2
<1>4. kept' = StillKept(kept, list'.used)
  BY <1>1 DEF Becomes, StillKept
<1>5. Listed(list', w, kept')
  BY <1>3, <1>4 DEF Left
<1>6. ListInv'
  BY <1>5 DEF ListInv, ListIs
<1>7. /\ f \in [1..Len(w) -> 1..Len(s)]
      /\ \A i, j \in 1..Len(w) : i < j => f[i] < f[j]
      /\ \A i \in 1..Len(w) : w[i] = s[f[i]] /\ list'.value[w[i]] = list.value[w[i]]
      /\ \A p \in 1..Len(s) : list.value[s[p]] # v => \E i \in 1..Len(w) : f[i] = p
      /\ Len(w) < Len(s) \/ w = s
  BY <1>3 DEF Left
<1> DEFINE t == ItemsOf(list)
           r == ItemsOf(list')
           left == {i \in DOMAIN t : t[i].value # v}
<1>8. /\ t \in Seq(Element) /\ Len(t) = Len(s) /\ DOMAIN t = 1..Len(s) /\ Len(s) \in Nat
      /\ \A i \in 1..Len(s) : t[i] = [id |-> s[i], value |-> list.value[s[i]]]
  BY <1>2, CursorIs
<1>9. /\ r \in Seq(Element) /\ Len(r) = Len(w) /\ DOMAIN r = 1..Len(w) /\ Len(w) \in Nat
      /\ \A i \in 1..Len(w) : r[i] = [id |-> w[i], value |-> list'.value[w[i]]]
  BY <1>5, CursorIs
<1> HIDE DEF t, r
<1>10. \A i \in 1..Len(s) : i \in left <=> list.value[s[i]] # v
  <2>1. \A i \in 1..Len(s) : t[i].value = list.value[s[i]]
    BY <1>8
  <2> QED BY <1>8, <2>1
<1>11. f \in [DOMAIN r -> left]
  <2>1. \A i \in 1..Len(w) : f[i] \in 1..Len(s) /\ f[i] \in left
    BY <1>3, <1>7, <1>10
  <2> HIDE DEF left
  <2> QED BY <1>7, <1>9, <2>1
<1>12. \A p \in left : \E i \in DOMAIN r : f[i] = p
  <2>1. \A p \in left : p \in 1..Len(s)
    BY <1>8
  <2> HIDE DEF left
  <2> QED BY <1>7, <1>9, <1>10, <2>1
<1>13. \A i \in 1..Len(w) : r[i] = t[f[i]]
  <2> TAKE i \in 1..Len(w)
  <2>1. f[i] \in 1..Len(s) /\ w[i] = s[f[i]] /\ list'.value[w[i]] = list.value[w[i]]
    BY <1>7
  <2> QED BY <1>8, <1>9, <2>1
<1>14. r = [i \in DOMAIN r |-> t[f[i]]]
  <2>1. r = [i \in 1..Len(w) |-> r[i]]
    BY <1>9
  <2> QED BY <1>9, <1>13, <2>1
<1>15. Abstract!KeepOnly(left)
  <2>1. f \in [DOMAIN r -> left] /\ \A i, j \in DOMAIN r : i < j => f[i] < f[j]
    BY <1>7, <1>9, <1>11
  <2> HIDE DEF left
  <2> QED BY <1>12, <1>14, <2>1 DEF Abstract!KeepOnly, r, t
<1>16. CursorOf(list') = 0
  BY <1>3, <1>5, CursorIs
<1>17. Abstract!Forget
  <2>1. Abstract!IdsOf(ItemsOf(list')) = list'.used
    BY <1>5, IdsAre
  <2> QED BY <1>4, <2>1 DEF Abstract!Forget, StillKept
<1>18. Abstract!RemoveValue
  BY <1>15, <1>16, <1>17 DEF Abstract!RemoveValue, t
<1>19. CASE Len(w) < Len(s)
  <2>1. Len(ItemsOf(list')) < Len(ItemsOf(list))
    BY <1>8, <1>9, <1>19 DEF t, r
  <2>2. Abstract!Removal
    BY <1>18, <2>1 DEF Abstract!Removal
  <2> QED BY <1>6, <2>2 DEF Seen
<1>20. CASE w = s
  <2>1. \A i \in 1..Len(s) : r[i] = t[i]
    BY <1>7, <1>8, <1>9, <1>20
  <2>2. r = t
    BY <1>8, <1>9, <1>20, <2>1, SeqEqual
  <2>3. ItemsOf(list') = ItemsOf(list)
    BY <2>2 DEF t, r
  <2>4. Abstract!Search
    BY <1>18, <2>3 DEF Abstract!Search
  <2> QED BY <1>6, <2>4 DEF Seen
<1> QED BY <1>6, <1>7, <1>19, <1>20

-----------------------------------------------------------------------------
(* The refinement.                                                         *)

\* The empty list.
LEMMA ListStart == ListInit => ListInv /\ Abstract!Init
<1> SUFFICES ASSUME ListInit PROVE ListInv /\ Abstract!Init
  OBVIOUS
<1>1. list = EmptyList /\ kept = Null
  BY DEF ListInit
<1>2. Listed(list, <<>>, kept)
  <2>1. Ring(list, <<>>) /\ ToSet(<<>>) = {} /\ list.m_pCurrent = Tag
    BY <1>1, EmptyRingIs DEF EmptyList, ToSet
  <2> QED BY <1>1, <2>1 DEF Listed
<1>3. Len(ItemsOf(list)) = Len(<<>>) /\ ItemsOf(list) \in Seq(Element) /\ CursorOf(list) \in 0..Len(<<>>) /\ Len(<<>>) = 0
  BY <1>2, CursorIs
<1>4. ItemsOf(list) = <<>> /\ CursorOf(list) = 0
  BY <1>3
<1> QED BY <1>1, <1>2, <1>4 DEF ListInv, ListIs, Abstract!Init

\* Every operation.
LEMMA ListStep == ListInv /\ [ListNext]_listVars => ListInv' /\ Seen
<1> SUFFICES ASSUME ListInv, [ListNext]_listVars PROVE ListInv' /\ Seen
  OBVIOUS
<1>1. PICK s : ListIs(s)
  BY DEF ListInv
<1>2. ASSUME NEW v \in ListValues, AddValue(v) PROVE ListInv' /\ Seen
  BY <1>1, <1>2, PushSeen, InsertHereSeen, InsertSortSeen DEF AddValue
<1>3. ASSUME NEW v \in ListValues, Search(v) PROVE ListInv' /\ Seen
  BY <1>1, <1>3, SearchSeen
<1>4. ASSUME NEW v \in ListValues, NEW i \in 1..list.m_count, SetValue(i, v) PROVE ListInv' /\ Seen
  BY <1>1, <1>4, SetSeen
<1>5. CASE Pop
  BY <1>1, <1>5, PopSeen
<1>6. CASE RemoveThese
  BY <1>1, <1>6, RemoveSeen
<1>7. CASE AssignOther
  BY <1>1, <1>7, AssignSeen
<1>8. CASE Move
  BY <1>1, <1>8, MovesSeen
<1>9. CASE GetCurrentHandle
  BY <1>1, <1>9, HandleSeen
<1>10. CASE UseHandle
  BY <1>1, <1>10, UseSeen
<1>11. CASE UNCHANGED listVars
  <2>1. list' = list /\ kept' = kept
    BY <1>11 DEF listVars
  <2> QED BY <1>1, <2>1 DEF ListInv, ListIs, Seen
<1> QED BY <1>2, <1>3, <1>4, <1>5, <1>6, <1>7, <1>8, <1>9, <1>10, <1>11 DEF ListNext

\* Whatever the values and however much memory, every operation does to the list and
\* to the cursor what CursorList says.
THEOREM ListRefines == ListSpec => ImplementsCursorList
<1>1. ListInit => ListInv /\ Abstract!Init
  BY ListStart
<1>2. ListInv /\ [ListNext]_listVars => ListInv' /\ [Abstract!Next]_<<ItemsOf(list), CursorOf(list), kept>>
  <2> SUFFICES ASSUME ListInv, [ListNext]_listVars
               PROVE  ListInv' /\ [Abstract!Next]_<<ItemsOf(list), CursorOf(list), kept>>
    OBVIOUS
  <2>1. ListInv' /\ Seen
    BY ListStep
  <2> QED BY <2>1 DEF Seen, Abstract!Next
<1> QED BY <1>1, <1>2, PTL DEF ListSpec, ImplementsCursorList, Abstract!Spec
=============================================================================
