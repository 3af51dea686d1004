------------------------------ MODULE FrameProofs ------------------------------
(***************************************************************************)
(* Theorems of Frame, for any number of instances, whatever their          *)
(* addresses, bounds and commands, and whatever the selector does.         *)
(***************************************************************************)
EXTENDS Frame, SequenceTheorems, FiniteSetTheorems, TLAPS

QueuesOK == /\ mTransID \in Nat
            /\ kq \in Seq(Traffic)
            /\ rx \in [Insts -> Seq(Traffic)]
            /\ sent \in [Insts -> Nat]
            /\ seen \in [Insts -> [Insts -> Nat]]

\* The messages of j are in order in one queue, after the number low and up to the
\* number high.
InOrder(s, j, low, high) ==
    /\ \A k \in DOMAIN s : IsFrom(s[k], j) => low < s[k].n /\ s[k].n <= high
    /\ \A k, l \in DOMAIN s : IsFrom(s[k], j) /\ IsFrom(s[l], j) /\ k < l => s[k].n < s[l].n

Before(r, q, j) == \A k \in DOMAIN r, l \in DOMAIN q :
                       IsFrom(r[k], j) /\ IsFrom(q[l], j) => r[k].n < q[l].n

\* In the queue r of an instance and the queue q of the kernel; and what is still in
\* the kernel's is later than what has reached the instance.
TwoQueues(r, q, j, low, high) == /\ low <= high
                                 /\ InOrder(q, j, low, high) /\ InOrder(r, j, low, high)
                                 /\ Before(r, q, j)
OrderInv == \A i, j \in Insts : TwoQueues(rx[i], kq, j, seen[i][j], sent[j])

IInv == QueuesOK /\ OrderInv

-----------------------------------------------------------------------------
\* What the steps do to a queue.
LEMMA AppendKeeps ==
    ASSUME NEW s \in Seq(Traffic), NEW m \in Traffic, NEW j \in Insts,
           NEW low \in Nat, NEW high \in Nat, NEW top \in Nat,
           InOrder(s, j, low, high), high <= top,
           IsFrom(m, j) => /\ low < m.n /\ m.n <= top
                           /\ \A k \in DOMAIN s : IsFrom(s[k], j) => s[k].n < m.n
    PROVE  InOrder(Append(s, m), j, low, top)
<1> DEFINE t == Append(s, m)
<1>1. /\ DOMAIN s = 1..Len(s) /\ DOMAIN t = 1..Len(s) + 1 /\ Len(s) \in Nat
      /\ \A k \in 1..Len(s) : t[k] = s[k]
      /\ t[Len(s) + 1] = m
  BY AppendProperties
<1> HIDE DEF t
<1>2. \A k \in 1..Len(s) : IsFrom(s[k], j) => s[k].n \in Nat
  BY DEF IsFrom, Traffic, Msgs, Requests, TimeOut
<1>3. ASSUME NEW k \in DOMAIN t, IsFrom(t[k], j)
      PROVE  low < t[k].n /\ t[k].n <= top
  <2>1. CASE k = Len(s) + 1
    BY <1>1, <1>3, <2>1
  <2>2. CASE k \in 1..Len(s)
    BY <1>1, <1>2, <1>3, <2>2 DEF InOrder
  <2> QED BY <1>1, <2>1, <2>2
<1>4. ASSUME NEW k \in DOMAIN t, NEW l \in DOMAIN t, IsFrom(t[k], j), IsFrom(t[l], j), k < l
      PROVE  t[k].n < t[l].n
  <2>1. k \in 1..Len(s)
    BY <1>1, <1>4
  <2>2. CASE l = Len(s) + 1
    BY <1>1, <1>4, <2>1, <2>2
  <2>3. CASE l \in 1..Len(s)
    BY <1>1, <1>4, <2>1, <2>3 DEF InOrder
  <2> QED BY <1>1, <2>2, <2>3
<1>5. InOrder(t, j, low, top)
  BY <1>3, <1>4 DEF InOrder
<1> QED
  BY <1>5 DEF t

\* What the first was is earlier than the rest, if both are from j.
LEMMA TailKeeps ==
    ASSUME NEW s \in Seq(Traffic), s # <<>>, NEW j \in Insts,
           NEW low, NEW high, InOrder(s, j, low, high)
    PROVE  /\ InOrder(Tail(s), j, low, high)
           /\ IsFrom(Head(s), j) => InOrder(Tail(s), j, Head(s).n, high)
<1> DEFINE t == Tail(s)
<1>1. /\ Len(s) \in Nat /\ Len(s) >= 1 /\ DOMAIN s = 1..Len(s) /\ DOMAIN t = 1..Len(s) - 1
      /\ \A k \in 1..Len(s) - 1 : t[k] = s[k + 1] /\ k + 1 \in 1..Len(s) /\ 1 < k + 1
      /\ Head(s) = s[1] /\ 1 \in 1..Len(s)
  BY HeadTailProperties
<1> HIDE DEF t
<1>2. \A k, l \in 1..Len(s) - 1 : k < l => k + 1 < l + 1
  BY <1>1
<1>3. InOrder(t, j, low, high)
  BY <1>1, <1>2 DEF InOrder
<1>4. ASSUME IsFrom(s[1], j) PROVE InOrder(t, j, s[1].n, high)
  BY <1>1, <1>3, <1>4 DEF InOrder
<1> QED
  BY <1>1, <1>3, <1>4 DEF t

\* What is left of a queue once its head is taken.
LEMMA TailElements ==
    ASSUME NEW s \in Seq(Traffic), s # <<>>
    PROVE  /\ Tail(s) \in Seq(Traffic) /\ Head(s) \in Traffic /\ 1 \in DOMAIN s /\ Head(s) = s[1]
           /\ \A k \in DOMAIN Tail(s) : k + 1 \in DOMAIN s /\ Tail(s)[k] = s[k + 1] /\ k \in Int
  BY HeadTailProperties

\* A message put at the end of a queue.
LEMMA AppendElements ==
    ASSUME NEW s \in Seq(Traffic), NEW m \in Traffic
    PROVE  /\ Append(s, m) \in Seq(Traffic)
           /\ \A k \in DOMAIN Append(s, m) :
                 \/ Append(s, m)[k] = m
                 \/ k \in DOMAIN s /\ Append(s, m)[k] = s[k]
<1>1. /\ DOMAIN s = 1..Len(s) /\ DOMAIN Append(s, m) = 1..Len(s) + 1 /\ Len(s) \in Nat
      /\ \A k \in 1..Len(s) : Append(s, m)[k] = s[k]
      /\ Append(s, m)[Len(s) + 1] = m /\ Append(s, m) \in Seq(Traffic)
  BY AppendProperties
<1>2. \A k \in 1..Len(s) + 1 : k \in 1..Len(s) \/ k = Len(s) + 1
  BY <1>1
<1> QED
  BY <1>1, <1>2

-----------------------------------------------------------------------------
\* What the actions do to a pair of queues, for one sender j.
\* A message is sent: by j, with the next number, or by another.
LEMMA Sending ==
    ASSUME NEW r \in Seq(Traffic), NEW q \in Seq(Traffic), NEW m \in Traffic, NEW j \in Insts,
           NEW low \in Nat, NEW high \in Nat, NEW top \in Nat,
           TwoQueues(r, q, j, low, high),
           IF IsFrom(m, j) THEN m.n = high + 1 /\ top = high + 1 ELSE top = high
    PROVE  TwoQueues(r, Append(q, m), j, low, top)
<1>1. \A k \in DOMAIN q : IsFrom(q[k], j) => q[k].n \in Nat /\ q[k].n <= high
  <2>1. \A k \in DOMAIN q : q[k] \in Traffic
    OBVIOUS
  <2> QED BY <2>1 DEF TwoQueues, InOrder, IsFrom, Traffic, Msgs, Requests, TimeOut
<1>2. \A k \in DOMAIN r : IsFrom(r[k], j) => r[k].n \in Nat /\ r[k].n <= high
  <2>1. \A k \in DOMAIN r : r[k] \in Traffic
    OBVIOUS
  <2> QED BY <2>1 DEF TwoQueues, InOrder, IsFrom, Traffic, Msgs, Requests, TimeOut
<1>3. low <= high /\ high <= top
  BY DEF TwoQueues
<1>4. IsFrom(m, j) => /\ low < m.n /\ m.n <= top
                      /\ \A k \in DOMAIN q : IsFrom(q[k], j) => q[k].n < m.n
  BY <1>1, <1>3
<1>5. InOrder(Append(q, m), j, low, top)
  BY <1>3, <1>4, AppendKeeps DEF TwoQueues
<1>6. InOrder(r, j, low, top)
  BY <1>2, <1>3 DEF TwoQueues, InOrder
<1>7. Before(r, Append(q, m), j)
  <2> SUFFICES ASSUME NEW k \in DOMAIN r, NEW l \in DOMAIN Append(q, m),
                      IsFrom(r[k], j), IsFrom(Append(q, m)[l], j)
               PROVE  r[k].n < Append(q, m)[l].n
    BY DEF Before
  <2>1. CASE Append(q, m)[l] = m
    BY <1>2, <2>1
  <2>2. CASE l \in DOMAIN q /\ Append(q, m)[l] = q[l]
    BY <2>2 DEF TwoQueues, Before
  <2> QED BY <2>1, <2>2, AppendElements
<1> QED
  BY <1>3, <1>5, <1>6, <1>7 DEF TwoQueues

\* A request or a timeout joins either queue.
LEMMA Asking ==
    ASSUME NEW r \in Seq(Traffic), NEW q \in Seq(Traffic), NEW m \in Traffic, NEW j \in Insts,
           NEW low \in Nat, NEW high \in Nat, TwoQueues(r, q, j, low, high), m.kind # "msg"
    PROVE  TwoQueues(Append(r, m), q, j, low, high) /\ TwoQueues(r, Append(q, m), j, low, high)
<1>1. ~IsFrom(m, j)
  BY DEF IsFrom
<1>2. InOrder(Append(r, m), j, low, high)
  BY <1>1, AppendKeeps DEF TwoQueues
<1>3. Before(Append(r, m), q, j)
  BY <1>1, AppendElements DEF TwoQueues, Before
<1>4. TwoQueues(r, Append(q, m), j, low, high)
  BY <1>1, Sending
<1> QED
  BY <1>2, <1>3, <1>4 DEF TwoQueues

\* The kernel takes its first message, and may give it, or a copy, to the instance.
LEMMA Dispatching ==
    ASSUME NEW r \in Seq(Traffic), NEW q \in Seq(Traffic), q # <<>>, NEW j \in Insts,
           NEW low \in Nat, NEW high \in Nat, TwoQueues(r, q, j, low, high),
           NEW d \in Traffic, IsFrom(d, j) <=> IsFrom(Head(q), j), d.n = Head(q).n
    PROVE  TwoQueues(r, Tail(q), j, low, high) /\ TwoQueues(Append(r, d), Tail(q), j, low, high)
<1> DEFINE t == Tail(q)
<1>1. /\ t \in Seq(Traffic) /\ 1 \in DOMAIN q /\ Head(q) = q[1]
      /\ \A k \in DOMAIN t : k + 1 \in DOMAIN q /\ t[k] = q[k + 1]
  BY TailElements
<1>2. InOrder(t, j, low, high) /\ (IsFrom(q[1], j) => InOrder(t, j, q[1].n, high))
  BY <1>1, TailKeeps DEF TwoQueues
<1> HIDE DEF t
<1>3. Before(r, t, j)
  BY <1>1 DEF TwoQueues, Before
<1>4. InOrder(Append(r, d), j, low, high)
  <2>1. IsFrom(d, j) => /\ low < d.n /\ d.n <= high
                        /\ \A k \in DOMAIN r : IsFrom(r[k], j) => r[k].n < d.n
    BY <1>1 DEF TwoQueues, InOrder, Before
  <2> QED BY <2>1, AppendKeeps DEF TwoQueues
<1>5. Before(Append(r, d), t, j)
  <2> SUFFICES ASSUME NEW k \in DOMAIN Append(r, d), NEW l \in DOMAIN t,
                      IsFrom(Append(r, d)[k], j), IsFrom(t[l], j)
               PROVE  Append(r, d)[k].n < t[l].n
    BY DEF Before
  <2>1. CASE Append(r, d)[k] = d
    BY <1>1, <1>2, <2>1 DEF InOrder
  <2>2. CASE k \in DOMAIN r /\ Append(r, d)[k] = r[k]
    BY <1>3, <2>2 DEF Before
  <2> QED BY <2>1, <2>2, AppendElements
<1>6. TwoQueues(r, t, j, low, high) /\ TwoQueues(Append(r, d), t, j, low, high)
  BY <1>2, <1>3, <1>4, <1>5 DEF TwoQueues
<1> QED
  BY <1>6 DEF t

\* The instance takes its first message.
LEMMA Receiving ==
    ASSUME NEW r \in Seq(Traffic), r # <<>>, NEW q \in Seq(Traffic), NEW j \in Insts,
           NEW low \in Nat, NEW high \in Nat, TwoQueues(r, q, j, low, high)
    PROVE  TwoQueues(Tail(r), q, j, IF IsFrom(Head(r), j) THEN Head(r).n ELSE low, high)
<1> DEFINE t == Tail(r)
<1>1. /\ 1 \in DOMAIN r /\ Head(r) = r[1]
      /\ \A k \in DOMAIN t : k + 1 \in DOMAIN r /\ t[k] = r[k + 1]
  BY TailElements
<1>2. InOrder(t, j, low, high) /\ (IsFrom(r[1], j) => InOrder(t, j, r[1].n, high))
  BY <1>1, TailKeeps DEF TwoQueues
<1> HIDE DEF t
<1>3. Before(t, q, j)
  BY <1>1 DEF TwoQueues, Before
<1>4. IsFrom(r[1], j) => r[1].n <= high /\ InOrder(q, j, r[1].n, high)
  BY <1>1 DEF TwoQueues, InOrder, Before
<1>5. TwoQueues(t, q, j, IF IsFrom(r[1], j) THEN r[1].n ELSE low, high)
  BY <1>2, <1>3, <1>4 DEF TwoQueues
<1> QED
  BY <1>1, <1>5 DEF t

-----------------------------------------------------------------------------
\* The elements of the queues.
LEMMA Elements ==
    /\ \A m \in Traffic : m.kind = "msg" => m \in Msgs /\ Deliver(m) \in Msgs
                                            /\ Deliver(m).n = m.n
                                            /\ \A j : IsFrom(Deliver(m), j) <=> IsFrom(m, j)
    /\ \A ev \in {"INIT", "RELOAD", "STATUES", "SHUTDOWN"}, k \in Nat :
          Request(ev, k) \in Requests /\ Request(ev, k).kind # "msg"
    /\ TimeOut \in Traffic /\ TimeOut.kind # "msg"
<1>1. ASSUME NEW m \in Traffic, m.kind = "msg" PROVE m \in Msgs
  BY <1>1 DEF Traffic, Msgs, Requests, TimeOut
<1>2. ASSUME NEW m \in Msgs
      PROVE  /\ Deliver(m) \in Msgs /\ Deliver(m).n = m.n
             /\ Deliver(m).kind = m.kind /\ Deliver(m).from = m.from
  BY DEF Msgs, Deliver
<1>3. \A ev \in {"INIT", "RELOAD", "STATUES", "SHUTDOWN"}, k \in Nat :
          Request(ev, k) \in Requests /\ Request(ev, k).kind # "msg"
  BY DEF Request, Requests
<1>4. TimeOut \in Traffic /\ TimeOut.kind # "msg"
  BY DEF TimeOut, Traffic
<1> QED
  BY <1>1, <1>2, <1>3, <1>4 DEF IsFrom

\* A message an instance sends is its own, with the next of its numbers.
LEMMA NewMsgType ==
    ASSUME NEW i \in Insts, NEW a \in Addresses, QueuesOK
    PROVE  /\ NewMsg(i, a) \in Msgs /\ NewMsg(i, a).n = sent[i] + 1
           /\ \A j : IsFrom(NewMsg(i, a), j) <=> j = i
<1>1. a \in [msgType : {"single", "broadcast", "multicast"},
             task : Tasks \cup {Ghost}, inst : Insts \cup {NoInst}]
  BY FrameAssumption
<1>2. sent[i] + 1 \in Nat
  BY DEF QueuesOK
<1> QED
  BY <1>1, <1>2 DEF NewMsg, Msgs, IsFrom

\* A request of the manager to an instance it addresses.
LEMMA CommandType ==
    ASSUME NEW c \in Commands, NEW i \in Insts, mTransID \in Nat
    PROVE  Request(EventOf(c), TransOf(c, i)) \in Requests
           /\ Request(EventOf(c), TransOf(c, i)).kind # "msg"
<1> DEFINE S == {j \in Addressed(c) : j <= i}
<1>1. S \subseteq Insts
  BY DEF Addressed
<1>2. Cardinality(S) \in Nat
  BY <1>1, FrameAssumption, FS_Subset, FS_CardinalityType
<1> HIDE DEF S
<1>3. mTransID + Cardinality(S) \in Nat
  BY <1>2
<1>4. TransOf(c, i) \in Nat
  BY <1>3 DEF TransOf, S
<1>5. EventOf(c) \in {"INIT", "RELOAD", "STATUES", "SHUTDOWN"}
  BY DEF EventOf
<1> QED
  BY <1>4, <1>5, Elements

\* The invariant of the traffic holds at the start.
LEMMA Initially == Init => IInv
<1> SUFFICES ASSUME Init PROVE IInv
  OBVIOUS
<1>1. kq = <<>> /\ rx = [i \in Insts |-> <<>>] /\ sent = [i \in Insts |-> 0]
      /\ seen = [i \in Insts |-> [j \in Insts |-> 0]] /\ mTransID = 0
  BY DEF Init
<1>2. QueuesOK
  BY <1>1 DEF QueuesOK
<1>3. ASSUME NEW i \in Insts, NEW j \in Insts
      PROVE  TwoQueues(rx[i], kq, j, seen[i][j], sent[j])
  <2>1. rx[i] = <<>> /\ kq = <<>> /\ seen[i][j] = 0 /\ sent[j] = 0
    BY <1>1
  <2> QED BY <2>1 DEF TwoQueues, InOrder, Before
<1> QED
  BY <1>2, <1>3 DEF IInv, OrderInv

\* Where nothing joins or leaves a queue.
LEMMA Unmoved ==
    IInv /\ UNCHANGED <<kq, rx, sent, seen>> /\ mTransID' \in Nat => IInv'
<1> SUFFICES ASSUME IInv, UNCHANGED <<kq, rx, sent, seen>>, mTransID' \in Nat PROVE IInv'
  OBVIOUS
<1>1. QueuesOK'
  BY DEF IInv, QueuesOK
<1>2. OrderInv'
  BY DEF IInv, OrderInv
<1> QED
  BY <1>1, <1>2 DEF IInv

\* An instance sends.
LEMMA SendMsgKeeps ==
    ASSUME IInv, NEW i \in Insts, NEW a \in Addresses, SendMsg(i, a),
           UNCHANGED <<rx, seen, mTransID>>
    PROVE  IInv'
<1> DEFINE m == NewMsg(i, a)
<1>1. /\ m \in Traffic /\ m.n = sent[i] + 1 /\ \A j : IsFrom(m, j) <=> j = i
  BY NewMsgType DEF IInv, Traffic
<1>2. QueuesOK
  BY DEF IInv
<1>3. kq' = Append(kq, m) /\ sent' = [sent EXCEPT ![i] = @ + 1]
  BY DEF SendMsg
<1> HIDE DEF m
<1>4. kq' \in Seq(Traffic)
  BY <1>1, <1>2, <1>3, AppendElements DEF QueuesOK
<1>5. sent' \in [Insts -> Nat]
  BY <1>2, <1>3 DEF QueuesOK
<1>6. QueuesOK'
  BY <1>2, <1>4, <1>5 DEF QueuesOK
<1>7. ASSUME NEW h \in Insts, NEW j \in Insts
      PROVE  TwoQueues(rx[h], kq', j, seen[h][j], sent'[j])
  <2>1. /\ kq \in Seq(Traffic) /\ rx[h] \in Seq(Traffic) /\ sent[j] \in Nat /\ sent'[j] \in Nat
        /\ seen[h][j] \in Nat
    BY <1>2, <1>5 DEF QueuesOK
  <2>2. TwoQueues(rx[h], kq, j, seen[h][j], sent[j])
    BY DEF IInv, OrderInv
  <2>3. IF IsFrom(m, j) THEN m.n = sent[j] + 1 /\ sent'[j] = sent[j] + 1 ELSE sent'[j] = sent[j]
    BY <1>1, <1>2, <1>3 DEF QueuesOK
  <2> QED BY <1>1, <1>3, <2>1, <2>2, <2>3, Sending
<1>8. OrderInv'
  BY <1>7 DEF OrderInv
<1> QED
  BY <1>6, <1>8 DEF IInv

\* Some instances are sent a request or a timeout each.
LEMMA AskingKeeps ==
    ASSUME IInv, NEW S \in SUBSET Insts, NEW d,
           \A i \in S : d[i] \in Traffic /\ d[i].kind # "msg",
           rx' = [i \in Insts |-> IF i \in S THEN Append(rx[i], d[i]) ELSE rx[i]],
           UNCHANGED <<kq, sent, seen>>, mTransID' \in Nat
    PROVE  IInv'
<1>1. QueuesOK
  BY DEF IInv
<1>2. ASSUME NEW i \in Insts PROVE rx'[i] \in Seq(Traffic)
  <2>1. rx[i] \in Seq(Traffic)
    BY <1>1 DEF QueuesOK
  <2>2. CASE i \in S
    BY <2>1, <2>2, AppendElements
  <2>3. CASE i \notin S
    BY <2>1, <2>3
  <2> QED BY <2>2, <2>3
<1>3. QueuesOK'
  BY <1>1, <1>2 DEF QueuesOK
<1>4. ASSUME NEW i \in Insts, NEW j \in Insts
      PROVE  TwoQueues(rx'[i], kq, j, seen[i][j], sent[j])
  <2>1. /\ kq \in Seq(Traffic) /\ rx[i] \in Seq(Traffic) /\ sent[j] \in Nat /\ seen[i][j] \in Nat
    BY <1>1 DEF QueuesOK
  <2>2. TwoQueues(rx[i], kq, j, seen[i][j], sent[j])
    BY DEF IInv, OrderInv
  <2>3. CASE i \in S
    <3>1. d[i] \in Traffic /\ d[i].kind # "msg" /\ rx'[i] = Append(rx[i], d[i])
      BY <2>3
    <3> QED BY <2>1, <2>2, <3>1, Asking
  <2>4. CASE i \notin S
    BY <2>2, <2>4
  <2> QED BY <2>3, <2>4
<1>5. OrderInv'
  BY <1>4 DEF OrderInv
<1> QED
  BY <1>3, <1>5 DEF IInv

\* The kernel takes its first message, or request.
LEMMA DispatchKeeps ==
    ASSUME IInv, kq # <<>>, kq' = Tail(kq), NEW S, NEW d \in Traffic,
           \A j : IsFrom(d, j) <=> IsFrom(Head(kq), j),
           d.n = Head(kq).n,
           rx' = [i \in Insts |-> IF i \in S THEN Append(rx[i], d) ELSE rx[i]],
           UNCHANGED <<sent, seen, mTransID>>
    PROVE  IInv'
<1>1. QueuesOK
  BY DEF IInv
<1>2. kq' \in Seq(Traffic)
  BY <1>1, TailElements DEF QueuesOK
<1>3. ASSUME NEW i \in Insts PROVE rx'[i] \in Seq(Traffic)
  <2>1. rx[i] \in Seq(Traffic)
    BY <1>1 DEF QueuesOK
  <2>2. CASE i \in S
    BY <2>1, <2>2, AppendElements
  <2>3. CASE i \notin S
    BY <2>1, <2>3
  <2> QED BY <2>2, <2>3
<1>4. QueuesOK'
  BY <1>1, <1>2, <1>3 DEF QueuesOK
<1>5. ASSUME NEW i \in Insts, NEW j \in Insts
      PROVE  TwoQueues(rx'[i], kq', j, seen[i][j], sent[j])
  <2>1. /\ kq \in Seq(Traffic) /\ rx[i] \in Seq(Traffic) /\ sent[j] \in Nat /\ seen[i][j] \in Nat
    BY <1>1 DEF QueuesOK
  <2>2. TwoQueues(rx[i], kq, j, seen[i][j], sent[j])
    BY DEF IInv, OrderInv
  <2>3. /\ TwoQueues(rx[i], Tail(kq), j, seen[i][j], sent[j])
        /\ TwoQueues(Append(rx[i], d), Tail(kq), j, seen[i][j], sent[j])
    BY <2>1, <2>2, Dispatching
  <2>4. rx'[i] = Append(rx[i], d) \/ rx'[i] = rx[i]
    OBVIOUS
  <2> QED BY <2>3, <2>4
<1>6. OrderInv'
  BY <1>5 DEF OrderInv
<1> QED
  BY <1>4, <1>6 DEF IInv

\* A request that the kernel takes reaches no instance.
LEMMA KernelInitKeeps == IInv /\ KernelInit => IInv'
<1> SUFFICES ASSUME IInv, KernelInit PROVE IInv'
  OBVIOUS
<1>1. QueuesOK
  BY DEF IInv
<1>2. kq # <<>> /\ kq' = Tail(kq) /\ UNCHANGED <<rx, sent, seen, mTransID>>
  BY DEF KernelInit, boot, history
<1>3. kq' \in Seq(Traffic)
  BY <1>1, <1>2, TailElements DEF QueuesOK
<1>4. QueuesOK'
  BY <1>1, <1>2, <1>3 DEF QueuesOK
<1>5. ASSUME NEW i \in Insts, NEW j \in Insts
      PROVE  TwoQueues(rx[i], kq', j, seen[i][j], sent[j])
  <2>1. /\ kq \in Seq(Traffic) /\ rx[i] \in Seq(Traffic) /\ sent[j] \in Nat /\ seen[i][j] \in Nat
    BY <1>1 DEF QueuesOK
  <2>2. TwoQueues(rx[i], kq, j, seen[i][j], sent[j])
    BY DEF IInv, OrderInv
  <2>3. Head(kq) \in Traffic
    BY <1>2, <2>1, TailElements
  <2> QED BY <1>2, <2>1, <2>2, <2>3, Dispatching
<1>6. OrderInv'
  BY <1>2, <1>5 DEF OrderInv
<1> QED
  BY <1>4, <1>6 DEF IInv

\* An instance receives.
LEMMA ReceiveKeeps ==
    ASSUME IInv, NEW h \in Insts, Receive(h)
    PROVE  IInv'
<1> DEFINE m == Head(rx[h])
<1>1. QueuesOK
  BY DEF IInv
<1>2. /\ rx[h] # <<>> /\ rx' = [rx EXCEPT ![h] = Tail(@)]
      /\ IF m.kind = "msg" THEN seen' = [seen EXCEPT ![h][m.from] = m.n] ELSE seen' = seen
      /\ UNCHANGED <<kq, sent, mTransID>>
  BY DEF Receive, boot
<1>3. rx[h] \in Seq(Traffic)
  BY <1>1 DEF QueuesOK
<1>4. m \in Traffic /\ Tail(rx[h]) \in Seq(Traffic)
  BY <1>2, <1>3, TailElements
<1>5. m.kind = "msg" => m.from \in Insts /\ m.n \in Nat
  BY <1>4, Elements DEF Msgs
<1> HIDE DEF m
<1>6. rx' \in [Insts -> Seq(Traffic)]
  BY <1>1, <1>2, <1>4 DEF QueuesOK
<1>7. seen' \in [Insts -> [Insts -> Nat]]
  <2>1. CASE m.kind = "msg"
    <3>1. [seen[h] EXCEPT ![m.from] = m.n] \in [Insts -> Nat]
      BY <1>1, <1>5, <2>1 DEF QueuesOK
    <3> QED BY <1>1, <1>2, <2>1, <3>1 DEF QueuesOK
  <2>2. CASE m.kind # "msg"
    BY <1>1, <1>2, <2>2 DEF QueuesOK
  <2> QED BY <2>1, <2>2
<1>8. QueuesOK'
  BY <1>1, <1>2, <1>6, <1>7 DEF QueuesOK
<1>9. ASSUME NEW i \in Insts, NEW j \in Insts
      PROVE  TwoQueues(rx'[i], kq, j, seen'[i][j], sent[j])
  <2>1. /\ kq \in Seq(Traffic) /\ rx[i] \in Seq(Traffic) /\ sent[j] \in Nat /\ seen[i][j] \in Nat
    BY <1>1 DEF QueuesOK
  <2>2. TwoQueues(rx[i], kq, j, seen[i][j], sent[j])
    BY DEF IInv, OrderInv
  <2>3. CASE i = h
    <3>1. TwoQueues(Tail(rx[h]), kq, j, IF IsFrom(m, j) THEN m.n ELSE seen[h][j], sent[j])
      BY <1>2, <2>1, <2>2, <2>3, Receiving DEF m
    <3>2. rx'[h] = Tail(rx[h])
      BY <1>1, <1>2 DEF QueuesOK
    <3>3. seen'[h][j] = IF IsFrom(m, j) THEN m.n ELSE seen[h][j]
      <4>1. seen \in [Insts -> [Insts -> Nat]]
        BY <1>1 DEF QueuesOK
      <4>2. CASE m.kind = "msg"
        <5>1. seen'[h] = [seen[h] EXCEPT ![m.from] = m.n]
          BY <1>2, <4>1, <4>2
        <5>2. seen[h] \in [Insts -> Nat]
          BY <4>1
        <5> QED BY <1>5, <4>2, <5>1, <5>2 DEF IsFrom
      <4>3. CASE m.kind # "msg"
        BY <1>2, <4>3 DEF IsFrom
      <4> QED BY <4>2, <4>3
    <3> QED BY <2>3, <3>1, <3>2, <3>3
  <2>4. CASE i # h
    BY <1>1, <1>2, <2>2, <2>4 DEF QueuesOK
  <2> QED BY <2>3, <2>4
<1>10. OrderInv'
  BY <1>2, <1>9 DEF OrderInv
<1> QED
  BY <1>8, <1>10 DEF IInv

\* The request of Run() to the kernel.
LEMMA StartKernelKeeps == IInv /\ StartKernel => IInv'
<1> SUFFICES ASSUME IInv, StartKernel PROVE IInv'
  OBVIOUS
<1> DEFINE m == Request("INIT", mTransID + 1)
<1>1. QueuesOK
  BY DEF IInv
<1>2. /\ kq' = Append(kq, m) /\ mTransID' = mTransID + 1 /\ UNCHANGED <<rx, sent, seen>>
  BY DEF StartKernel, history
<1>3. m \in Requests /\ m.kind # "msg" /\ mTransID' \in Nat
  BY <1>1, <1>2, Elements DEF QueuesOK
<1>4. m \in Traffic
  BY <1>3 DEF Traffic
<1> HIDE DEF m
<1>5. QueuesOK'
  BY <1>1, <1>2, <1>3, <1>4, AppendElements DEF QueuesOK
<1>6. ASSUME NEW i \in Insts, NEW j \in Insts
      PROVE  TwoQueues(rx[i], kq', j, seen[i][j], sent[j])
  <2>1. /\ kq \in Seq(Traffic) /\ rx[i] \in Seq(Traffic) /\ sent[j] \in Nat /\ seen[i][j] \in Nat
    BY <1>1 DEF QueuesOK
  <2>2. TwoQueues(rx[i], kq, j, seen[i][j], sent[j])
    BY DEF IInv, OrderInv
  <2> QED BY <1>2, <1>3, <1>4, <2>1, <2>2, Asking
<1>7. OrderInv'
  BY <1>2, <1>6 DEF OrderInv
<1> QED
  BY <1>5, <1>7 DEF IInv

-----------------------------------------------------------------------------
\* Every step keeps the invariant of the traffic.
LEMMA Step == IInv /\ [Next]_vars => IInv'
<1> SUFFICES ASSUME IInv, [Next]_vars PROVE IInv'
  OBVIOUS
<1>1. QueuesOK /\ mTransID \in Nat /\ rx \in [Insts -> Seq(Traffic)]
  BY DEF IInv, QueuesOK
<1>2. CASE Dispatch
  <2>1. PICK m \in ToSet(kq) :
          /\ Take(m) /\ m.kind = "msg"
          /\ rx' = [i \in Insts |-> IF i \in last'.to THEN Append(rx[i], Deliver(m)) ELSE rx[i]]
    BY <1>2 DEF Dispatch
  <2>2. kq # <<>> /\ kq' = Tail(kq) /\ m = Head(kq)
    BY <2>1 DEF Take
  <2>3. m \in Traffic
    BY <1>1, <2>2, TailElements DEF QueuesOK
  <2>4. Deliver(m) \in Traffic /\ Deliver(m).n = m.n /\ \A j : IsFrom(Deliver(m), j) <=> IsFrom(m, j)
    BY <2>1, <2>3, Elements DEF Traffic
  <2>5. UNCHANGED <<sent, seen, mTransID>>
    BY <1>2 DEF Dispatch
  <2> QED BY <2>1, <2>2, <2>4, <2>5, DispatchKeeps
<1>3. CASE KernelInit
  BY <1>3, KernelInitKeeps
<1>4. CASE StartKernel
  BY <1>4, StartKernelKeeps
<1>5. CASE StartTask
  <2> DEFINE h == booted + 1
             d == [i \in Insts |-> Request("INIT", mTransID + 1)]
  <2>1. /\ h \in Insts /\ mTransID' = mTransID + 1 /\ UNCHANGED <<kq, sent, seen>>
        /\ rx' = [rx EXCEPT ![h] = Append(@, Request("INIT", mTransID + 1))]
    BY <1>5 DEF StartTask, history
  <2>2. d[h] \in Traffic /\ d[h].kind # "msg" /\ d[h] = Request("INIT", mTransID + 1)
    BY <1>1, <2>1, Elements DEF Traffic
  <2> HIDE DEF h, d
  <2>3. rx' = [i \in Insts |-> IF i \in {h} THEN Append(rx[i], d[i]) ELSE rx[i]]
    BY <1>1, <2>1, <2>2
  <2>4. mTransID' \in Nat
    BY <1>1, <2>1
  <2>5. \A i \in {h} : d[i] \in Traffic /\ d[i].kind # "msg"
    BY <2>2
  <2> QED BY <2>1, <2>3, <2>4, <2>5, AskingKeeps
<1>6. CASE EnterLoop \/ GetReply \/ NoCommand
  BY <1>1, <1>6, Unmoved DEF EnterLoop, GetReply, NoCommand, queues, history
<1>7. ASSUME NEW h \in Insts, Receive(h) PROVE IInv'
  BY <1>7, ReceiveKeeps
<1>8. ASSUME NEW h \in Insts, Finish(h) \/ FinishEvent(h) \/ Throw(h) PROVE IInv'
  BY <1>1, <1>8, Unmoved DEF Finish, FinishEvent, Throw, queues, history, boot
<1>9. ASSUME NEW h \in Insts, Expire(h) PROVE IInv'
  <2> DEFINE d == [i \in Insts |-> TimeOut]
  <2>1. /\ UNCHANGED <<kq, sent, seen, mTransID>>
        /\ rx' = [rx EXCEPT ![h] = Append(@, TimeOut)]
    BY <1>9 DEF Expire, history
  <2>2. d[h] \in Traffic /\ d[h].kind # "msg" /\ d[h] = TimeOut
    BY Elements
  <2> HIDE DEF d
  <2>3. rx' = [i \in Insts |-> IF i \in {h} THEN Append(rx[i], d[i]) ELSE rx[i]]
    BY <1>1, <2>1, <2>2
  <2>4. \A i \in {h} : d[i] \in Traffic /\ d[i].kind # "msg"
    BY <2>2
  <2> QED BY <1>1, <2>1, <2>3, <2>4, AskingKeeps
<1>10. ASSUME NEW h \in Insts, NEW a \in Addresses, Send(h, a) \/ Forward(h, a) PROVE IInv'
  <2>1. SendMsg(h, a) /\ UNCHANGED <<rx, seen, mTransID>>
    BY <1>10 DEF Send, Forward
  <2> QED BY <2>1, SendMsgKeeps
<1>11. ASSUME NEW c \in Commands, RecvCommand(c) PROVE IInv'
  <2> DEFINE S == Addressed(c)
             d == [i \in Insts |-> Request(EventOf(c), TransOf(c, i))]
  <2>1. /\ mTransID' = mTransID + Cardinality(S) /\ UNCHANGED <<kq, sent, seen>>
        /\ rx' = [i \in Insts |-> IF i \in S
                                 THEN Append(rx[i], Request(EventOf(c), TransOf(c, i)))
                                 ELSE rx[i]]
    BY <1>11 DEF RecvCommand, history
  <2>2. S \subseteq Insts
    BY DEF Addressed
  <2>3. Cardinality(S) \in Nat
    BY <2>2, FrameAssumption, FS_Subset, FS_CardinalityType
  <2>4. \A i \in S : d[i] \in Traffic /\ d[i].kind # "msg"
    BY <1>1, <2>2, CommandType DEF Traffic
  <2>5. rx' = [i \in Insts |-> IF i \in S THEN Append(rx[i], d[i]) ELSE rx[i]]
    BY <2>1
  <2> HIDE DEF S, d
  <2>6. mTransID' \in Nat
    BY <1>1, <2>1, <2>3
  <2> QED BY <2>1, <2>2, <2>4, <2>5, <2>6, AskingKeeps
<1>12. CASE UNCHANGED vars
  BY <1>1, <1>12, Unmoved DEF vars, queues, history, boot
<1> QED
  BY <1>2, <1>3, <1>4, <1>5, <1>6, <1>7, <1>8, <1>9, <1>10, <1>11, <1>12
  DEF Next, Kernel, Manager, Task

\* Both queues in order, and one before the other: their concatenation in order.
LEMMA InOrderTogether == IInv => PairOrder
<1> SUFFICES ASSUME IInv, NEW i \in Insts, NEW j \in Insts
             PROVE  LET s == rx[i] \o kq
                        fromJ == {k \in DOMAIN s : IsFrom(s[k], j)}
                    IN /\ \A k \in fromJ : s[k].n > seen[i][j]
                       /\ \A k, l \in fromJ : k < l => s[k].n < s[l].n
  BY DEF PairOrder
<1> DEFINE r == rx[i]
           s == r \o kq
<1>1. r \in Seq(Traffic) /\ kq \in Seq(Traffic) /\ seen[i][j] \in Nat
  BY DEF IInv, QueuesOK
<1>2. TwoQueues(r, kq, j, seen[i][j], sent[j])
  BY DEF IInv, OrderInv
<1> HIDE DEF r
<1>3. /\ Len(r) \in Nat /\ Len(kq) \in Nat /\ Len(s) = Len(r) + Len(kq)
      /\ DOMAIN s = 1..Len(s) /\ DOMAIN r = 1..Len(r) /\ DOMAIN kq = 1..Len(kq)
      /\ \A k \in 1..Len(s) : s[k] = IF k <= Len(r) THEN r[k] ELSE kq[k - Len(r)]
  BY <1>1, ConcatProperties
<1> HIDE DEF s
<1>4. \A k \in 1..Len(s) : \/ k \in DOMAIN r /\ s[k] = r[k] /\ k <= Len(r)
                           \/ k - Len(r) \in DOMAIN kq /\ s[k] = kq[k - Len(r)] /\ k > Len(r)
  BY <1>3
<1>5. ASSUME NEW k \in DOMAIN s, IsFrom(s[k], j) PROVE s[k].n > seen[i][j]
  <2>1. s[k].n \in Nat
    <3>1. s[k] \in Traffic
      BY <1>1, <1>3, <1>4
    <3> QED BY <1>5, <3>1 DEF IsFrom, Traffic, Msgs, Requests, TimeOut
  <2>2. seen[i][j] < s[k].n
    BY <1>2, <1>3, <1>4, <1>5 DEF TwoQueues, InOrder
  <2> QED BY <1>1, <2>1, <2>2
<1>6. ASSUME NEW k \in DOMAIN s, NEW l \in DOMAIN s, IsFrom(s[k], j), IsFrom(s[l], j), k < l
      PROVE  s[k].n < s[l].n
  <2>1. CASE l <= Len(r)
    <3>1. k \in DOMAIN r /\ s[k] = r[k] /\ l \in DOMAIN r /\ s[l] = r[l]
      BY <1>3, <1>4, <1>6, <2>1
    <3> QED BY <1>2, <1>6, <3>1 DEF TwoQueues, InOrder
  <2>2. CASE k > Len(r)
    <3>1. /\ k - Len(r) \in DOMAIN kq /\ s[k] = kq[k - Len(r)]
          /\ l - Len(r) \in DOMAIN kq /\ s[l] = kq[l - Len(r)] /\ k - Len(r) < l - Len(r)
      BY <1>3, <1>4, <1>6, <2>2
    <3> QED BY <1>2, <1>6, <3>1 DEF TwoQueues, InOrder
  <2>3. CASE k <= Len(r) /\ l > Len(r)
    <3>1. /\ k \in DOMAIN r /\ s[k] = r[k]
          /\ l - Len(r) \in DOMAIN kq /\ s[l] = kq[l - Len(r)]
      BY <1>3, <1>4, <2>3
    <3> QED BY <1>2, <1>6, <3>1 DEF TwoQueues, Before
  <2> QED BY <1>3, <2>1, <2>2, <2>3
<1> QED
  BY <1>5, <1>6 DEF s, r

\* PairOrder: what an instance sends reaches another in the order it was sent.
THEOREM SentInOrder == Spec => []PairOrder
<1>1. IInv /\ [Next]_vars => IInv'
  BY Step
<1> QED
  BY <1>1, Initially, InOrderTogether, PTL DEF Spec
-----------------------------------------------------------------------------
\* What is known by x is in one of these containers.
Known == {<<0, k>> : k \in 1..mTransID} \cup UNION {{<<i, n>> : n \in 1..sent[i]} : i \in Insts}
NamesIn(s) == {Name(s[n]) : n \in DOMAIN s}
At(x, c) == \/ c = <<"kernel", 0>> /\ x \in NamesIn(kq)
            \/ c = <<"manager", 0>> /\ x \in NamesIn(mq)
            \/ c = <<"closed", 0>> /\ x \in closed
            \/ c = <<"answered", 0>> /\ x \in {<<0, k>> : k \in answered}
            \/ c = <<"dropped", 0>> /\ x \in {<<0, k>> : k \in dropped}
            \/ \E i \in Insts : c = <<"queue", i>> /\ x \in NamesIn(rx[i])
            \/ \E i \in Insts : c = <<"hand", i>> /\ x = Name(hand[i])

Partition == /\ \A x \in Known : \E c : At(x, c) /\ \A d : At(x, d) => d = c
             /\ \A x, c : At(x, c) /\ x # Nameless => x \in Known

\* And once in it.
Once(s) == \A k, l \in DOMAIN s : Name(s[k]) = Name(s[l]) /\ Name(s[k]) # Nameless => k = l

\* What has a name there, and what has none.
KindsOK == /\ \A k \in DOMAIN kq : kq[k].kind = "msg" => ~kq[k].copy
           /\ hand \in [Insts -> Traffic \cup {Nothing}]
           /\ mq \in Seq(Replies)
           /\ closed \subseteq Insts \X Nat

PlaceInv == /\ KindsOK /\ Partition
            /\ Once(kq) /\ Once(mq) /\ \A i \in Insts : Once(rx[i])

\* Whatever has an owner has a name.
LEMMA KnownHasName == \A x \in Known : x # Nameless
<1>1. 0 \notin Insts
  BY FrameAssumption, FS_CardinalityType
<1> QED
  BY <1>1 DEF Known, Nameless

\* The names in a queue that a message is put on.
LEMMA NamesAppend ==
    ASSUME NEW X, NEW s \in Seq(X), NEW m \in X
    PROVE  /\ \A x : x \in NamesIn(Append(s, m)) <=> x \in NamesIn(s) \/ x = Name(m)
           /\ Once(s) /\ (Name(m) # Nameless => Name(m) \notin NamesIn(s)) => Once(Append(s, m))
<1> DEFINE t == Append(s, m)
<1>1. /\ DOMAIN s = 1..Len(s) /\ DOMAIN t = 1..Len(s) + 1 /\ Len(s) \in Nat
      /\ \A k \in 1..Len(s) : t[k] = s[k]
      /\ t[Len(s) + 1] = m
  BY AppendProperties
<1> HIDE DEF t
<1>2. 1..Len(s) + 1 = 1..Len(s) \cup {Len(s) + 1} /\ Len(s) + 1 \notin 1..Len(s)
  BY <1>1
<1>3. \A x : x \in NamesIn(t) <=> x \in NamesIn(s) \/ x = Name(m)
  BY <1>1, <1>2 DEF NamesIn
<1>4. ASSUME Once(s), Name(m) # Nameless => Name(m) \notin NamesIn(s) PROVE Once(t)
  <2> SUFFICES ASSUME NEW k \in DOMAIN t, NEW l \in DOMAIN t,
                      Name(t[k]) = Name(t[l]), Name(t[k]) # Nameless
               PROVE  k = l
    BY DEF Once
  <2>1. CASE k \in 1..Len(s) /\ l \in 1..Len(s)
    BY <1>1, <1>4, <2>1 DEF Once
  <2>2. CASE k \in 1..Len(s) /\ l = Len(s) + 1
    BY <1>1, <1>4, <2>2 DEF NamesIn
  <2>3. CASE k = Len(s) + 1 /\ l \in 1..Len(s)
    BY <1>1, <1>4, <2>3 DEF NamesIn
  <2> QED BY <1>1, <1>2, <2>1, <2>2, <2>3
<1> QED
  BY <1>3, <1>4 DEF t

\* The names in a queue that its head is taken from.
LEMMA NamesTail ==
    ASSUME NEW X, NEW s \in Seq(X), s # <<>>, Once(s)
    PROVE  /\ Name(Head(s)) \in NamesIn(s) /\ Once(Tail(s))
           /\ \A x : x # Nameless =>
                (x \in NamesIn(Tail(s)) <=> x \in NamesIn(s) /\ x # Name(Head(s)))
<1> DEFINE t == Tail(s)
<1>1. /\ Len(s) \in Nat /\ Len(s) >= 1 /\ DOMAIN s = 1..Len(s) /\ DOMAIN t = 1..Len(s) - 1
      /\ \A k \in 1..Len(s) - 1 : t[k] = s[k + 1] /\ k + 1 \in 1..Len(s)
      /\ Head(s) = s[1] /\ 1 \in 1..Len(s)
  BY HeadTailProperties
<1> HIDE DEF t
<1>2. Name(Head(s)) \in NamesIn(s)
  BY <1>1 DEF NamesIn
<1>3. \A k, l \in 1..Len(s) - 1 : k + 1 = l + 1 => k = l
  OBVIOUS
<1>4. Once(t)
  BY <1>1, <1>3 DEF Once
<1>5. ASSUME NEW x, x # Nameless, x \in NamesIn(t) PROVE x \in NamesIn(s) /\ x # Name(Head(s))
  <2>1. PICK k \in 1..Len(s) - 1 : x = Name(s[k + 1])
    BY <1>1, <1>5 DEF NamesIn
  <2>2. k + 1 # 1 /\ k + 1 \in 1..Len(s)
    BY <1>1
  <2> QED BY <1>1, <1>5, <2>1, <2>2 DEF NamesIn, Once
<1>6. ASSUME NEW x, x \in NamesIn(s), x # Name(Head(s)) PROVE x \in NamesIn(t)
  <2>1. PICK k \in 1..Len(s) : x = Name(s[k])
    BY <1>1, <1>6 DEF NamesIn
  <2>2. k - 1 \in 1..Len(s) - 1 /\ t[k - 1] = s[k]
    <3>1. k # 1
      BY <1>1, <1>6, <2>1
    <3>2. k - 1 \in 1..Len(s) - 1 /\ (k - 1) + 1 = k
      BY <1>1, <3>1
    <3> QED BY <1>1, <3>2
  <2> QED BY <1>1, <2>1, <2>2 DEF NamesIn
<1> QED
  BY <1>2, <1>4, <1>5, <1>6 DEF t

\* A step may take some to a new container each, and leaves the others.
LEMMA Kept ==
    ASSUME Partition,
           \A x \in Known' : \/ x \in Known /\ \A c : At(x, c)' <=> At(x, c)
                             \/ \E d : \A c : At(x, c)' <=> c = d,
           \A x, c : At(x, c)' /\ x # Nameless => x \in Known'
    PROVE  Partition'
<1>1. ASSUME NEW x \in Known' PROVE \E c : At(x, c)' /\ \A d : At(x, d)' => d = c
  <2>1. CASE x \in Known /\ \A c : At(x, c)' <=> At(x, c)
    <3>1. PICK c : At(x, c) /\ \A d : At(x, d) => d = c
      BY <2>1 DEF Partition
    <3> QED BY <2>1, <3>1
  <2>2. CASE \E d : \A c : At(x, c)' <=> c = d
    BY <2>2
  <2> QED BY <2>1, <2>2
<1> QED
  BY <1>1 DEF Partition

\* An instance receives: from its queue into its hand.
LEMMA ReceivePlaces ==
    ASSUME IInv, PlaceInv, NEW h \in Insts, Receive(h)
    PROVE  PlaceInv'
<1> DEFINE m == Head(rx[h])
<1>1. /\ hand[h] = Nothing /\ rx[h] # <<>>
      /\ hand' = [hand EXCEPT ![h] = m] /\ rx' = [rx EXCEPT ![h] = Tail(@)]
      /\ UNCHANGED <<kq, mq, closed, answered, dropped, sent, mTransID>>
  BY DEF Receive, boot
<1>2. /\ rx \in [Insts -> Seq(Traffic)] /\ hand \in [Insts -> Traffic \cup {Nothing}]
      /\ \A i \in Insts : Once(rx[i])
  BY DEF IInv, QueuesOK, PlaceInv, KindsOK
<1>3. m \in Traffic
  BY <1>1, <1>2, TailElements
<1>4. /\ Name(m) \in NamesIn(rx[h]) /\ Once(Tail(rx[h]))
      /\ \A x : x # Nameless =>
           (x \in NamesIn(Tail(rx[h])) <=> x \in NamesIn(rx[h]) /\ x # Name(m))
  BY <1>1, <1>2, NamesTail
<1> HIDE DEF m
<1>5. /\ \A i \in Insts : i # h => rx'[i] = rx[i] /\ hand'[i] = hand[i]
      /\ rx'[h] = Tail(rx[h]) /\ hand'[h] = m
  BY <1>1, <1>2
<1>6. Name(hand[h]) = Nameless
  BY <1>1 DEF Name, Nothing
<1>7. Known' = Known
  BY <1>1 DEF Known
<1>8. ASSUME NEW x \in Known, x = Name(m) PROVE \A c : At(x, c)' <=> c = <<"hand", h>>
  <2>1. At(x, <<"queue", h>>)
    BY <1>4, <1>8 DEF At
  <2>2. \A d : At(x, d) => d = <<"queue", h>>
    BY <2>1 DEF PlaceInv, Partition
  <2>3. x # Nameless
    BY KnownHasName
  <2> QED BY <1>1, <1>4, <1>5, <1>8, <2>2, <2>3 DEF At
<1>9. ASSUME NEW x, x # Nameless, x # Name(m) PROVE \A c : At(x, c)' <=> At(x, c)
  BY <1>1, <1>4, <1>5, <1>6, <1>9 DEF At
<1>10. ASSUME NEW x, NEW c, At(x, c)', x # Nameless PROVE x \in Known
  <2>1. CASE x = Name(m)
    BY <1>4, <1>10, <2>1 DEF At, PlaceInv, Partition
  <2>2. CASE x # Name(m)
    BY <1>9, <1>10, <2>2 DEF PlaceInv, Partition
  <2> QED BY <2>1, <2>2
<1>11. Partition'
  <2>1. \A x \in Known' : \/ x \in Known /\ \A c : At(x, c)' <=> At(x, c)
                          \/ \E d : \A c : At(x, c)' <=> c = d
    BY <1>7, <1>8, <1>9, KnownHasName
  <2>2. \A x, c : At(x, c)' /\ x # Nameless => x \in Known'
    BY <1>7, <1>10
  <2> QED BY <2>1, <2>2, Kept DEF PlaceInv
<1>12. KindsOK'
  BY <1>1, <1>2, <1>3 DEF PlaceInv, KindsOK
<1>13. Once(kq)' /\ Once(mq)' /\ \A i \in Insts : Once(rx[i])'
  BY <1>1, <1>4, <1>5 DEF PlaceInv, Once
<1> QED
  BY <1>11, <1>12, <1>13 DEF PlaceInv

\* One of them moves.
LEMMA Moved ==
    ASSUME Partition, Known' = Known, NEW y, NEW d0,
           y # Nameless => y \in Known /\ \A c : At(y, c)' <=> c = d0,
           \A x : x # Nameless /\ x # y => \A c : At(x, c)' <=> At(x, c)
    PROVE  Partition'
<1>1. \A x \in Known' : \/ x \in Known /\ \A c : At(x, c)' <=> At(x, c)
                        \/ \E d : \A c : At(x, c)' <=> c = d
  BY KnownHasName
<1>2. ASSUME NEW x, NEW c, At(x, c)', x # Nameless PROVE x \in Known'
  <2>1. CASE x = y
    BY <1>2, <2>1
  <2>2. CASE x # y
    BY <1>2, <2>2 DEF Partition
  <2> QED BY <2>1, <2>2
<1> QED
  BY <1>1, <1>2, Kept

\* Some come to be, and one may move.
LEMMA Created ==
    ASSUME Partition, NEW New, \A x : x \in Known' <=> x \in Known \/ x \in New,
           NEW y, NEW d0,
           y # Nameless => y \in Known /\ \A c : At(y, c)' <=> c = d0,
           \A x \in New : \E d : \A c : At(x, c)' <=> c = d,
           \A x : x # Nameless /\ x # y /\ x \notin New => \A c : At(x, c)' <=> At(x, c)
    PROVE  Partition'
<1>1. \A x \in Known' : \/ x \in Known /\ \A c : At(x, c)' <=> At(x, c)
                        \/ \E d : \A c : At(x, c)' <=> c = d
  BY KnownHasName
<1>2. ASSUME NEW x, NEW c, At(x, c)', x # Nameless PROVE x \in Known'
  <2>1. CASE x = y \/ x \in New
    BY <1>2, <2>1
  <2>2. CASE x # y /\ x \notin New
    BY <1>2, <2>2 DEF Partition
  <2> QED BY <2>1, <2>2
<1> QED
  BY <1>1, <1>2, Kept

\* What is in hand is nowhere else.
LEMMA InHandOnly ==
    ASSUME Partition, NEW h \in Insts, Name(hand[h]) # Nameless
    PROVE  /\ Name(hand[h]) \in Known
           /\ \A c : At(Name(hand[h]), c) => c = <<"hand", h>>
<1>1. At(Name(hand[h]), <<"hand", h>>)
  BY DEF At
<1> QED
  BY <1>1 DEF Partition

\* A handler returns or throws: from the hand to the past, or to the manager.
LEMMA FinishPlaces ==
    ASSUME IInv, PlaceInv, NEW h \in Insts, Finish(h)
    PROVE  PlaceInv'
<1> DEFINE m == hand[h]
<1>0. PICK y : y = Name(m)
  OBVIOUS
<1>1. /\ m.kind \in {"msg", "timeout"} /\ hand' = [hand EXCEPT ![h] = Nothing]
      /\ closed' = IF m.kind = "msg" /\ ~m.copy THEN closed \cup {Stamp(m)} ELSE closed
      /\ UNCHANGED <<kq, mq, rx, answered, dropped, sent, mTransID>>
  BY DEF Finish, boot, queues
<1>2. hand \in [Insts -> Traffic \cup {Nothing}] /\ m \in Traffic \cup {Nothing}
  BY DEF PlaceInv, KindsOK
<1>3. m.kind = "msg" => Stamp(m) \in Insts \X Nat
  BY <1>2 DEF Traffic, Msgs, Requests, TimeOut, Nothing, Stamp
<1>4. m.kind = "msg" /\ ~m.copy => y = Stamp(m)
  BY <1>0 DEF Name
<1>5. ~(m.kind = "msg" /\ ~m.copy) => y = Nameless
  BY <1>0, <1>1 DEF Name
<1>6. y # Nameless => /\ y \in Known
                      /\ \A c : At(y, c) => c = <<"hand", h>>
  BY <1>0, InHandOnly DEF PlaceInv
<1> HIDE DEF m
<1>7. /\ \A i \in Insts : i # h => hand'[i] = hand[i]
      /\ hand'[h] = Nothing /\ Name(Nothing) = Nameless
  BY <1>1, <1>2 DEF Name, Nothing
<1>8. Known' = Known
  BY <1>1 DEF Known
<1>9. y # Nameless => \A c : At(y, c)' <=> c = <<"closed", 0>>
  BY <1>1, <1>4, <1>5, <1>6, <1>7 DEF At
<1>10. \A x : x # Nameless /\ x # y => \A c : At(x, c)' <=> At(x, c)
  BY <1>0, <1>1, <1>4, <1>5, <1>7 DEF At, m
<1>11. Partition'
  BY <1>6, <1>8, <1>9, <1>10, Moved DEF PlaceInv
<1>12. KindsOK'
  BY <1>1, <1>2, <1>3 DEF PlaceInv, KindsOK
<1>13. Once(kq)' /\ Once(mq)' /\ \A i \in Insts : Once(rx[i])'
  BY <1>1 DEF PlaceInv, Once
<1> QED
  BY <1>11, <1>12, <1>13 DEF PlaceInv

\* An exception in a handler: the request it held is dropped, nothing is in two places.
LEMMA ThrowPlaces ==
    ASSUME IInv, PlaceInv, NEW h \in Insts, Throw(h)
    PROVE  PlaceInv'
<1> DEFINE m == hand[h]
<1>0. PICK y : y = Name(m)
  OBVIOUS
<1>1. /\ m.kind = "event" /\ hand' = [hand EXCEPT ![h] = Nothing]
      /\ dropped' = dropped \cup {m.trans}
      /\ UNCHANGED <<kq, mq, rx, answered, closed, sent, mTransID>>
  BY DEF Throw, boot, queues
<1>2. hand \in [Insts -> Traffic \cup {Nothing}]
  BY DEF PlaceInv, KindsOK
<1>3. y = <<0, m.trans>>
  BY <1>0, <1>1 DEF Name
<1>4. y # Nameless => /\ y \in Known
                      /\ \A c : At(y, c) => c = <<"hand", h>>
  BY <1>0, InHandOnly DEF PlaceInv
<1> HIDE DEF m
<1>5. /\ \A i \in Insts : i # h => hand'[i] = hand[i]
      /\ hand'[h] = Nothing /\ Name(Nothing) = Nameless
  BY <1>1, <1>2 DEF Name, Nothing
<1>6. Known' = Known
  BY <1>1 DEF Known
<1>7. \A x : x \in {<<0, k>> : k \in dropped'} <=> x \in {<<0, k>> : k \in dropped} \/ x = y
  BY <1>1, <1>3
<1>8. y # Nameless => \A c : At(y, c)' <=> c = <<"dropped", 0>>
  BY <1>1, <1>4, <1>5, <1>7 DEF At
<1>9. \A x : x # Nameless /\ x # y => \A c : At(x, c)' <=> At(x, c)
  BY <1>0, <1>1, <1>5, <1>7 DEF At, m
<1>10. Partition'
  BY <1>4, <1>6, <1>8, <1>9, Moved DEF PlaceInv
<1>11. KindsOK'
  BY <1>1, <1>2 DEF PlaceInv, KindsOK
<1>12. Once(kq)' /\ Once(mq)' /\ \A i \in Insts : Once(rx[i])'
  BY <1>1 DEF PlaceInv, Once
<1> QED
  BY <1>10, <1>11, <1>12 DEF PlaceInv

\* A request that is handled: its reply is on the manager's queue only.
LEMMA FinishEventPlaces ==
    ASSUME IInv, PlaceInv, NEW h \in Insts, FinishEvent(h)
    PROVE  PlaceInv'
<1> DEFINE m == hand[h]
<1>0. PICK y : y = Name(m)
  OBVIOUS
<1>1. PICK st \in StatusOf(h, m.ev) : mq' = Append(mq, Reply(h, m, st))
  BY DEF FinishEvent
<1> DEFINE r == Reply(h, m, st)
<1>2. /\ m.kind = "event" /\ hand' = [hand EXCEPT ![h] = Nothing]
      /\ UNCHANGED <<kq, rx, answered, closed, dropped, sent, mTransID>>
  BY DEF FinishEvent, boot, history
<1>3. /\ hand \in [Insts -> Traffic \cup {Nothing}] /\ m \in Traffic \cup {Nothing}
      /\ mq \in Seq(Replies) /\ Once(mq)
  BY DEF PlaceInv, KindsOK
<1>4. y = <<0, m.trans>> /\ Name(r) = y
  BY <1>0, <1>2 DEF Name, Reply
<1>5. r \in Replies
  <2>1. m \in Requests
    BY <1>2, <1>3 DEF Traffic, Msgs, TimeOut, Nothing
  <2>2. st \in {1, 2}
    BY <1>1 DEF StatusOf
  <2> QED BY <2>1, <2>2 DEF Requests, Replies, Reply
<1>6. y # Nameless => /\ y \in Known
                      /\ \A c : At(y, c) => c = <<"hand", h>>
  BY <1>0, InHandOnly DEF PlaceInv
<1>7. y # Nameless => y \notin NamesIn(mq)
  BY <1>6 DEF At
<1> HIDE DEF m, r
<1>8. /\ \A x : x \in NamesIn(mq') <=> x \in NamesIn(mq) \/ x = y
      /\ Once(mq') /\ mq' \in Seq(Replies)
  BY <1>1, <1>3, <1>4, <1>5, <1>7, NamesAppend, AppendProperties DEF r, m
<1>9. /\ \A i \in Insts : i # h => hand'[i] = hand[i]
      /\ hand'[h] = Nothing /\ Name(Nothing) = Nameless
  BY <1>2, <1>3 DEF Name, Nothing
<1>10. Known' = Known
  BY <1>2 DEF Known
<1>11. y # Nameless => \A c : At(y, c)' <=> c = <<"manager", 0>>
  BY <1>2, <1>6, <1>8, <1>9 DEF At
<1>12. \A x : x # Nameless /\ x # y => \A c : At(x, c)' <=> At(x, c)
  BY <1>0, <1>2, <1>8, <1>9 DEF At, m
<1>13. Partition'
  BY <1>6, <1>10, <1>11, <1>12, Moved DEF PlaceInv
<1>14. KindsOK'
  BY <1>2, <1>3, <1>8 DEF PlaceInv, KindsOK, Replies
<1>15. Once(kq)' /\ Once(mq)' /\ \A i \in Insts : Once(rx[i])'
  BY <1>2, <1>8 DEF PlaceInv, Once
<1> QED
  BY <1>13, <1>14, <1>15 DEF PlaceInv

\* An instance sends: one comes to be, in the queue of the kernel.
LEMMA SendNames ==
    ASSUME IInv, PlaceInv, NEW h \in Insts, NEW a \in Addresses, SendMsg(h, a),
           mTransID' = mTransID
    PROVE  \E w : /\ w # Nameless /\ \A c : ~At(w, c)
                  /\ \A x : x \in Known' <=> x \in Known \/ x = w
                  /\ \A x : x \in NamesIn(kq') <=> x \in NamesIn(kq) \/ x = w
                  /\ Once(kq')
                  /\ \A k \in DOMAIN kq' : kq'[k].kind = "msg" => ~kq'[k].copy
<1> DEFINE m == NewMsg(h, a)
<1>1. PICK w : w = <<h, sent[h] + 1>>
  OBVIOUS
<1>2. /\ kq' = Append(kq, m) /\ sent' = [sent EXCEPT ![h] = @ + 1]
      /\ sent \in [Insts -> Nat] /\ kq \in Seq(Traffic) /\ m \in Traffic /\ ~m.copy
      /\ Name(m) = w
  BY <1>1, NewMsgType DEF SendMsg, IInv, QueuesOK, Traffic, NewMsg, Name, Stamp
<1> HIDE DEF m
<1>3. 0 \notin Insts
  BY FrameAssumption, FS_CardinalityType
<1>4. w # Nameless /\ w \notin Known
  <2>1. ASSUME NEW i \in Insts, NEW n \in 1..sent[i] PROVE <<i, n>> # w
    BY <1>1, <1>2, <2>1
  <2>2. \A k : <<0, k>> # w
    BY <1>1, <1>3
  <2> QED BY <1>1, <1>3, <2>1, <2>2 DEF Known, Nameless
<1>5. \A c : ~At(w, c)
  BY <1>4 DEF PlaceInv, Partition
<1>6. ASSUME NEW x PROVE x \in Known' <=> x \in Known \/ x = w
  <2>1. /\ \A i \in Insts : i # h => sent'[i] = sent[i]
        /\ sent'[h] = sent[h] + 1 /\ sent[h] \in Nat
    BY <1>2
  <2>2. 1..sent'[h] = 1..sent[h] \cup {sent[h] + 1}
    BY <2>1
  <2> QED BY <1>1, <2>1, <2>2 DEF Known
<1>7. w \notin NamesIn(kq)
  BY <1>5 DEF At
<1>8. Once(kq') /\ \A x : x \in NamesIn(kq') <=> x \in NamesIn(kq) \/ x = w
  BY <1>2, <1>7, NamesAppend DEF PlaceInv
<1>9. \A k \in DOMAIN kq' : kq'[k].kind = "msg" => ~kq'[k].copy
  BY <1>2, AppendElements DEF PlaceInv, KindsOK
<1> QED
  BY <1>4, <1>5, <1>6, <1>8, <1>9

\* A message sent to an address: it is on that queue and nowhere else.
LEMMA SendPlaces ==
    ASSUME IInv, PlaceInv, NEW h \in Insts, NEW a \in Addresses, Send(h, a)
    PROVE  PlaceInv'
<1>1. SendMsg(h, a) /\ UNCHANGED <<mq, rx, hand, mTransID, closed, answered, dropped>>
  BY DEF Send
<1>2. PICK w : /\ w # Nameless /\ \A c : ~At(w, c)
               /\ \A x : x \in Known' <=> x \in Known \/ x = w
               /\ \A x : x \in NamesIn(kq') <=> x \in NamesIn(kq) \/ x = w
               /\ Once(kq')
               /\ \A k \in DOMAIN kq' : kq'[k].kind = "msg" => ~kq'[k].copy
  BY <1>1, SendNames
<1>3. \A c : At(w, c)' <=> c = <<"kernel", 0>>
  BY <1>1, <1>2 DEF At
<1>4. \A x : x # w => \A c : At(x, c)' <=> At(x, c)
  BY <1>1, <1>2 DEF At
<1>5. Partition'
  <2>1. PICK New : New = {w}
    OBVIOUS
  <2>2. \A x \in New : \E d : \A c : At(x, c)' <=> c = d
    BY <1>3, <2>1
  <2>3. \A x : x # Nameless /\ x # Nameless /\ x \notin New => \A c : At(x, c)' <=> At(x, c)
    BY <1>4, <2>1
  <2>4. \A x : x \in Known' <=> x \in Known \/ x \in New
    BY <1>2, <2>1
  <2>5. Partition
    BY DEF PlaceInv
  <2> QED BY <2>2, <2>3, <2>4, <2>5, Created
<1>6. KindsOK'
  BY <1>1, <1>2 DEF PlaceInv, KindsOK
<1>7. Once(kq)' /\ Once(mq)' /\ \A i \in Insts : Once(rx[i])'
  BY <1>1, <1>2 DEF PlaceInv, Once
<1> QED
  BY <1>5, <1>6, <1>7 DEF PlaceInv

\* ... and what it was handling may be handed on.
LEMMA ForwardPlaces ==
    ASSUME IInv, PlaceInv, NEW h \in Insts, NEW a \in Addresses, Forward(h, a)
    PROVE  PlaceInv'
<1> DEFINE m == hand[h]
<1>1. /\ m.kind = "msg" /\ SendMsg(h, a) /\ hand' = [hand EXCEPT ![h] = Nothing]
      /\ closed' = IF m.copy THEN closed ELSE closed \cup {Stamp(m)}
      /\ UNCHANGED <<mq, rx, mTransID, answered, dropped>>
  BY DEF Forward
<1>2. hand \in [Insts -> Traffic \cup {Nothing}] /\ m \in Traffic \cup {Nothing}
  BY DEF PlaceInv, KindsOK
<1>3. Stamp(m) \in Insts \X Nat
  BY <1>1, <1>2 DEF Traffic, Msgs, Requests, TimeOut, Nothing, Stamp
<1>4. PICK y : y = Name(m)
  OBVIOUS
<1>5. y = IF m.copy THEN Nameless ELSE Stamp(m)
  BY <1>1, <1>4 DEF Name
<1>6. y # Nameless => y \in Known /\ \A c : At(y, c) => c = <<"hand", h>>
  BY <1>4, InHandOnly DEF PlaceInv
<1>7. PICK w : /\ w # Nameless /\ \A c : ~At(w, c)
               /\ \A x : x \in Known' <=> x \in Known \/ x = w
               /\ \A x : x \in NamesIn(kq') <=> x \in NamesIn(kq) \/ x = w
               /\ Once(kq')
               /\ \A k \in DOMAIN kq' : kq'[k].kind = "msg" => ~kq'[k].copy
  BY <1>1, SendNames
<1>8. y # w
  <2>1. At(y, <<"hand", h>>)
    BY <1>4 DEF At
  <2> QED BY <1>7, <2>1
<1> HIDE DEF m
<1>9. /\ \A i \in Insts : i # h => hand'[i] = hand[i]
      /\ hand'[h] = Nothing /\ Name(Nothing) = Nameless
  BY <1>1, <1>2 DEF Name, Nothing
<1>10. \A x : x # Nameless => (x \in closed' <=> x \in closed \/ x = y)
  BY <1>1, <1>5
<1>11. \A c : At(w, c)' <=> c = <<"kernel", 0>>
  BY <1>1, <1>7, <1>8, <1>9, <1>10 DEF At
<1>12. y # Nameless => \A c : At(y, c)' <=> c = <<"closed", 0>>
  BY <1>1, <1>6, <1>7, <1>8, <1>9, <1>10 DEF At
<1>13. \A x : x # Nameless /\ x # y /\ x # w => \A c : At(x, c)' <=> At(x, c)
  BY <1>1, <1>4, <1>7, <1>9, <1>10 DEF At, m
<1>14. Partition'
  <2>1. PICK New : New = {w}
    OBVIOUS
  <2>2. \A x \in New : \E d : \A c : At(x, c)' <=> c = d
    BY <1>11, <2>1
  <2>3. \A x : x # Nameless /\ x # y /\ x \notin New => \A c : At(x, c)' <=> At(x, c)
    BY <1>13, <2>1
  <2>4. \A x : x \in Known' <=> x \in Known \/ x \in New
    BY <1>7, <2>1
  <2>5. y # Nameless => y \in Known /\ \A c : At(y, c)' <=> c = <<"closed", 0>>
    BY <1>6, <1>12
  <2>6. Partition
    BY DEF PlaceInv
  <2> QED BY <2>2, <2>3, <2>4, <2>5, <2>6, Created
<1>15. KindsOK'
  BY <1>1, <1>2, <1>3, <1>7 DEF PlaceInv, KindsOK
<1>16. Once(kq)' /\ Once(mq)' /\ \A i \in Insts : Once(rx[i])'
  BY <1>1, <1>7 DEF PlaceInv, Once
<1> QED
  BY <1>14, <1>15, <1>16 DEF PlaceInv

\* Some instances are asked, each for a transaction of its own, or for nothing.
LEMMA AskingPlaces ==
    ASSUME IInv, PlaceInv, NEW S \in SUBSET Insts, NEW d,
           \A i \in S : d[i] \in Traffic,
           \A i, j \in S : Name(d[i]) = Name(d[j]) /\ Name(d[i]) # Nameless => i = j,
           \A i \in S : Name(d[i]) \notin Known,
           \A x : x \in Known' <=> x \in Known \/ \E i \in S : x = Name(d[i]) /\ x # Nameless,
           rx' = [i \in Insts |-> IF i \in S THEN Append(rx[i], d[i]) ELSE rx[i]],
           UNCHANGED <<kq, mq, hand, closed, answered, dropped>>
    PROVE  PlaceInv'
<1> DEFINE New == {Name(d[i]) : i \in S} \ {Nameless}
<1>1. \A i \in Insts : rx[i] \in Seq(Traffic) /\ Once(rx[i])
  BY DEF IInv, QueuesOK, PlaceInv
<1>2. \A x \in New : \A c : ~At(x, c)
  BY DEF PlaceInv, Partition
<1>3. ASSUME NEW i \in S
      PROVE  /\ Once(rx'[i])
             /\ \A x : x \in NamesIn(rx'[i]) <=> x \in NamesIn(rx[i]) \/ x = Name(d[i])
  <2>1. Name(d[i]) # Nameless => Name(d[i]) \notin NamesIn(rx[i])
    BY <1>2 DEF At
  <2> QED BY <1>1, <2>1, NamesAppend
<1>4. \A i \in Insts : i \notin S => rx'[i] = rx[i]
  OBVIOUS
<1>5. ASSUME NEW x \in New PROVE \E e : \A c : At(x, c)' <=> c = e
  <2>1. PICK i \in S : x = Name(d[i]) /\ x # Nameless
    OBVIOUS
  <2>2. \A j \in S : x = Name(d[j]) => j = i
    BY <2>1
  <2>3. \A j \in Insts : x \in NamesIn(rx'[j]) <=> j = i
    BY <1>2, <1>3, <1>4, <2>1, <2>2 DEF At
  <2>4. \A c : At(x, c)' <=> c = <<"queue", i>>
    BY <1>2, <2>3 DEF At
  <2> QED BY <2>4
<1>6. ASSUME NEW x, x # Nameless, x \notin New PROVE \A c : At(x, c)' <=> At(x, c)
  <2>1. \A j \in Insts : x \in NamesIn(rx'[j]) <=> x \in NamesIn(rx[j])
    BY <1>3, <1>4, <1>6
  <2> QED BY <2>1 DEF At
<1>7. \A x : x \in Known' <=> x \in Known \/ x \in New
  OBVIOUS
<1>8. Partition'
  <2> HIDE DEF New
  <2> QED BY <1>5, <1>6, <1>7, Created DEF PlaceInv
<1>9. KindsOK'
  BY DEF PlaceInv, KindsOK
<1>10. Once(kq)' /\ Once(mq)' /\ \A i \in Insts : Once(rx[i])'
  BY <1>3, <1>4 DEF PlaceInv, Once
<1> QED
  BY <1>8, <1>9, <1>10 DEF PlaceInv

\* A timer that expires: its timeout has no name, and nothing else moves.
LEMMA ExpirePlaces ==
    ASSUME IInv, PlaceInv, NEW h \in Insts, Expire(h)
    PROVE  PlaceInv'
<1>1. /\ UNCHANGED <<kq, mq, hand, sent, mTransID, closed, answered, dropped>>
      /\ rx' = [rx EXCEPT ![h] = Append(@, TimeOut)]
  BY DEF Expire, history
<1>2. PICK d : d = [i \in Insts |-> TimeOut]
  OBVIOUS
<1>3. PICK S : S = {h}
  OBVIOUS
<1>4. rx' = [i \in Insts |-> IF i \in S THEN Append(rx[i], d[i]) ELSE rx[i]]
  BY <1>1, <1>2, <1>3 DEF IInv, QueuesOK
<1>5. \A i \in S : d[i] \in Traffic /\ Name(d[i]) = Nameless
  BY <1>2, <1>3, Elements DEF Name, TimeOut
<1>6. Known' = Known
  BY <1>1 DEF Known
<1>7. \A i \in S : Name(d[i]) \notin Known
  BY <1>5, KnownHasName
<1> QED
  BY <1>1, <1>3, <1>4, <1>5, <1>6, <1>7, AskingPlaces

\* What the manager asks has the next transactions.
LEMMA NewTransactions ==
    ASSUME IInv, NEW n \in Nat, mTransID' = mTransID + n, sent' = sent
    PROVE  /\ \A x : x \in Known' <=> \/ x \in Known
                                      \/ \E k \in mTransID + 1..mTransID + n : x = <<0, k>>
           /\ \A k \in mTransID + 1..mTransID + n : <<0, k>> \notin Known /\ <<0, k>> # Nameless
<1>1. mTransID \in Nat /\ 0 \notin Insts
  BY FrameAssumption, FS_CardinalityType DEF IInv, QueuesOK
<1>2. 1..mTransID' = 1..mTransID \cup (mTransID + 1..mTransID + n)
  BY <1>1
<1>3. \A k \in mTransID + 1..mTransID + n : k \notin 1..mTransID /\ k # 0
  BY <1>1
<1>4. ASSUME NEW x
      PROVE  x \in Known' <=> \/ x \in Known
                              \/ \E k \in mTransID + 1..mTransID + n : x = <<0, k>>
  BY <1>2 DEF Known
<1>5. ASSUME NEW k \in mTransID + 1..mTransID + n
      PROVE  <<0, k>> \notin Known /\ <<0, k>> # Nameless
  BY <1>1, <1>3 DEF Known, Nameless
<1> QED
  BY <1>4, <1>5

\* A request of the manager is named by its transaction.
LEMMA RequestName == \A ev, k : Name(Request(ev, k)) = <<0, k>>
  BY DEF Name, Request

\* The manager starts an instance: the request is on that instance's queue only.
LEMMA StartTaskPlaces ==
    ASSUME IInv, PlaceInv, StartTask
    PROVE  PlaceInv'
<1> DEFINE h == booted + 1
<1>1. /\ h \in Insts /\ mTransID' = mTransID + 1
      /\ UNCHANGED <<kq, mq, hand, sent, closed, answered, dropped>>
      /\ rx' = [rx EXCEPT ![h] = Append(@, Request("INIT", mTransID + 1))]
  BY DEF StartTask, history
<1>2. PICK d : d = [i \in Insts |-> Request("INIT", mTransID + 1)]
  OBVIOUS
<1>3. PICK S : S = {h}
  OBVIOUS
<1>4. PICK t : t = mTransID + 1
  OBVIOUS
<1> HIDE DEF h
<1>5. rx' = [i \in Insts |-> IF i \in S THEN Append(rx[i], d[i]) ELSE rx[i]]
  BY <1>1, <1>2, <1>3 DEF IInv, QueuesOK
<1>6. mTransID \in Nat /\ mTransID + 1..mTransID + 1 = {t}
  BY <1>4 DEF IInv, QueuesOK
<1>7. \A i \in S : d[i] \in Traffic /\ Name(d[i]) = <<0, t>>
  <2>1. Request("INIT", mTransID + 1) \in Traffic
    BY <1>6, Elements DEF Traffic
  <2> QED BY <1>1, <1>2, <1>3, <1>4, <2>1, RequestName
<1>8. /\ \A x : x \in Known' <=> x \in Known \/ x = <<0, t>>
      /\ <<0, t>> \notin Known /\ <<0, t>> # Nameless
  BY <1>1, <1>6, NewTransactions
<1>9. \A x : x \in Known' <=> x \in Known \/ \E i \in S : x = Name(d[i]) /\ x # Nameless
  BY <1>3, <1>7, <1>8
<1>10. S \in SUBSET Insts
  BY <1>1, <1>3
<1>11. \A i, j \in S : Name(d[i]) = Name(d[j]) /\ Name(d[i]) # Nameless => i = j
  BY <1>3
<1>12. (\A i \in S : d[i] \in Traffic) /\ \A i \in S : Name(d[i]) \notin Known
  BY <1>7, <1>8
<1>13. UNCHANGED <<kq, mq, hand, closed, answered, dropped>>
  BY <1>1
<1> QED
  BY <1>5, <1>9, <1>10, <1>11, <1>12, <1>13, AskingPlaces

\* The instances a command addresses get transactions of their own, and each of the
\* new transactions is that of one of them.
LEMMA OwnTransactions ==
    ASSUME mTransID \in Nat, NEW c \in Commands
    PROVE  LET A == Addressed(c)
           IN /\ Cardinality(A) \in Nat
              /\ \A i \in A : TransOf(c, i) \in mTransID + 1..mTransID + Cardinality(A)
              /\ \A i, j \in A : TransOf(c, i) = TransOf(c, j) => i = j
              /\ \A k \in mTransID + 1..mTransID + Cardinality(A) :
                    \E i \in A : TransOf(c, i) = k
<1> DEFINE A == Addressed(c)
           upto(i) == {j \in A : j <= i}
           N == Cardinality(A)
<1>1. A \subseteq Insts /\ Insts \subseteq Nat
  BY FrameAssumption, FS_CardinalityType DEF Addressed
<1>2. IsFiniteSet(A) /\ N \in Nat
  BY <1>1, FrameAssumption, FS_Subset, FS_CardinalityType
<1>3. \A i \in A : TransOf(c, i) = mTransID + Cardinality(upto(i))
  BY DEF TransOf
<1> HIDE DEF A
<1>4. ASSUME NEW i \in A
      PROVE  IsFiniteSet(upto(i)) /\ Cardinality(upto(i)) \in 1..N
  <2>1. upto(i) \subseteq A /\ i \in upto(i)
    BY <1>1
  <2>2. IsFiniteSet(upto(i)) /\ Cardinality(upto(i)) <= N /\ Cardinality(upto(i)) \in Nat
    BY <1>2, <2>1, FS_Subset, FS_CardinalityType
  <2>3. Cardinality(upto(i)) # 0
    BY <2>1, <2>2, FS_EmptySet
  <2> QED BY <1>2, <2>2, <2>3
<1>5. ASSUME NEW i \in A, NEW j \in A, i < j
      PROVE  Cardinality(upto(i)) # Cardinality(upto(j))
  <2>1. \A k \in A : k <= i => k <= j
    BY <1>1, <1>5
  <2>2. i \in Nat /\ j \in Nat /\ j <= j /\ ~(j <= i)
    BY <1>1, <1>5
  <2>3. upto(i) \subseteq upto(j)
    BY <2>1
  <2>4. j \in upto(j)
    BY <2>2
  <2>5. j \notin upto(i)
    BY <2>2
  <2> QED BY <1>4, <2>3, <2>4, <2>5, FS_Subset
<1>6. ASSUME NEW i \in A, NEW j \in A, Cardinality(upto(i)) = Cardinality(upto(j))
      PROVE  i = j
  BY <1>1, <1>5, <1>6
<1> DEFINE f == [i \in A |-> Cardinality(upto(i))]
<1>7. f \in Injection(A, 1..N)
  BY <1>4, <1>6 DEF Injection, IsInjective
<1>8. IsFiniteSet(1..N) /\ Cardinality(1..N) = N
  BY <1>2, FS_Interval
<1>9. f \in Surjection(A, 1..N)
  BY <1>7, <1>8, FS_Injection
<1>10. \A k \in 1..N : \E i \in A : Cardinality(upto(i)) = k
  BY <1>9 DEF Surjection
<1> HIDE DEF f, upto, N
<1>11. \A i \in A : mTransID + Cardinality(upto(i)) \in mTransID + 1..mTransID + N
  BY <1>2, <1>4
<1>12. \A i, j \in A : mTransID + Cardinality(upto(i)) = mTransID + Cardinality(upto(j)) => i = j
  BY <1>2, <1>4, <1>6
<1>13. \A k \in mTransID + 1..mTransID + N : \E i \in A : mTransID + Cardinality(upto(i)) = k
  <2> SUFFICES ASSUME NEW k \in mTransID + 1..mTransID + N
               PROVE  \E i \in A : mTransID + Cardinality(upto(i)) = k
    OBVIOUS
  <2>1. k - mTransID \in 1..N /\ k \in Int
    BY <1>2
  <2>2. PICK i \in A : Cardinality(upto(i)) = k - mTransID
    BY <1>10, <2>1
  <2> QED BY <2>1, <2>2
<1>14. N = Cardinality(Addressed(c)) /\ A = Addressed(c)
  BY DEF N, A
<1> QED
  BY <1>2, <1>3, <1>11, <1>12, <1>13, <1>14

\* A command of the client: one request for each instance addressed.
LEMMA RecvCommandPlaces ==
    ASSUME IInv, PlaceInv, NEW c \in Commands, RecvCommand(c)
    PROVE  PlaceInv'
<1>1. /\ mTransID' = mTransID + Cardinality(Addressed(c))
      /\ UNCHANGED <<kq, mq, hand, sent, closed, answered, dropped>>
      /\ rx' = [i \in Insts |-> IF i \in Addressed(c)
                               THEN Append(rx[i], Request(EventOf(c), TransOf(c, i)))
                               ELSE rx[i]]
  BY DEF RecvCommand, history
<1>2. PICK d : d = [i \in Insts |-> Request(EventOf(c), TransOf(c, i))]
  OBVIOUS
<1>3. PICK S : S = Addressed(c)
  OBVIOUS
<1>4. S \subseteq Insts /\ mTransID \in Nat
  BY <1>3 DEF Addressed, IInv, QueuesOK
<1>5. rx' = [i \in Insts |-> IF i \in S THEN Append(rx[i], d[i]) ELSE rx[i]]
  BY <1>1, <1>2, <1>3
<1>6. \A i \in S : d[i] \in Traffic /\ Name(d[i]) = <<0, TransOf(c, i)>>
  BY <1>2, <1>4, CommandType, RequestName DEF Traffic
<1>7. /\ Cardinality(S) \in Nat
      /\ \A i \in S : TransOf(c, i) \in mTransID + 1..mTransID + Cardinality(S)
      /\ \A i, j \in S : TransOf(c, i) = TransOf(c, j) => i = j
      /\ \A k \in mTransID + 1..mTransID + Cardinality(S) : \E i \in S : TransOf(c, i) = k
  BY <1>3, <1>4, OwnTransactions
<1>8. /\ \A x : x \in Known' <=> \/ x \in Known
                                 \/ \E k \in mTransID + 1..mTransID + Cardinality(S) : x = <<0, k>>
      /\ \A k \in mTransID + 1..mTransID + Cardinality(S) :
            <<0, k>> \notin Known /\ <<0, k>> # Nameless
  BY <1>1, <1>3, <1>7, NewTransactions
<1>9. ASSUME NEW x
      PROVE  x \in Known' <=> x \in Known \/ \E i \in S : x = Name(d[i]) /\ x # Nameless
  <2>1. ASSUME NEW k \in mTransID + 1..mTransID + Cardinality(S), x = <<0, k>>
        PROVE  \E i \in S : x = Name(d[i]) /\ x # Nameless
    BY <1>6, <1>7, <1>8, <2>1
  <2>2. ASSUME NEW i \in S, x = Name(d[i]) PROVE x \in Known'
    BY <1>6, <1>7, <1>8, <2>2
  <2> QED BY <1>8, <2>1, <2>2
<1>10. \A i \in S : Name(d[i]) \notin Known
  BY <1>6, <1>7, <1>8
<1>11. \A i, j \in S : Name(d[i]) = Name(d[j]) /\ Name(d[i]) # Nameless => i = j
  BY <1>6, <1>7
<1>12. S \in SUBSET Insts /\ \A i \in S : d[i] \in Traffic
  BY <1>4, <1>6
<1>13. UNCHANGED <<kq, mq, hand, closed, answered, dropped>>
  BY <1>1
<1> QED
  BY <1>5, <1>9, <1>10, <1>11, <1>12, <1>13, AskingPlaces

\* The manager starts the kernel: the request is on the kernel's queue only.
LEMMA StartKernelPlaces ==
    ASSUME IInv, PlaceInv, StartKernel
    PROVE  PlaceInv'
<1>1. /\ kq' = Append(kq, Request("INIT", mTransID + 1)) /\ mTransID' = mTransID + 1
      /\ UNCHANGED <<mq, rx, hand, sent, closed, answered, dropped>>
  BY DEF StartKernel, history
<1>2. PICK t : t = mTransID + 1
  OBVIOUS
<1>3. PICK m : m = Request("INIT", t)
  OBVIOUS
<1>4. mTransID \in Nat /\ kq \in Seq(Traffic) /\ mTransID + 1..mTransID + 1 = {t}
  BY <1>2 DEF IInv, QueuesOK
<1>5. m \in Traffic /\ m.kind # "msg"
  BY <1>2, <1>3, <1>4, Elements DEF Traffic
<1>6. PICK w : w = <<0, t>>
  OBVIOUS
<1>7. Name(m) = w
  BY <1>3, <1>6, RequestName
<1>8. /\ \A x : x \in Known' <=> x \in Known \/ x = w
      /\ w \notin Known /\ w # Nameless
  BY <1>1, <1>4, <1>6, NewTransactions
<1>9. \A c : ~At(w, c)
  BY <1>8 DEF PlaceInv, Partition
<1>10. w \notin NamesIn(kq)
  BY <1>9 DEF At
<1>11. Once(kq') /\ \A x : x \in NamesIn(kq') <=> x \in NamesIn(kq) \/ x = w
  BY <1>1, <1>2, <1>3, <1>4, <1>5, <1>7, <1>10, NamesAppend DEF PlaceInv
<1>12. \A c : At(w, c)' <=> c = <<"kernel", 0>>
  BY <1>1, <1>9, <1>11 DEF At
<1>13. \A x : x # w => \A c : At(x, c)' <=> At(x, c)
  BY <1>1, <1>11 DEF At
<1>14. Partition'
  <2>1. PICK New : New = {w}
    OBVIOUS
  <2>2. \A x \in New : \E d : \A c : At(x, c)' <=> c = d
    BY <1>12, <2>1
  <2>3. \A x : x # Nameless /\ x # Nameless /\ x \notin New => \A c : At(x, c)' <=> At(x, c)
    BY <1>13, <2>1
  <2>4. \A x : x \in Known' <=> x \in Known \/ x \in New
    BY <1>8, <2>1
  <2>5. Partition
    BY DEF PlaceInv
  <2> QED BY <2>2, <2>3, <2>4, <2>5, Created
<1>15. KindsOK'
  <2>1. \A k \in DOMAIN kq' : kq'[k].kind = "msg" => ~kq'[k].copy
    BY <1>1, <1>2, <1>3, <1>4, <1>5, AppendElements DEF PlaceInv, KindsOK
  <2> QED BY <1>1, <2>1 DEF PlaceInv, KindsOK
<1>16. Once(kq)' /\ Once(mq)' /\ \A i \in Insts : Once(rx[i])'
  BY <1>1, <1>11 DEF PlaceInv, Once
<1> QED
  BY <1>14, <1>15, <1>16 DEF PlaceInv

\* The kernel takes its first: it is nowhere else, and not in the queue any more.
LEMMA TakenNames ==
    ASSUME IInv, PlaceInv, kq # <<>>, kq' = Tail(kq)
    PROVE  /\ Head(kq) \in Traffic /\ (Head(kq).kind = "msg" => ~Head(kq).copy)
           /\ Name(Head(kq)) # Nameless =>
                /\ Name(Head(kq)) \in Known
                /\ \A c : At(Name(Head(kq)), c) => c = <<"kernel", 0>>
           /\ \A x : x # Nameless =>
                (x \in NamesIn(kq') <=> x \in NamesIn(kq) /\ x # Name(Head(kq)))
           /\ Once(kq')
           /\ \A k \in DOMAIN kq' : kq'[k].kind = "msg" => ~kq'[k].copy
<1>1. kq \in Seq(Traffic) /\ Once(kq) /\ \A k \in DOMAIN kq : kq[k].kind = "msg" => ~kq[k].copy
  BY DEF IInv, QueuesOK, PlaceInv, KindsOK
<1>2. /\ Name(Head(kq)) \in NamesIn(kq) /\ Once(kq')
      /\ \A x : x # Nameless =>
            (x \in NamesIn(kq') <=> x \in NamesIn(kq) /\ x # Name(Head(kq)))
  BY <1>1, NamesTail
<1>3. /\ Head(kq) \in Traffic /\ (Head(kq).kind = "msg" => ~Head(kq).copy)
      /\ \A k \in DOMAIN kq' : kq'[k].kind = "msg" => ~kq'[k].copy
  BY <1>1, TailElements
<1>4. At(Name(Head(kq)), <<"kernel", 0>>)
  BY <1>2 DEF At
<1>5. Name(Head(kq)) # Nameless =>
        /\ Name(Head(kq)) \in Known
        /\ \A c : At(Name(Head(kq)), c) => c = <<"kernel", 0>>
  BY <1>4 DEF PlaceInv, Partition
<1> QED
  BY <1>2, <1>3, <1>5

\* The kernel answers its request: the reply is on the manager's queue only.
LEMMA KernelInitPlaces ==
    ASSUME IInv, PlaceInv, KernelInit
    PROVE  PlaceInv'
<1> DEFINE m == Head(kq)
<1>1. /\ kq # <<>> /\ m.kind = "event" /\ kq' = Tail(kq)
      /\ mq' = Append(mq, Reply(0, m, 1))
      /\ UNCHANGED <<rx, hand, sent, mTransID, closed, answered, dropped>>
  BY DEF KernelInit, boot, history
<1>2. PICK y : y = Name(m)
  OBVIOUS
<1>3. /\ m \in Traffic
      /\ y # Nameless => y \in Known /\ \A c : At(y, c) => c = <<"kernel", 0>>
      /\ \A x : x # Nameless => (x \in NamesIn(kq') <=> x \in NamesIn(kq) /\ x # y)
      /\ Once(kq')
      /\ \A k \in DOMAIN kq' : kq'[k].kind = "msg" => ~kq'[k].copy
  BY <1>1, <1>2, TakenNames
<1>4. PICK r : r = Reply(0, m, 1)
  OBVIOUS
<1>5. Name(r) = y
  BY <1>1, <1>2, <1>4 DEF Name, Reply
<1>6. r \in Replies
  <2>1. m \in Requests
    BY <1>1, <1>3 DEF Traffic, Msgs, TimeOut
  <2> QED BY <1>4, <2>1 DEF Requests, Replies, Reply
<1>7. mq \in Seq(Replies) /\ Once(mq)
  BY DEF PlaceInv, KindsOK
<1>8. y # Nameless => y \notin NamesIn(mq)
  BY <1>3 DEF At
<1> HIDE DEF m
<1>9. /\ \A x : x \in NamesIn(mq') <=> x \in NamesIn(mq) \/ x = y
      /\ Once(mq') /\ mq' \in Seq(Replies)
  BY <1>1, <1>4, <1>5, <1>6, <1>7, <1>8, NamesAppend, AppendProperties
<1>10. Known' = Known
  BY <1>1 DEF Known
<1>11. y # Nameless => \A c : At(y, c)' <=> c = <<"manager", 0>>
  BY <1>1, <1>3, <1>9 DEF At
<1>12. \A x : x # Nameless /\ x # y => \A c : At(x, c)' <=> At(x, c)
  BY <1>1, <1>3, <1>9 DEF At
<1>13. Partition'
  BY <1>3, <1>10, <1>11, <1>12, Moved DEF PlaceInv
<1>14. KindsOK'
  BY <1>1, <1>3, <1>9 DEF PlaceInv, KindsOK, Replies
<1>15. Once(kq)' /\ Once(mq)' /\ \A i \in Insts : Once(rx[i])'
  BY <1>1, <1>3, <1>9 DEF PlaceInv, Once
<1> QED
  BY <1>13, <1>14, <1>15 DEF PlaceInv

\* The manager takes a reply, if there is one.
LEMMA GetReplyPlaces ==
    ASSUME IInv, PlaceInv, mq # <<>>, mq' = Tail(mq),
           answered' = answered \cup {Head(mq).trans},
           UNCHANGED <<kq, rx, hand, sent, mTransID, closed, dropped>>
    PROVE  PlaceInv'
<1> DEFINE m == Head(mq)
<1>1. mq \in Seq(Replies) /\ Once(mq)
  BY DEF PlaceInv, KindsOK
<1>2. PICK y : y = Name(m)
  OBVIOUS
<1>3. m \in Replies /\ mq' \in Seq(Replies)
  BY <1>1, HeadTailProperties
<1>4. y = <<0, m.trans>>
  BY <1>2, <1>3 DEF Name, Replies
<1>5. /\ y \in NamesIn(mq) /\ Once(mq')
      /\ \A x : x # Nameless => (x \in NamesIn(mq') <=> x \in NamesIn(mq) /\ x # y)
  BY <1>1, <1>2, NamesTail
<1>6. y # Nameless => y \in Known /\ \A c : At(y, c) => c = <<"manager", 0>>
  <2>1. At(y, <<"manager", 0>>)
    BY <1>5 DEF At
  <2> QED BY <2>1 DEF PlaceInv, Partition
<1> HIDE DEF m
<1>7. \A x : x \in {<<0, k>> : k \in answered'} <=> x \in {<<0, k>> : k \in answered} \/ x = y
  BY <1>4 DEF m
<1>8. Known' = Known
  BY DEF Known
<1>9. y # Nameless => \A c : At(y, c)' <=> c = <<"answered", 0>>
  BY <1>5, <1>6, <1>7 DEF At
<1>10. \A x : x # Nameless /\ x # y => \A c : At(x, c)' <=> At(x, c)
  BY <1>5, <1>7 DEF At
<1>11. Partition'
  BY <1>6, <1>8, <1>9, <1>10, Moved DEF PlaceInv
<1>12. KindsOK'
  BY <1>3 DEF PlaceInv, KindsOK, Replies
<1>13. Once(kq)' /\ Once(mq)' /\ \A i \in Insts : Once(rx[i])'
  BY <1>5 DEF PlaceInv, Once
<1> QED
  BY <1>11, <1>12, <1>13 DEF PlaceInv

\* What the selector makes of a message: one instance is given it, or nobody and it is
\* refused, or it has been copied and deleted.
LEMMA AddOutcome ==
    ASSUME NEW m, m.msgType \in {"single", "broadcast", "multicast"},
           Selector!Add([msgType |-> m.msgType, task |-> m.task, inst |-> m.inst])
    PROVE  /\ m.msgType = "single" =>
                 ~last'.deleted /\ \/ ~last'.ret /\ last'.to = {}
                                   \/ last'.ret /\ \E i \in Insts : last'.to = {i}
           /\ m.msgType # "single" => last'.deleted
<1> DEFINE a == [msgType |-> m.msgType, task |-> m.task, inst |-> m.inst]
<1>1. ASSUME m.msgType = "single"
      PROVE  ~last'.deleted /\ \/ ~last'.ret /\ last'.to = {}
                               \/ last'.ret /\ \E i \in Insts : last'.to = {i}
  <2>1. Selector!SendMsgToTask(a)
    BY <1>1 DEF Selector!Add
  <2>2. CASE Selector!SendToInst(a)
    BY <2>2 DEF Selector!SendToInst, Selector!Outcome
  <2>3. CASE Selector!SendInTurn(a)
    BY <2>3 DEF Selector!SendInTurn, Selector!Outcome, Selector!Open
  <2>4. CASE Selector!SendToNobody(a)
    BY <2>4 DEF Selector!SendToNobody, Selector!Outcome
  <2> QED BY <2>1, <2>2, <2>3, <2>4 DEF Selector!SendMsgToTask
<1>2. ASSUME m.msgType # "single" PROVE last'.deleted
  BY <1>2 DEF Selector!Add, Selector!MulticastMsgToTask, Selector!BroadcastMsgToTask,
              Selector!Outcome
<1> QED
  BY <1>1, <1>2

\* Dispatched to one instance: from queue to queue.
LEMMA GivenPlaces ==
    ASSUME IInv, PlaceInv, kq # <<>>, kq' = Tail(kq), NEW h \in Insts, NEW d \in Traffic,
           Name(d) = Name(Head(kq)),
           rx' = [rx EXCEPT ![h] = Append(@, d)],
           UNCHANGED <<mq, hand, sent, mTransID, closed, answered, dropped>>
    PROVE  PlaceInv'
<1>1. PICK y : y = Name(Head(kq))
  OBVIOUS
<1>2. /\ y # Nameless => y \in Known /\ \A c : At(y, c) => c = <<"kernel", 0>>
      /\ \A x : x # Nameless => (x \in NamesIn(kq') <=> x \in NamesIn(kq) /\ x # y)
      /\ Once(kq')
      /\ \A k \in DOMAIN kq' : kq'[k].kind = "msg" => ~kq'[k].copy
  BY <1>1, TakenNames
<1>3. rx \in [Insts -> Seq(Traffic)] /\ \A i \in Insts : Once(rx[i])
  BY DEF IInv, QueuesOK, PlaceInv
<1>4. y # Nameless => y \notin NamesIn(rx[h])
  BY <1>2 DEF At
<1>5. rx'[h] = Append(rx[h], d) /\ \A i \in Insts : i # h => rx'[i] = rx[i]
  BY <1>3
<1>6. Once(rx'[h]) /\ \A x : x \in NamesIn(rx'[h]) <=> x \in NamesIn(rx[h]) \/ x = y
  BY <1>1, <1>3, <1>4, <1>5, NamesAppend
<1>7. Known' = Known
  BY DEF Known
<1>8. y # Nameless => \A c : At(y, c)' <=> c = <<"queue", h>>
  BY <1>2, <1>5, <1>6 DEF At
<1>9. \A x : x # Nameless /\ x # y => \A c : At(x, c)' <=> At(x, c)
  BY <1>2, <1>5, <1>6 DEF At
<1>10. Partition'
  BY <1>2, <1>7, <1>8, <1>9, Moved DEF PlaceInv
<1>11. KindsOK'
  BY <1>2 DEF PlaceInv, KindsOK
<1>12. Once(kq)' /\ Once(mq)' /\ \A i \in Insts : Once(rx[i])'
  <2>1. \A i \in Insts : Once(rx'[i])
    BY <1>3, <1>5, <1>6
  <2>2. Once(mq')
    BY DEF PlaceInv
  <2> QED BY <1>2, <2>1, <2>2 DEF Once
<1> QED
  BY <1>10, <1>11, <1>12 DEF PlaceInv

\* Refused, or copied to some: destroyed.
LEMMA DestroyedPlaces ==
    ASSUME IInv, PlaceInv, kq # <<>>, kq' = Tail(kq), Head(kq).kind = "msg",
           NEW S, NEW d \in Traffic, S = {} \/ Name(d) = Nameless,
           rx' = [i \in Insts |-> IF i \in S THEN Append(rx[i], d) ELSE rx[i]],
           closed' = closed \cup {Stamp(Head(kq))},
           UNCHANGED <<mq, hand, sent, mTransID, answered, dropped>>
    PROVE  PlaceInv'
<1>1. PICK y : y = Name(Head(kq))
  OBVIOUS
<1>2. /\ Head(kq) \in Traffic /\ ~Head(kq).copy
      /\ y # Nameless => y \in Known /\ \A c : At(y, c) => c = <<"kernel", 0>>
      /\ \A x : x # Nameless => (x \in NamesIn(kq') <=> x \in NamesIn(kq) /\ x # y)
      /\ Once(kq')
      /\ \A k \in DOMAIN kq' : kq'[k].kind = "msg" => ~kq'[k].copy
  BY <1>1, TakenNames
<1>3. y = Stamp(Head(kq)) /\ y \in Insts \X Nat
  BY <1>1, <1>2 DEF Name, Stamp, Traffic, Msgs, Requests, TimeOut
<1>4. ASSUME NEW i \in Insts
      PROVE  /\ Once(rx'[i])
             /\ \A x : x # Nameless => (x \in NamesIn(rx'[i]) <=> x \in NamesIn(rx[i]))
  <2>1. rx[i] \in Seq(Traffic) /\ Once(rx[i])
    BY DEF IInv, QueuesOK, PlaceInv
  <2>2. CASE i \in S
    <3>1. rx'[i] = Append(rx[i], d) /\ Name(d) = Nameless
      BY <2>2
    <3> QED BY <2>1, <3>1, NamesAppend
  <2>3. CASE i \notin S
    BY <2>1, <2>3
  <2> QED BY <2>2, <2>3
<1>5. Known' = Known
  BY DEF Known
<1>6. y # Nameless => \A c : At(y, c)' <=> c = <<"closed", 0>>
  BY <1>2, <1>3, <1>4 DEF At
<1>7. ASSUME NEW x, x # Nameless, x # y PROVE \A c : At(x, c)' <=> At(x, c)
  <2>1. x \in NamesIn(kq') <=> x \in NamesIn(kq)
    BY <1>2, <1>7
  <2>2. \A i \in Insts : x \in NamesIn(rx'[i]) <=> x \in NamesIn(rx[i])
    BY <1>4, <1>7
  <2>3. x \in closed' <=> x \in closed
    BY <1>3, <1>7
  <2> QED BY <2>1, <2>2, <2>3 DEF At
<1>8. Partition'
  BY <1>2, <1>5, <1>6, <1>7, Moved DEF PlaceInv
<1>9. KindsOK'
  BY <1>2, <1>3 DEF PlaceInv, KindsOK
<1>10. Once(kq)' /\ Once(mq)' /\ \A i \in Insts : Once(rx[i])'
  BY <1>2, <1>4 DEF PlaceInv, Once
<1> QED
  BY <1>8, <1>9, <1>10 DEF PlaceInv

\* The kernel takes a message: it is on the queues the selector chose, or deleted.
LEMMA DispatchPlaces ==
    ASSUME IInv, PlaceInv, Dispatch
    PROVE  PlaceInv'
<1>1. PICK m \in ToSet(kq) :
        /\ Take(m) /\ m.kind = "msg"
        /\ Selector!Add([msgType |-> m.msgType, task |-> m.task, inst |-> m.inst])
        /\ rx' = [i \in Insts |-> IF i \in last'.to THEN Append(rx[i], Deliver(m)) ELSE rx[i]]
        /\ closed' = Freed(m)
  BY DEF Dispatch
<1>2. /\ kq # <<>> /\ kq' = Tail(kq) /\ m = Head(kq)
      /\ UNCHANGED <<mq, hand, sent, mTransID, answered, dropped>>
  BY <1>1 DEF Take, Dispatch, boot
<1>3. m \in Traffic /\ ~m.copy
  BY <1>1, <1>2, TakenNames
<1>4. /\ m \in Msgs /\ Deliver(m) \in Msgs /\ Deliver(m).kind = "msg"
      /\ Deliver(m).copy = (m.msgType # "single") /\ Stamp(Deliver(m)) = Stamp(m)
  BY <1>1, <1>3, Elements DEF Msgs, Deliver, Stamp
<1>5. m.msgType \in {"single", "broadcast", "multicast"} /\ Deliver(m) \in Traffic
  BY <1>4 DEF Msgs, Traffic
<1>6. /\ m.msgType = "single" => Name(Deliver(m)) = Name(m)
      /\ m.msgType # "single" => Name(Deliver(m)) = Nameless
  BY <1>1, <1>3, <1>4 DEF Name
<1>7. /\ m.msgType = "single" =>
           ~last'.deleted /\ \/ ~last'.ret /\ last'.to = {}
                             \/ last'.ret /\ \E i \in Insts : last'.to = {i}
      /\ m.msgType # "single" => last'.deleted
  BY <1>1, <1>5, AddOutcome
<1> HIDE DEF Dispatch
<1>8. CASE last'.deleted \/ ~last'.ret
  <2>1. closed' = closed \cup {Stamp(m)}
    BY <1>1, <1>8 DEF Freed
  <2>2. last'.to = {} \/ Name(Deliver(m)) = Nameless
    BY <1>6, <1>7, <1>8
  <2> QED BY <1>1, <1>2, <1>5, <2>1, <2>2, DestroyedPlaces
<1>9. CASE ~last'.deleted /\ last'.ret
  <2>1. closed' = closed
    BY <1>1, <1>9 DEF Freed
  <2>2. PICK h \in Insts : last'.to = {h}
    BY <1>7, <1>9
  <2>3. rx' = [rx EXCEPT ![h] = Append(@, Deliver(m))]
    BY <1>1, <2>2 DEF IInv, QueuesOK
  <2>4. Name(Deliver(m)) = Name(Head(kq))
    BY <1>2, <1>6, <1>7, <1>9
  <2> QED BY <1>2, <1>5, <2>1, <2>3, <2>4, GivenPlaces
<1> QED
  BY <1>8, <1>9

\* Where nothing changes place.
LEMMA UnmovedPlaces ==
    PlaceInv /\ UNCHANGED <<queues, hand, sent, mTransID, closed, answered, dropped>> => PlaceInv'
<1> SUFFICES ASSUME PlaceInv,
                    UNCHANGED <<queues, hand, sent, mTransID, closed, answered, dropped>>
             PROVE  PlaceInv'
  OBVIOUS
<1>1. Known' = Known /\ \A x, c : At(x, c)' <=> At(x, c)
  BY DEF queues, Known, At
<1>2. Partition'
  BY <1>1 DEF PlaceInv, Partition
<1>3. KindsOK'
  BY DEF queues, PlaceInv, KindsOK
<1>4. Once(kq)' /\ Once(mq)' /\ \A i \in Insts : Once(rx[i])'
  BY DEF queues, PlaceInv, Once
<1> QED
  BY <1>2, <1>3, <1>4 DEF PlaceInv

\* Every message is in one place at the start: there is none.
LEMMA PlacesInitially == Init => PlaceInv
<1> SUFFICES ASSUME Init PROVE PlaceInv
  OBVIOUS
<1>1. /\ kq = <<>> /\ mq = <<>> /\ rx = [i \in Insts |-> <<>>]
      /\ hand = [i \in Insts |-> Nothing] /\ mTransID = 0 /\ sent = [i \in Insts |-> 0]
      /\ closed = {} /\ answered = {} /\ dropped = {}
  BY DEF Init
<1>2. Known = {}
  BY <1>1 DEF Known
<1>3. ASSUME NEW x, NEW c, At(x, c) PROVE x = Nameless
  <2>1. NamesIn(kq) = {} /\ NamesIn(mq) = {} /\ \A i \in Insts : NamesIn(rx[i]) = {}
    BY <1>1 DEF NamesIn
  <2>2. \A i \in Insts : Name(hand[i]) = Nameless
    BY <1>1 DEF Name, Nothing
  <2> QED BY <1>1, <1>3, <2>1, <2>2 DEF At
<1>4. Partition
  BY <1>2, <1>3 DEF Partition
<1>5. KindsOK
  BY <1>1 DEF KindsOK
<1>6. Once(kq) /\ Once(mq) /\ \A i \in Insts : Once(rx[i])
  BY <1>1 DEF Once
<1> QED
  BY <1>4, <1>5, <1>6 DEF PlaceInv

\* Every step keeps every message in one place.
LEMMA StepPlaces == IInv /\ PlaceInv /\ [Next]_vars => PlaceInv'
<1> SUFFICES ASSUME IInv, PlaceInv, [Next]_vars PROVE PlaceInv'
  OBVIOUS
<1>1. CASE Dispatch
  BY <1>1, DispatchPlaces
<1>2. CASE KernelInit
  BY <1>2, KernelInitPlaces
<1>3. CASE StartKernel
  BY <1>3, StartKernelPlaces
<1>4. CASE StartTask
  BY <1>4, StartTaskPlaces
<1>5. CASE GetReply
  <2>1. UNCHANGED <<kq, rx, hand, sent, mTransID, closed, dropped>>
    BY <1>5 DEF GetReply, history
  <2>2. CASE mq = <<>>
    BY <1>5, <2>1, <2>2, UnmovedPlaces DEF GetReply, queues
  <2>3. CASE mq # <<>>
    BY <1>5, <2>1, <2>3, GetReplyPlaces DEF GetReply
  <2> QED BY <2>2, <2>3
<1>6. CASE EnterLoop \/ NoCommand
  BY <1>6, UnmovedPlaces DEF EnterLoop, NoCommand, history
<1>7. ASSUME NEW h \in Insts, Task(h) PROVE PlaceInv'
  BY <1>7, ReceivePlaces, FinishPlaces, FinishEventPlaces, ThrowPlaces DEF Task
<1>8. ASSUME NEW h \in Insts, Expire(h) PROVE PlaceInv'
  BY <1>8, ExpirePlaces
<1>9. ASSUME NEW h \in Insts, NEW a \in Addresses, Send(h, a) \/ Forward(h, a) PROVE PlaceInv'
  BY <1>9, SendPlaces, ForwardPlaces
<1>10. ASSUME NEW c \in Commands, RecvCommand(c) PROVE PlaceInv'
  BY <1>10, RecvCommandPlaces
<1>11. CASE UNCHANGED vars
  BY <1>11, UnmovedPlaces DEF vars, history
<1> QED
  BY <1>1, <1>2, <1>3, <1>4, <1>5, <1>6, <1>7, <1>8, <1>9, <1>10, <1>11 DEF Next, Kernel, Manager

\* What is known is in one container, once: in one place.
LEMMA OnePlace ==
    ASSUME IInv, PlaceInv, NEW x \in Known
    PROVE  Cardinality(Places(x)) = 1
<1>1. x # Nameless
  BY KnownHasName
<1>2. PICK c : At(x, c) /\ \A d : At(x, d) => d = c
  BY DEF PlaceInv, Partition
<1>3. Once(kq) /\ Once(mq) /\ \A i \in Insts : Once(rx[i])
  BY DEF PlaceInv
<1>4. \A p : p \in Places(x) <=>
        \/ \E n \in DOMAIN kq : Name(kq[n]) = x /\ p = <<"kernel", 0, n>>
        \/ \E n \in DOMAIN mq : Name(mq[n]) = x /\ p = <<"manager", 0, n>>
        \/ \E i \in Insts : \E n \in DOMAIN rx[i] : Name(rx[i][n]) = x /\ p = <<"queue", i, n>>
        \/ \E i \in Insts : Name(hand[i]) = x /\ p = <<"hand", i, 1>>
        \/ x \in closed /\ p = <<"closed", 0, 1>>
        \/ x \in {<<0, k>> : k \in answered} /\ p = <<"answered", 0, 1>>
        \/ x \in {<<0, k>> : k \in dropped} /\ p = <<"dropped", 0, 1>>
  BY DEF Places
<1>5. \A p \in Places(x) : At(x, <<p[1], p[2]>>)
  BY <1>4 DEF At, NamesIn
<1>6. \E p : p \in Places(x)
  BY <1>2, <1>4 DEF At, NamesIn
<1>7. ASSUME NEW p \in Places(x), NEW q \in Places(x) PROVE p = q
  <2>1. p[1] = q[1] /\ p[2] = q[2]
    <3>1. <<p[1], p[2]>> = c /\ <<q[1], q[2]>> = c
      BY <1>2, <1>5
    <3>2. <<p[1], p[2]>>[1] = p[1] /\ <<p[1], p[2]>>[2] = p[2]
      OBVIOUS
    <3>3. <<q[1], q[2]>>[1] = q[1] /\ <<q[1], q[2]>>[2] = q[2]
      OBVIOUS
    <3> QED BY <3>1, <3>2, <3>3
  <2> QED BY <1>1, <1>3, <1>4, <2>1 DEF Once
<1>8. \E p : Places(x) = {p}
  BY <1>6, <1>7
<1> QED
  BY <1>8, FS_Singleton

\* Being in one place is having one owner, and one answer for each transaction.
LEMMA OwnersAndTransactions == IInv /\ PlaceInv => OneOwner /\ TransactionOnce
<1> SUFFICES ASSUME IInv, PlaceInv PROVE OneOwner /\ TransactionOnce
  OBVIOUS
<1>1. \A i \in Insts : \A n \in 1..sent[i] : Cardinality(Places(<<i, n>>)) = 1
  BY OnePlace DEF Known
<1>2. \A k \in 1..mTransID : Cardinality(Places(<<0, k>>)) = 1
  BY OnePlace DEF Known
<1>3. ASSUME NEW i \in Insts, NEW k \in DOMAIN rx[i], NEW l \in DOMAIN rx[i],
             rx[i][k].kind = "msg", rx[i][l].kind = "msg",
             Stamp(rx[i][k]) = Stamp(rx[i][l])
      PROVE  k = l
  <2> DEFINE j == rx[i][k].from
  <2>1. rx[i] \in Seq(Traffic)
    BY DEF IInv, QueuesOK
  <2>2. rx[i][k] \in Msgs /\ rx[i][l] \in Msgs /\ k \in Int /\ l \in Int
    BY <1>3, <2>1, Elements
  <2>3. j \in Insts /\ rx[i][k].n \in Nat /\ rx[i][l].n = rx[i][k].n /\ rx[i][l].from = j
    BY <1>3, <2>2 DEF Msgs, Stamp
  <2>4. IsFrom(rx[i][k], j) /\ IsFrom(rx[i][l], j)
    BY <1>3, <2>3 DEF IsFrom
  <2>5. InOrder(rx[i], j, seen[i][j], sent[j])
    BY <2>3 DEF IInv, OrderInv, TwoQueues
  <2>6. ~(rx[i][k].n < rx[i][l].n) /\ ~(rx[i][l].n < rx[i][k].n)
    BY <2>3
  <2>7. ~(k < l) /\ ~(l < k)
    BY <2>4, <2>5, <2>6 DEF InOrder
  <2> QED BY <2>2, <2>7
<1> QED
  BY <1>1, <1>2, <1>3 DEF OneOwner, TransactionOnce

\* In every reachable state.
LEMMA AlwaysOwned == Spec => [](OneOwner /\ TransactionOnce)
<1> DEFINE Inv == IInv /\ PlaceInv
<1>1. Init => Inv
  BY Initially, PlacesInitially
<1>2. Inv /\ [Next]_vars => Inv'
  BY Step, StepPlaces
<1>3. Inv => OneOwner /\ TransactionOnce
  BY OwnersAndTransactions
<1> HIDE DEF Inv
<1> QED
  BY <1>1, <1>2, <1>3, PTL DEF Spec

\* OneOwner: no message is lost, leaked, or in two places, whatever the selector makes of
\* its address.
THEOREM OwnedByOne == Spec => []OneOwner
<1> QED BY AlwaysOwned, PTL

\* TransactionOnce: neither is a transaction of the manager, and no two share an id.
THEOREM AskedOnce == Spec => []TransactionOnce
<1> QED BY AlwaysOwned, PTL

-----------------------------------------------------------------------------
\* What the queues, hands and histories do not say.
ControlOK == /\ running \subseteq Insts
             /\ mng \in {"load", "boot", "get", "recv"}
             /\ booted \in Insts \cup {0}
             /\ mTransID <= MaxTrans
             /\ answered \subseteq Nat /\ dropped \subseteq Nat
             /\ started \subseteq Insts
             /\ twice \in BOOLEAN

\* The control state at the start.
LEMMA ControlInitially == Init => ControlOK
<1> SUFFICES ASSUME Init PROVE ControlOK
  OBVIOUS
<1>1. /\ running = {} /\ mng = "load" /\ booted = 0 /\ mTransID = 0
      /\ answered = {} /\ dropped = {} /\ started = {} /\ twice = FALSE
  BY DEF Init
<1>2. mTransID <= MaxTrans
  BY <1>1, FrameAssumption
<1>3. twice \in BOOLEAN
  BY <1>1
<1>4. running \subseteq Insts /\ answered \subseteq Nat /\ dropped \subseteq Nat /\ started \subseteq Insts
  BY <1>1
<1> QED
  BY <1>1, <1>2, <1>3, <1>4 DEF ControlOK

\* Every step keeps the control state.
LEMMA StepControl == IInv /\ PlaceInv /\ ControlOK /\ [Next]_vars => ControlOK'
<1> SUFFICES ASSUME IInv, PlaceInv, ControlOK, [Next]_vars PROVE ControlOK'
  OBVIOUS
<1>1. mTransID \in Nat /\ mq \in Seq(Replies) /\ hand \in [Insts -> Traffic \cup {Nothing}]
  BY DEF IInv, QueuesOK, PlaceInv, KindsOK
<1>2. CASE Dispatch
  <2>1. twice' \in BOOLEAN
    BY <1>2 DEF Dispatch, ControlOK
  <2>2. UNCHANGED <<boot, mTransID, answered, dropped, started>>
    BY <1>2 DEF Dispatch
  <2> QED BY <2>1, <2>2 DEF ControlOK, boot
<1>3. CASE KernelInit
  BY <1>3 DEF KernelInit, ControlOK, boot, history
<1>4. CASE StartKernel
  BY <1>1, <1>4, FrameAssumption DEF StartKernel, ControlOK, history
<1>5. CASE StartTask
  BY <1>1, <1>5, FrameAssumption DEF StartTask, ControlOK, history
<1>6. CASE EnterLoop \/ NoCommand
  BY <1>6 DEF EnterLoop, NoCommand, ControlOK, history
<1>7. CASE GetReply
  <2>1. mq # <<>> => Head(mq).trans \in Nat
    <3>1. mq # <<>> => Head(mq) \in Replies
      BY <1>1, HeadTailProperties
    <3> QED BY <3>1 DEF Replies
  <2>2. answered' \subseteq Nat
    BY <1>7, <2>1 DEF GetReply, ControlOK
  <2> QED BY <1>7, <2>2 DEF GetReply, ControlOK, history
<1>8. ASSUME NEW h \in Insts, Receive(h) \/ Finish(h) \/ Expire(h) PROVE ControlOK'
  BY <1>8 DEF Receive, Finish, Expire, ControlOK, boot, history
<1>9. ASSUME NEW h \in Insts, FinishEvent(h) PROVE ControlOK'
  BY <1>9 DEF FinishEvent, Called, ControlOK, boot, history
<1>10. ASSUME NEW h \in Insts, Throw(h) PROVE ControlOK'
  <2>1. hand[h].trans \in Nat
    <3>1. hand[h] \in Requests
      BY <1>1, <1>10 DEF Throw, Traffic, Msgs, TimeOut, Nothing
    <3> QED BY <3>1 DEF Requests
  <2>2. dropped' \subseteq Nat
    BY <1>10, <2>1 DEF Throw, ControlOK
  <2> QED BY <1>10, <2>2 DEF Throw, Called, ControlOK, boot
<1>11. ASSUME NEW h \in Insts, NEW a \in Addresses, Send(h, a) \/ Forward(h, a)
       PROVE  ControlOK'
  BY <1>11 DEF Send, Forward, ControlOK, boot
<1>12. ASSUME NEW c \in Commands, RecvCommand(c) PROVE ControlOK'
  BY <1>12 DEF RecvCommand, ControlOK, history
<1>13. CASE UNCHANGED vars
  BY <1>13 DEF vars, boot, history, ControlOK
<1> QED
  BY <1>2, <1>3, <1>4, <1>5, <1>6, <1>7, <1>8, <1>9, <1>10, <1>11, <1>12, <1>13
  DEF Next, Kernel, Manager, Task

\* The three invariants together give the types.
LEMMA Typed == IInv /\ PlaceInv /\ ControlOK => TypeOK
<1> SUFFICES ASSUME IInv, PlaceInv, ControlOK PROVE TypeOK
  OBVIOUS
<1>1. mTransID \in 0..MaxTrans
  BY FrameAssumption DEF IInv, QueuesOK, ControlOK
<1> QED
  BY <1>1 DEF IInv, QueuesOK, PlaceInv, KindsOK, ControlOK, TypeOK

\* TypeOK: queues hold messages, requests, replies and timeouts where the code casts them to
\* such, and transactions stay within their bound.
THEOREM TypeCorrect == Spec => []TypeOK
<1> DEFINE Inv == IInv /\ PlaceInv /\ ControlOK
<1>1. Init => Inv
  BY Initially, PlacesInitially, ControlInitially
<1>2. Inv /\ [Next]_vars => Inv'
  BY Step, StepPlaces, StepControl
<1>3. Inv => TypeOK
  BY Typed
<1> HIDE DEF Inv
<1> QED
  BY <1>1, <1>2, <1>3, PTL DEF Spec
=============================================================================
