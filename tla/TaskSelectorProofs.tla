-------------------------- MODULE TaskSelectorProofs --------------------------
(***************************************************************************)
(* Theorems of TaskSelector, for any number of tasks and instances.  The   *)
(* inductive invariant is that the state is well typed, that the two       *)
(* tables agree and that registered instance ids have been used up.        *)
(* A round of new dialogs is an invariant of its own (RoundInv).           *)
(***************************************************************************)
EXTENDS TaskSelector, SequenceTheorems, FiniteSetTheorems, TLAPS

\* Instance ids in the table were given out: registerTask meets no old entry.
UsedOK == DOMAIN mInstList \subseteq used

IInv == TypeOK /\ RegistryConsistent /\ UsedOK

-----------------------------------------------------------------------------
\* push_back adds one element and keeps a list without repetitions so.
LEMMA AppendFacts ==
    ASSUME NEW S, NEW s \in Seq(S), NEW e \in S
    PROVE  /\ Append(s, e) \in Seq(S)
           /\ ToSet(Append(s, e)) = ToSet(s) \cup {e}
           /\ IsInjective(s) /\ e \notin ToSet(s) => IsInjective(Append(s, e))
<1>1. /\ Append(s, e) \in Seq(S)
      /\ DOMAIN Append(s, e) = 1..Len(s) + 1
      /\ DOMAIN s = 1..Len(s)
      /\ \A k \in 1..Len(s) : Append(s, e)[k] = s[k]
      /\ Append(s, e)[Len(s) + 1] = e
      /\ Len(s) \in Nat
  BY AppendProperties
<1>2. ToSet(Append(s, e)) = ToSet(s) \cup {e}
  BY <1>1 DEF ToSet
<1>3. ASSUME IsInjective(s), e \notin ToSet(s) PROVE IsInjective(Append(s, e))
  BY <1>1, <1>3 DEF ToSet, IsInjective
<1> QED
  BY <1>1, <1>2, <1>3

\* CList::remove takes the value out of a list without repetitions, and
\* nothing else.
LEMMA WithoutFacts ==
    ASSUME NEW S, NEW s \in Seq(S), IsInjective(s), NEW e \in ToSet(s)
    PROVE  /\ Without(s, e) \in Seq(S)
           /\ ToSet(Without(s, e)) = ToSet(s) \ {e}
           /\ IsInjective(Without(s, e))
<1> DEFINE k == CHOOSE j \in DOMAIN s : s[j] = e
           w == Without(s, e)
<1>1. k \in 1..Len(s) /\ s[k] = e /\ Len(s) \in Nat /\ DOMAIN s = 1..Len(s)
  BY DEF ToSet
<1> HIDE DEF k
<1>2. w = SubSeq(s, 1, k - 1) \o SubSeq(s, k + 1, Len(s))
  BY DEF Without, RemoveAt, k
<1>3. /\ SubSeq(s, 1, k - 1) \in Seq(S)
      /\ Len(SubSeq(s, 1, k - 1)) = k - 1
      /\ \A j \in 1..k - 1 : SubSeq(s, 1, k - 1)[j] = s[j]
  BY <1>1, SubSeqProperties
<1>4. /\ SubSeq(s, k + 1, Len(s)) \in Seq(S)
      /\ Len(SubSeq(s, k + 1, Len(s))) = Len(s) - k
      /\ \A j \in 1..Len(s) - k : SubSeq(s, k + 1, Len(s))[j] = s[k + j]
  <2>1. k + 1 \in Int /\ Len(s) \in Int /\ \A j \in k + 1..Len(s) : s[j] \in S
    BY <1>1
  <2>2. /\ SubSeq(s, k + 1, Len(s)) \in Seq(S)
        /\ Len(SubSeq(s, k + 1, Len(s)))
              = IF k + 1 <= Len(s) THEN Len(s) - (k + 1) + 1 ELSE 0
        /\ \A j \in 1..Len(s) - (k + 1) + 1 :
              SubSeq(s, k + 1, Len(s))[j] = s[k + 1 + j - 1]
    BY <2>1, SubSeqProperties
  <2>3. ASSUME NEW j \in 1..Len(s) - k PROVE SubSeq(s, k + 1, Len(s))[j] = s[k + j]
    <3>1. j \in 1..Len(s) - (k + 1) + 1 /\ k + 1 + j - 1 = k + j
      BY <1>1
    <3> HIDE <1>1
    <3> QED BY <2>2, <3>1
  <2>4. (IF k + 1 <= Len(s) THEN Len(s) - (k + 1) + 1 ELSE 0) = Len(s) - k
    <3>1. k \in Int /\ Len(s) \in Int /\ k <= Len(s)
      BY <1>1
    <3>2. \A x, y \in Int : x <= y => (IF x + 1 <= y THEN y - (x + 1) + 1 ELSE 0) = y - x
      OBVIOUS
    <3> QED BY <3>1, <3>2, Zenon
  <2>5. Len(SubSeq(s, k + 1, Len(s))) = Len(s) - k
    BY <2>2, <2>4
  <2> QED BY <2>2, <2>3, <2>5
<1> DEFINE a == SubSeq(s, 1, k - 1)
           b == SubSeq(s, k + 1, Len(s))
<1>5. /\ w \in Seq(S)
      /\ DOMAIN w = 1..Len(s) - 1
      /\ \A j \in 1..Len(s) - 1 : w[j] = IF j < k THEN s[j] ELSE s[j + 1]
  <2>1. a \in Seq(S) /\ b \in Seq(S) /\ w = a \o b
        /\ Len(a) = k - 1 /\ Len(b) = Len(s) - k
        /\ (\A j \in 1..k - 1 : a[j] = s[j])
        /\ (\A j \in 1..Len(s) - k : b[j] = s[k + j])
    BY <1>2, <1>3, <1>4
  <2> HIDE DEF a, b, w
  <2>2. /\ w \in Seq(S) /\ Len(w) = Len(a) + Len(b)
        /\ \A j \in 1..Len(a) + Len(b) : w[j] = IF j <= Len(a) THEN a[j] ELSE b[j - Len(a)]
    BY <2>1, ConcatProperties
  <2>3. Len(a) + Len(b) = Len(s) - 1
    BY <1>1, <2>1
  <2>4. DOMAIN w = 1..Len(s) - 1
    BY <2>2, <2>3
  <2>5. ASSUME NEW j \in 1..Len(s) - 1 PROVE w[j] = IF j < k THEN s[j] ELSE s[j + 1]
    <3>1. CASE j < k
      BY <1>1, <2>1, <2>2, <2>3, <3>1
    <3>2. CASE j >= k
      <4>1. w[j] = b[j - Len(a)] /\ j - Len(a) \in 1..Len(s) - k
        BY <1>1, <2>1, <2>2, <2>3, <3>2
      <4>2. k + (j - Len(a)) = j + 1
        BY <1>1, <2>1
      <4>3. b[j - Len(a)] = s[k + (j - Len(a))]
        BY <2>1, <4>1
      <4> QED BY <1>1, <3>2, <4>1, <4>2, <4>3
    <3> QED BY <1>1, <3>1, <3>2
  <2> QED BY <2>2, <2>4, <2>5
<1> HIDE DEF w
<1>6. IsInjective(w)
  <2>1. \A x, y \in 1..Len(s) : s[x] = s[y] => x = y
    BY <1>1 DEF IsInjective
  <2>2. ASSUME NEW x \in 1..Len(s) - 1, NEW y \in 1..Len(s) - 1, w[x] = w[y]
        PROVE  x = y
    <3>1. (IF x < k THEN x ELSE x + 1) \in 1..Len(s) /\ (IF y < k THEN y ELSE y + 1) \in 1..Len(s)
      BY <1>1
    <3>2. s[IF x < k THEN x ELSE x + 1] = s[IF y < k THEN y ELSE y + 1]
      BY <1>5, <2>2
    <3>3. (IF x < k THEN x ELSE x + 1) = (IF y < k THEN y ELSE y + 1)
      BY <2>1, <3>1, <3>2
    <3> QED BY <1>1, <3>3
  <2> QED BY <1>5, <2>2 DEF IsInjective
<1>7. \A x : x \in ToSet(w) <=> x \in ToSet(s) \ {e}
  <2> TAKE x
  <2>1. ASSUME NEW j \in 1..Len(s) - 1, x = w[j] PROVE x \in ToSet(s) \ {e}
    BY <1>1, <1>5, <2>1 DEF ToSet, IsInjective
  <2>2. ASSUME NEW j \in 1..Len(s), x = s[j], x # e PROVE x \in ToSet(w)
    <3>1. CASE j < k
      BY <1>1, <1>5, <2>2, <3>1 DEF ToSet
    <3>2. CASE j > k
      <4>1. j - 1 \in 1..Len(s) - 1 /\ w[j - 1] = s[j]
        BY <1>1, <1>5, <3>2
      <4> QED BY <1>5, <2>2, <4>1 DEF ToSet
    <3> QED BY <1>1, <2>2, <3>1, <3>2
  <2> QED BY <1>1, <1>5, <2>1, <2>2 DEF ToSet
<1> QED
  BY <1>5, <1>6, <1>7 DEF w

\* The initial state satisfies the invariant: both tables are empty.
LEMMA InitIInv == Init => IInv
<1> SUFFICES ASSUME Init PROVE IInv
  OBVIOUS
<1>1. DOMAIN mInstList = {} /\ DOMAIN mTaskList = {}
  BY DEF Init
<1>2. TypeOK
  BY <1>1, SelectorAssumption DEF Init, TypeOK, Outcomes
<1> QED
  BY <1>1, <1>2 DEF IInv, RegistryConsistent, UsedOK

-----------------------------------------------------------------------------
\* A position of a non-empty list is an index of it, less one.
LEMMA PositionRange ==
    ASSUME TypeOK, NEW t \in DOMAIN mTaskList, NEW k \in Nat, Count(t) > 0
    PROVE  Position(t, k) \in 0..Count(t) - 1
<1>1. Count(t) \in Nat /\ mTaskList[t].instpos \in Nat
  BY DEF TypeOK, TaskStates, Count
<1> DEFINE p == (IF mTaskList[t].instpos >= Count(t) THEN Count(t) - 1
                                                 ELSE mTaskList[t].instpos) + k
<1>2. p \in Nat
  BY <1>1
<1>3. Position(t, k) = p % Count(t)
  BY DEF Position
<1> HIDE DEF p
<1> QED
  BY <1>1, <1>2, <1>3

\* Sending moves at most the position of one task and delivers to registered
\* instances.
LEMMA AddEffect ==
    ASSUME TypeOK, RegistryConsistent, NEW m \in Messages, Add(m)
    PROVE  /\ UNCHANGED <<mInstList, registeredTaskAmount, registeredInstAmount, used>>
           /\ DOMAIN mTaskList' = DOMAIN mTaskList
           /\ mTaskList' \in [DOMAIN mTaskList -> TaskStates]
           /\ \A t \in DOMAIN mTaskList : mTaskList'[t].inst = mTaskList[t].inst
           /\ served' \in [Tasks -> SUBSET Insts]
           /\ last' \in Outcomes
<1> USE DEF TypeOK, Messages
<1>1. ASSUME m.task \in DOMAIN mTaskList, NEW k \in Nat, Count(m.task) > 0,
             MoveTo(m.task, k)
      PROVE  /\ DOMAIN mTaskList' = DOMAIN mTaskList
             /\ mTaskList' \in [DOMAIN mTaskList -> TaskStates]
             /\ \A t \in DOMAIN mTaskList : mTaskList'[t].inst = mTaskList[t].inst
  <2>1. Position(m.task, k) \in Nat
    BY <1>1, PositionRange DEF Count, TaskStates
  <2> QED BY <1>1, <2>1 DEF MoveTo, TaskStates
<1>2. CASE SendToInst(m)
  BY <1>2 DEF SendToInst, Outcome, Outcomes, Frame
<1>3. CASE SendInTurn(m)
  <2>1. PICK k \in Turn(m.task) :
           /\ MoveTo(m.task, k)
           /\ Serve(m.task, Candidate(m.task, k))
           /\ Outcome({Candidate(m.task, k)}, TRUE, FALSE)
    BY <1>3 DEF SendInTurn
  <2>2. m.task \in DOMAIN mTaskList /\ Frame
    BY <1>3 DEF SendInTurn
  <2>3. Count(m.task) \in Nat /\ k \in 1..Count(m.task)
    BY <2>1, <2>2 DEF Turn, Count, TaskStates
  <2>4. Candidate(m.task, k) \in Insts
    <3>1. Position(m.task, k) \in 0..Count(m.task) - 1
      BY <2>2, <2>3, PositionRange
    <3>2. mTaskList[m.task].inst \in Seq(Insts)
      BY <2>2 DEF TaskStates
    <3> QED BY <2>3, <3>1, <3>2 DEF Candidate, Count
  <2>5. served' \in [Tasks -> SUBSET Insts]
    BY <2>1, <2>4 DEF Serve
  <2>6. last' \in Outcomes
    BY <2>1, <2>4 DEF Outcome, Outcomes
  <2> QED BY <1>1, <2>1, <2>2, <2>3, <2>5, <2>6 DEF Frame
<1>4. CASE SendToNobody(m)
  <2>1. last' \in Outcomes /\ UNCHANGED served /\ Frame
    BY <1>4 DEF SendToNobody, Outcome, Outcomes
  <2>2. CASE UNCHANGED mTaskList
    BY <2>1, <2>2 DEF Frame
  <2>3. CASE /\ m.task \in DOMAIN mTaskList
             /\ Count(m.task) # 0
             /\ MoveTo(m.task, Count(m.task))
    <3>1. Count(m.task) \in Nat
      BY <2>3 DEF Count, TaskStates
    <3> QED BY <1>1, <2>1, <2>3, <3>1 DEF Frame
  <2> QED BY <1>4, <2>2, <2>3 DEF SendToNobody
<1>5. CASE MulticastMsgToTask(m)
  <2> DEFINE s == mTaskList[m.task].inst
             S == {s[k] : k \in 2..Len(s)} \cap DOMAIN mInstList
  <2>1. S \subseteq Insts
    OBVIOUS
  <2>2. Outcome(S, TRUE, TRUE) \/ Outcome({}, FALSE, TRUE)
    BY <1>5 DEF MulticastMsgToTask
  <2> HIDE DEF S
  <2>3. last' \in Outcomes
    <3>1. [to |-> S, ret |-> TRUE, deleted |-> TRUE] \in Outcomes
      BY <2>1 DEF Outcomes
    <3>2. [to |-> {}, ret |-> FALSE, deleted |-> TRUE] \in Outcomes
      BY DEF Outcomes
    <3> QED BY <2>2, <3>1, <3>2, Zenon DEF Outcome
  <2> QED BY <1>5, <2>3 DEF MulticastMsgToTask, Frame
<1>6. CASE BroadcastMsgToTask(m)
  BY <1>6 DEF BroadcastMsgToTask, Outcome, Outcomes, Frame
<1> QED
  BY <1>2, <1>3, <1>4, <1>5, <1>6 DEF Add, SendMsgToTask

\* Every step keeps the state well typed.
LEMMA TypeStep == IInv /\ [Next]_vars => TypeOK'
<1> SUFFICES ASSUME IInv, [Next]_vars PROVE TypeOK'
  OBVIOUS
<1> USE DEF IInv, TypeOK
<1>1. ASSUME NEW t \in Tasks, NEW i \in Insts, RegisterTask(t, i) PROVE TypeOK'
  <2>1. /\ DOMAIN mInstList' \subseteq Insts
        /\ mInstList' \in [DOMAIN mInstList' -> Items]
    BY <1>1 DEF RegisterTask, Put, Items
  <2> HIDE DEF Items
  <2>4. registeredTaskAmount' \in Int /\ registeredInstAmount' \in Int
    BY <1>1 DEF RegisterTask
  <2>5. used' \subseteq Insts /\ served' \in [Tasks -> SUBSET Insts] /\ last' \in Outcomes
    BY <1>1 DEF RegisterTask, NewRound
  <2>2. CASE t \in DOMAIN mTaskList
    <3>1. Append(mTaskList[t].inst, i) \in Seq(Insts)
      BY <2>2, AppendProperties DEF TaskStates
    <3>2. mTaskList' = [mTaskList EXCEPT ![t].inst = Append(@, i)]
      BY <1>1, <2>2 DEF RegisterTask
    <3>3. /\ DOMAIN mTaskList' \subseteq Tasks
          /\ mTaskList' \in [DOMAIN mTaskList' -> TaskStates]
      BY <2>2, <3>1, <3>2 DEF TaskStates
    <3> QED BY <2>1, <2>4, <2>5, <3>3
  <2>3. CASE t \notin DOMAIN mTaskList
    <3>1. [inst |-> <<i>>, instpos |-> 0] \in TaskStates
      BY DEF TaskStates
    <3>2. /\ DOMAIN mTaskList' \subseteq Tasks
          /\ mTaskList' \in [DOMAIN mTaskList' -> TaskStates]
      BY <1>1, <2>3, <3>1 DEF RegisterTask, Put
    <3> QED BY <2>1, <2>4, <2>5, <3>2
  <2> QED BY <2>2, <2>3
<1>2. ASSUME NEW i \in Insts, ShutdownInst(i) PROVE TypeOK'
  BY <1>2 DEF ShutdownInst, Close, NewRound, Items
<1>3. ASSUME NEW t \in Tasks, ShutdownTask(t) PROVE TypeOK'
  BY <1>3 DEF ShutdownTask, Close, NewRound, Items
<1>4. ASSUME NEW i \in Insts, UnregisterInst(i) PROVE TypeOK'
  <2> DEFINE t == mInstList[i].taskid
  <2>1. t \in DOMAIN mTaskList /\ i \in ToSet(mTaskList[t].inst)
        /\ IsInjective(mTaskList[t].inst) /\ mTaskList[t].inst \in Seq(Insts)
    BY <1>4 DEF UnregisterInst, RegistryConsistent, Members, TaskStates
  <2>2. Without(mTaskList[t].inst, i) \in Seq(Insts)
    BY <2>1, WithoutFacts
  <2>3. /\ DOMAIN mTaskList' \subseteq Tasks
        /\ mTaskList' \in [DOMAIN mTaskList' -> TaskStates]
    BY <1>4, <2>1, <2>2 DEF UnregisterInst, TaskStates
  <2>4. /\ DOMAIN mInstList' \subseteq Insts
        /\ mInstList' \in [DOMAIN mInstList' -> Items]
    BY <1>4 DEF UnregisterInst, Forget, Restrict
  <2>5. /\ registeredTaskAmount' \in Int /\ registeredInstAmount' \in Int
        /\ used' \subseteq Insts /\ last' \in Outcomes
    BY <1>4 DEF UnregisterInst
  <2>6. served' \in [Tasks -> SUBSET Insts]
    BY <1>4 DEF UnregisterInst, NewRound
  <2> QED BY <2>3, <2>4, <2>5, <2>6
<1>5. ASSUME NEW t \in Tasks, UnregisterTask(t) PROVE TypeOK'
  <2>1. Len(mTaskList[t].inst) \in Nat
    BY <1>5 DEF UnregisterTask, TaskStates
  <2> QED BY <1>5, <2>1 DEF UnregisterTask, Forget, Restrict, NewRound
<1>6. ASSUME NEW m \in Messages, Add(m) PROVE TypeOK'
  BY <1>6, AddEffect
<1>7. CASE UNCHANGED vars
  BY <1>7 DEF vars, registry
<1> QED
  BY <1>1, <1>2, <1>3, <1>4, <1>5, <1>6, <1>7 DEF Next

\* Every step keeps the two tables in agreement and the given-out ids used.
LEMMA RegistryStep == IInv /\ [Next]_vars => RegistryConsistent' /\ UsedOK'
<1> SUFFICES ASSUME IInv, [Next]_vars PROVE RegistryConsistent' /\ UsedOK'
  OBVIOUS
<1> USE DEF IInv
<1>0. /\ \A i \in DOMAIN mInstList : mInstList[i].taskid \in Tasks
      /\ \A i \in DOMAIN mInstList : mInstList[i] = [taskid |-> mInstList[i].taskid,
                                    shuttingDown |-> mInstList[i].shuttingDown]
      /\ \A t \in DOMAIN mTaskList : mTaskList[t].inst \in Seq(Insts)
  BY DEF TypeOK, Items, TaskStates
<1>1. ASSUME NEW t \in Tasks, NEW i \in Insts, RegisterTask(t, i)
      PROVE  RegistryConsistent' /\ UsedOK'
  <2>1. i \notin DOMAIN mInstList
    BY <1>1 DEF RegisterTask, UsedOK
  <2>2. /\ DOMAIN mInstList' = DOMAIN mInstList \cup {i}
        /\ mInstList'[i].taskid = t
        /\ \A j \in DOMAIN mInstList : mInstList'[j].taskid = mInstList[j].taskid
    BY <1>1, <2>1 DEF RegisterTask, Put
  <2>3. /\ Members(t)' = Members(t) \cup {i}
        /\ \A u \in Tasks \ {t} : Members(u)' = Members(u)
    BY <2>1, <2>2 DEF Members
  <2>4. /\ DOMAIN mTaskList' = DOMAIN mTaskList \cup {t}
        /\ \A u \in DOMAIN mTaskList \ {t} : mTaskList'[u].inst = mTaskList[u].inst
    <3>1. CASE t \in DOMAIN mTaskList
      BY <1>1, <3>1 DEF RegisterTask, TypeOK
    <3>2. CASE t \notin DOMAIN mTaskList
      BY <1>1, <3>2 DEF RegisterTask, Put
    <3> QED BY <3>1, <3>2
  <2>5. ToSet(mTaskList'[t].inst) = Members(t)' /\ IsInjective(mTaskList'[t].inst)
    <3>1. CASE t \in DOMAIN mTaskList
      <4>1. mTaskList'[t].inst = Append(mTaskList[t].inst, i)
        BY <1>1, <3>1 DEF RegisterTask, TypeOK, TaskStates
      <4>2. i \notin ToSet(mTaskList[t].inst)
        BY <2>1, <3>1 DEF RegistryConsistent, Members
      <4>3. /\ ToSet(mTaskList[t].inst) = Members(t)
            /\ IsInjective(mTaskList[t].inst)
            /\ mTaskList[t].inst \in Seq(Insts)
        BY <1>0, <3>1 DEF RegistryConsistent
      <4> QED BY <2>3, <4>1, <4>2, <4>3, AppendFacts
    <3>2. CASE t \notin DOMAIN mTaskList
      <4>1. mTaskList'[t].inst = <<i>>
        BY <1>1, <3>2 DEF RegisterTask, Put
      <4>2. Members(t) = {}
        BY <3>2 DEF RegistryConsistent, Members
      <4>3. ToSet(<<i>>) = {i} /\ IsInjective(<<i>>)
        BY DEF ToSet, IsInjective
      <4> QED BY <2>3, <4>1, <4>2, <4>3
    <3> QED BY <3>1, <3>2
  <2>6. \A u \in DOMAIN mTaskList' \ {t} : /\ ToSet(mTaskList'[u].inst) = Members(u)'
                                          /\ IsInjective(mTaskList'[u].inst)
    BY <2>3, <2>4 DEF RegistryConsistent, TypeOK
  <2>7. \A j \in DOMAIN mInstList' : mInstList'[j].taskid \in DOMAIN mTaskList'
    BY <2>2, <2>4 DEF RegistryConsistent
  <2>8. UsedOK'
    BY <1>1, <2>2 DEF UsedOK, RegisterTask
  <2> QED BY <2>5, <2>6, <2>7, <2>8 DEF RegistryConsistent
<1>2. ASSUME NEW S, Close(S), UNCHANGED <<mTaskList, used>>
      PROVE  RegistryConsistent' /\ UsedOK'
  <2>1. /\ DOMAIN mInstList' = DOMAIN mInstList
        /\ \A j \in DOMAIN mInstList : mInstList'[j].taskid = mInstList[j].taskid
    BY <1>0, <1>2 DEF Close
  <2>2. \A u \in Tasks : Members(u)' = Members(u)
    BY <2>1 DEF Members
  <2> QED BY <1>2, <2>1, <2>2 DEF RegistryConsistent, UsedOK, TypeOK
<1>3. ASSUME NEW i \in Insts, UnregisterInst(i) PROVE RegistryConsistent' /\ UsedOK'
  <2>0. PICK t \in Tasks : t = mInstList[i].taskid
    BY <1>0, <1>3 DEF UnregisterInst
  <2>1. /\ t \in DOMAIN mTaskList
        /\ ToSet(mTaskList[t].inst) = Members(t)
        /\ IsInjective(mTaskList[t].inst)
        /\ mTaskList[t].inst \in Seq(Insts)
        /\ i \in Members(t)
    BY <1>0, <1>3, <2>0 DEF UnregisterInst, RegistryConsistent, Members
  <2>2. /\ DOMAIN mInstList' = DOMAIN mInstList \ {i}
        /\ \A j \in DOMAIN mInstList' : mInstList'[j] = mInstList[j]
    BY <1>3 DEF UnregisterInst, Forget, Restrict
  <2>3. /\ DOMAIN mTaskList' = DOMAIN mTaskList
        /\ mTaskList'[t].inst = Without(mTaskList[t].inst, i)
        /\ \A u \in DOMAIN mTaskList \ {t} : mTaskList'[u].inst = mTaskList[u].inst
    BY <1>3, <2>0, <2>1 DEF UnregisterInst, TypeOK, TaskStates
  <2>4. Members(t)' = Members(t) \ {i}
    BY <2>2, <2>1 DEF Members
  <2>5. \A u \in Tasks \ {t} : Members(u)' = Members(u)
    BY <2>0, <2>2 DEF Members
  <2>6. ToSet(mTaskList'[t].inst) = Members(t)' /\ IsInjective(mTaskList'[t].inst)
    BY <2>1, <2>3, <2>4, WithoutFacts
  <2>7. \A u \in DOMAIN mTaskList' \ {t} : /\ ToSet(mTaskList'[u].inst) = Members(u)'
                                          /\ IsInjective(mTaskList'[u].inst)
    BY <2>3, <2>5 DEF RegistryConsistent, TypeOK
  <2>8. \A j \in DOMAIN mInstList' : mInstList'[j].taskid \in DOMAIN mTaskList'
    BY <2>2, <2>3 DEF RegistryConsistent
  <2>9. UsedOK'
    BY <1>3, <2>2 DEF UsedOK, UnregisterInst
  <2> QED BY <2>3, <2>6, <2>7, <2>8, <2>9 DEF RegistryConsistent
<1>4. ASSUME NEW t \in Tasks, UnregisterTask(t) PROVE RegistryConsistent' /\ UsedOK'
  <2>1. ToSet(mTaskList[t].inst) = Members(t)
    BY <1>4 DEF UnregisterTask, RegistryConsistent
  <2>2. /\ DOMAIN mInstList' = DOMAIN mInstList \ Members(t)
        /\ \A j \in DOMAIN mInstList' : mInstList'[j] = mInstList[j]
    BY <1>4, <2>1 DEF UnregisterTask, Forget, Restrict
  <2>3. /\ DOMAIN mTaskList' = DOMAIN mTaskList \ {t}
        /\ \A u \in DOMAIN mTaskList' : mTaskList'[u] = mTaskList[u]
    BY <1>4 DEF UnregisterTask, Forget, Restrict
  <2>4. \A u \in Tasks \ {t} : Members(u)' = Members(u)
    BY <2>2 DEF Members
  <2>5. \A j \in DOMAIN mInstList' : mInstList'[j].taskid \in DOMAIN mTaskList'
    BY <2>2, <2>3 DEF RegistryConsistent, Members
  <2>6. UsedOK'
    BY <1>4, <2>2 DEF UsedOK, UnregisterTask
  <2> QED BY <2>3, <2>4, <2>5, <2>6 DEF RegistryConsistent, TypeOK
<1>5. ASSUME NEW m \in Messages, Add(m) PROVE RegistryConsistent' /\ UsedOK'
  <2>1. /\ UNCHANGED <<mInstList, used>>
        /\ DOMAIN mTaskList' = DOMAIN mTaskList
        /\ \A t \in DOMAIN mTaskList : mTaskList'[t].inst = mTaskList[t].inst
    BY <1>5, AddEffect
  <2> QED BY <2>1 DEF RegistryConsistent, UsedOK, Members
<1>6. CASE UNCHANGED vars
  BY <1>6 DEF vars, registry, RegistryConsistent, UsedOK, Members
<1> QED
  BY <1>1, <1>2, <1>3, <1>4, <1>5, <1>6 DEF Next, ShutdownInst, ShutdownTask

\* The tables agree in every reachable state, for any number of tasks and
\* instances and any sequence of calls.
THEOREM RegistryAgrees == Spec => []RegistryConsistent
<1>1. IInv /\ [Next]_vars => IInv'
  BY TypeStep, RegistryStep DEF IInv
<1>2. IInv => RegistryConsistent
  BY DEF IInv
<1> QED
  BY InitIInv, <1>1, <1>2, PTL DEF Spec

\* The shape of the state; instpos and the counters keep their types.
THEOREM TypeCorrect == Spec => []TypeOK
<1>1. IInv /\ [Next]_vars => IInv'
  BY TypeStep, RegistryStep DEF IInv
<1>2. IInv => TypeOK
  BY DEF IInv
<1> QED
  BY InitIInv, <1>1, <1>2, PTL DEF Spec

-----------------------------------------------------------------------------
\* One full turn from any stored position comes past every index of the list.
LEMMA TurnIsComplete ==
    ASSUME TypeOK, NEW t \in DOMAIN mTaskList, NEW q \in 1..Count(t)
    PROVE  \E k \in Turn(t) : Candidate(t, k) = mTaskList[t].inst[q]
<1> DEFINE n == Count(t)
           p == IF mTaskList[t].instpos >= n THEN n - 1 ELSE mTaskList[t].instpos
           k == IF q - 1 > p THEN q - 1 - p ELSE q - 1 - p + n
<1>1. n \in Nat /\ n > 0 /\ p \in 0..n - 1 /\ q \in 1..n
  BY DEF TypeOK, TaskStates, Count
<1>2. Position(t, k) = (p + k) % n
  BY DEF Position
<1> HIDE DEF n, p
<1>3. k \in 1..n
  BY <1>1
<1>4. p + k = q - 1 \/ p + k = q - 1 + n
  BY <1>1
<1>5. \A a, b \in Nat : a < b => a % b = a /\ (a + b) % b = a
  OBVIOUS
<1>6. (p + k) % n = q - 1
  BY <1>1, <1>4, <1>5
<1>7. Candidate(t, k) = mTaskList[t].inst[q]
  BY <1>1, <1>2, <1>6 DEF Candidate
<1> HIDE DEF k
<1> QED
  BY <1>3, <1>7 DEF n, Turn

\* A message that opens a dialog is given to an instance of its task that is
\* not shutting down whenever there is one, and refused otherwise.
LEMMA NewDialogStep ==
    ASSUME IInv, NEW m \in Messages, m.msgType = "single", m.inst = NoInst, Add(m)
    PROVE  /\ last'.ret <=> Active(m.task) # {}
           /\ last'.to \subseteq Active(m.task)
           /\ last'.ret => last'.to # {}
<1> DEFINE t == m.task
           s == mTaskList[t].inst
<1> USE DEF IInv
<1>1. ASSUME t \in DOMAIN mTaskList
      PROVE  /\ s \in Seq(Insts) /\ Len(s) \in Nat /\ Count(t) = Len(s)
             /\ ToSet(s) = Members(t)
  BY <1>1 DEF TypeOK, TaskStates, RegistryConsistent, Count
<1>2. CASE SendInTurn(m)
  <2>1. PICK k \in Turn(t) : /\ Open(t, k)
                             /\ Outcome({Candidate(t, k)}, TRUE, FALSE)
    BY <1>2 DEF SendInTurn
  <2>2. t \in DOMAIN mTaskList
    BY <1>2 DEF SendInTurn
  <2>3. k \in 1..Count(t) /\ k \in Nat /\ Count(t) > 0
    BY <1>1, <2>1, <2>2 DEF Turn
  <2>4. Position(t, k) \in 0..Count(t) - 1
    BY <2>2, <2>3, PositionRange
  <2>5. Candidate(t, k) \in Members(t)
    BY <1>1, <2>2, <2>4 DEF Candidate, ToSet
  <2>6. Candidate(t, k) \in Active(t)
    BY <2>1, <2>5 DEF Open, Active
  <2> QED BY <2>1, <2>6 DEF Outcome
<1>3. CASE SendToNobody(m)
  <2>1. last'.ret = FALSE /\ last'.to = {}
    BY <1>3 DEF SendToNobody, Outcome
  <2>2. ASSUME NEW i \in Active(t) PROVE FALSE
    <3>1. t \in DOMAIN mTaskList /\ i \in ToSet(s)
      BY <2>2, <1>1 DEF Active, Members, RegistryConsistent
    <3>2. PICK q \in 1..Count(t) : s[q] = i
      BY <1>1, <3>1 DEF ToSet
    <3>3. PICK k \in Turn(t) : Candidate(t, k) = i
      BY <3>1, <3>2, TurnIsComplete
    <3>4. ~Open(t, k)
      BY <1>3, <3>1, <3>3 DEF SendToNobody
    <3> QED BY <2>2, <3>3, <3>4 DEF Open, Active, Members
  <2> QED BY <2>1, <2>2
<1> QED
  BY <1>2, <1>3 DEF Add, SendMsgToTask, SendToInst

\* The same of every step of every behaviour.
THEOREM DialogReachesActive == Spec => NewDialogGoesToActive
<1>1. IInv /\ [Next]_vars => IInv'
  BY TypeStep, RegistryStep DEF IInv
<1>2. IInv /\ [Next]_vars =>
        [\A m \in Messages :
           m.msgType = "single" /\ m.inst = NoInst /\ Add(m) =>
             /\ last'.ret <=> Active(m.task) # {}
             /\ last'.to \subseteq Active(m.task)
             /\ last'.ret => last'.to # {}]_vars
  BY NewDialogStep
<1> QED
  BY InitIInv, <1>1, <1>2, PTL DEF Spec, NewDialogGoesToActive

-----------------------------------------------------------------------------
\* A list without repetitions has as many elements as places.
LEMMA CountedOnce ==
    ASSUME NEW S, NEW s \in Seq(S), IsInjective(s)
    PROVE  IsFiniteSet(ToSet(s)) /\ Cardinality(ToSet(s)) = Len(s)
<1>1. Len(s) \in Nat /\ DOMAIN s = 1..Len(s) /\ s \in [1..Len(s) -> S]
  OBVIOUS
<1>2. s \in Surjection(1..Len(s), ToSet(s))
  BY <1>1 DEF Surjection, ToSet
<1>3. s \in Injection(1..Len(s), ToSet(s))
  BY <1>1, <1>2 DEF Injection, Surjection, IsInjective
<1>4. IsFiniteSet(1..Len(s)) /\ Cardinality(1..Len(s)) = Len(s)
  BY <1>1, FS_Interval
<1> QED
  BY <1>2, <1>3, <1>4, FS_Surjection

\* What the counters do in a step.
CountsMove ==
    /\ registeredTaskAmount' - registeredTaskAmount
          = Cardinality(DOMAIN mTaskList') - Cardinality(DOMAIN mTaskList)
    /\ registeredInstAmount' - registeredInstAmount
          = Cardinality(DOMAIN mInstList') - Cardinality(DOMAIN mInstList)

\* Every step counts as CountsMove says.
LEMMA CountsStep == IInv /\ [Next]_vars => CountsMove
<1> SUFFICES ASSUME IInv, [Next]_vars PROVE CountsMove
  OBVIOUS
<1> DEFINE I == DOMAIN mInstList
           T == DOMAIN mTaskList
<1>1. /\ IsFiniteSet(I) /\ IsFiniteSet(T) /\ Cardinality(I) \in Nat /\ Cardinality(T) \in Nat
      /\ registeredTaskAmount \in Int /\ registeredInstAmount \in Int
  BY SelectorAssumption, FS_Subset, FS_CardinalityType DEF IInv, TypeOK
<1>2. ASSUME UNCHANGED <<registeredTaskAmount, registeredInstAmount>>,
             DOMAIN mTaskList' = T, DOMAIN mInstList' = I
      PROVE  CountsMove
  BY <1>1, <1>2 DEF CountsMove
<1>3. ASSUME NEW t \in Tasks, NEW i \in Insts, RegisterTask(t, i) PROVE CountsMove
  <2>1. i \notin I /\ DOMAIN mInstList' = I \cup {i} /\ registeredInstAmount' = registeredInstAmount + 1
    BY <1>3 DEF RegisterTask, Put, IInv, UsedOK
  <2>2. Cardinality(DOMAIN mInstList') = Cardinality(I) + 1
    BY <1>1, <2>1, FS_AddElement
  <2>3. CASE t \in T
    <3>1. DOMAIN mTaskList' = T /\ registeredTaskAmount' = registeredTaskAmount
      BY <1>3, <2>3 DEF RegisterTask
    <3> QED BY <1>1, <2>1, <2>2, <3>1 DEF CountsMove
  <2>4. CASE t \notin T
    <3>1. DOMAIN mTaskList' = T \cup {t} /\ registeredTaskAmount' = registeredTaskAmount + 1
      BY <1>3, <2>4 DEF RegisterTask, Put
    <3>2. Cardinality(DOMAIN mTaskList') = Cardinality(T) + 1
      BY <1>1, <2>4, <3>1, FS_AddElement
    <3> QED BY <1>1, <2>1, <2>2, <3>1, <3>2 DEF CountsMove
  <2> QED BY <2>3, <2>4
<1>4. ASSUME NEW S, Close(S), UNCHANGED <<mTaskList, registeredTaskAmount, registeredInstAmount>>
      PROVE  CountsMove
  BY <1>2, <1>4 DEF Close
<1>5. ASSUME NEW i \in Insts, UnregisterInst(i) PROVE CountsMove
  <2>1. /\ i \in I /\ DOMAIN mInstList' = I \ {i} /\ registeredInstAmount' = registeredInstAmount - 1
        /\ registeredTaskAmount' = registeredTaskAmount /\ DOMAIN mTaskList' = T
    BY <1>5 DEF UnregisterInst, Forget, Restrict
  <2>2. Cardinality(DOMAIN mInstList') = Cardinality(I) - 1
    BY <1>1, <2>1, FS_RemoveElement
  <2> QED BY <1>1, <2>1, <2>2 DEF CountsMove
<1>6. ASSUME NEW t \in Tasks, UnregisterTask(t) PROVE CountsMove
  <2> DEFINE s == mTaskList[t].inst
  <2>1. /\ t \in T /\ DOMAIN mTaskList' = T \ {t} /\ registeredTaskAmount' = registeredTaskAmount - 1
        /\ DOMAIN mInstList' = I \ ToSet(s)
        /\ registeredInstAmount' = registeredInstAmount - Len(s)
    BY <1>6 DEF UnregisterTask, Forget, Restrict
  <2>2. s \in Seq(Insts) /\ IsInjective(s) /\ ToSet(s) \subseteq I
    BY <2>1 DEF IInv, TypeOK, TaskStates, RegistryConsistent, Members
  <2>3. Cardinality(ToSet(s)) = Len(s) /\ Len(s) \in Nat
    BY <2>2, CountedOnce
  <2> HIDE DEF s
  <2>4. I \cap ToSet(s) = ToSet(s)
    BY <2>2
  <2>5. Cardinality(I \ ToSet(s)) = Cardinality(I) - Len(s)
    <3>1. Cardinality(I \ ToSet(s)) = Cardinality(I) - Cardinality(I \cap ToSet(s))
      <4> HIDE DEF I
      <4> QED BY <1>1, FS_Difference
    <3> QED BY <2>3, <2>4, <3>1
  <2>6. Cardinality(T \ {t}) = Cardinality(T) - 1
    BY <1>1, <2>1, FS_RemoveElement
  <2> QED BY <1>1, <2>1, <2>3, <2>5, <2>6 DEF CountsMove
<1>7. ASSUME NEW m \in Messages, Add(m) PROVE CountsMove
  BY <1>2, <1>7, AddEffect DEF IInv
<1>8. CASE UNCHANGED vars
  BY <1>2, <1>8 DEF vars, registry
<1> QED
  BY <1>3, <1>4, <1>5, <1>6, <1>7, <1>8 DEF Next, ShutdownInst, ShutdownTask

\* CountsFollowRegistry: the two counters change as the tables do.
THEOREM CountersFollow == Spec => CountsFollowRegistry
<1>1. IInv /\ [Next]_vars => IInv'
  BY TypeStep, RegistryStep DEF IInv
<1>2. IInv /\ [Next]_vars =>
        [/\ registeredTaskAmount' - registeredTaskAmount
              = Cardinality(DOMAIN mTaskList') - Cardinality(DOMAIN mTaskList)
         /\ registeredInstAmount' - registeredInstAmount
              = Cardinality(DOMAIN mInstList') - Cardinality(DOMAIN mInstList)]_vars
  BY CountsStep DEF CountsMove
<1> QED
  BY InitIInv, <1>1, <1>2, PTL DEF Spec, CountsFollowRegistry

-----------------------------------------------------------------------------
\* A round: who has been served are the active instances from some place of the turn
\* to its end, which is the stored position; and not all of them.
RoundOK(t) ==
    /\ \E a \in 0..Count(t) : \A i : i \in served[t] <=>
          i \in Active(t) /\ \E k \in a + 1..Count(t) : Candidate(t, k) = i
    /\ served[t] = {} \/ ~(Active(t) \subseteq served[t])
RoundInv == \A t \in DOMAIN mTaskList : RoundOK(t)

\* Where a turn of the list comes to.
LEMMA TurnPlaces ==
    ASSUME IInv, NEW t \in DOMAIN mTaskList, Count(t) > 0
    PROVE  LET n == Count(t)
               p == IF mTaskList[t].instpos >= n THEN n - 1 ELSE mTaskList[t].instpos
           IN /\ n \in Nat /\ p \in 0..n - 1
              /\ mTaskList[t].inst \in Seq(Insts) /\ Len(mTaskList[t].inst) = n
              /\ \A k \in 1..n : Position(t, k) = IF p + k < n THEN p + k ELSE p + k - n
<1> DEFINE n == Count(t)
           p == IF mTaskList[t].instpos >= n THEN n - 1 ELSE mTaskList[t].instpos
<1>1. /\ n \in Nat /\ n > 0 /\ p \in 0..n - 1
      /\ mTaskList[t].inst \in Seq(Insts) /\ Len(mTaskList[t].inst) = n
  BY DEF IInv, TypeOK, TaskStates, Count
<1>2. \A k : Position(t, k) = (p + k) % n
  BY DEF Position
<1> HIDE DEF n, p
<1>3. \A b, c \in Nat : b < c => b % c = b /\ (b + c) % c = b
  OBVIOUS
<1>4. ASSUME NEW k \in 1..n PROVE (p + k) % n = IF p + k < n THEN p + k ELSE p + k - n
  <2>1. CASE p + k < n
    BY <1>1, <1>3, <2>1
  <2>2. CASE p + k >= n
    <3>1. p + k - n \in Nat /\ p + k - n < n /\ (p + k - n) + n = p + k
      BY <1>1, <2>2
    <3>2. ((p + k - n) + n) % n = p + k - n
      BY <1>1, <1>3, <3>1
    <3> QED BY <1>1, <2>2, <3>1, <3>2
  <2> QED BY <1>1, <2>1, <2>2
<1> QED
  BY <1>1, <1>2, <1>4 DEF n, p

\* It comes to each instance once.
LEMMA TurnOnce ==
    ASSUME IInv, NEW t \in DOMAIN mTaskList, NEW j \in 1..Count(t), NEW k \in 1..Count(t),
           Candidate(t, j) = Candidate(t, k)
    PROVE  j = k
<1> DEFINE n == Count(t)
           p == IF mTaskList[t].instpos >= n THEN n - 1 ELSE mTaskList[t].instpos
           s == mTaskList[t].inst
<1>1. /\ n \in Nat /\ n > 0 /\ p \in 0..n - 1 /\ s \in Seq(Insts) /\ Len(s) = n
      /\ \A x \in 1..n : Position(t, x) = IF p + x < n THEN p + x ELSE p + x - n
  <2>1. n \in Nat
    BY DEF IInv, TypeOK, TaskStates, Count
  <2>2. n > 0
    BY <2>1
  <2> QED BY <2>2, TurnPlaces
<1>2. \A x, y \in 1..n : s[x] = s[y] => x = y
  BY <1>1 DEF IInv, RegistryConsistent, IsInjective
<1>3. s[Position(t, j) + 1] = s[Position(t, k) + 1]
  BY DEF Candidate
<1> HIDE DEF n, p, s
<1>4. j \in 1..n /\ k \in 1..n
  BY DEF n
<1>5. Position(t, j) + 1 \in 1..n /\ Position(t, k) + 1 \in 1..n
  BY <1>1, <1>4
<1>6. Position(t, j) + 1 = Position(t, k) + 1
  BY <1>2, <1>3, <1>5
<1> QED
  BY <1>1, <1>4, <1>5, <1>6

\* After a move by k it goes on from there.
LEMMA TurnMoved ==
    ASSUME IInv, NEW t \in DOMAIN mTaskList, NEW k \in 1..Count(t), MoveTo(t, k)
    PROVE  /\ Count(t)' = Count(t)
           /\ \A j \in 1..Count(t) :
                 Candidate(t, j)' = Candidate(t, IF k + j <= Count(t) THEN k + j
                                                                     ELSE k + j - Count(t))
<1> DEFINE n == Count(t)
           p == IF mTaskList[t].instpos >= n THEN n - 1 ELSE mTaskList[t].instpos
           s == mTaskList[t].inst
           q == Position(t, k)
<1>1. /\ n \in Nat /\ n > 0 /\ p \in 0..n - 1 /\ s \in Seq(Insts) /\ Len(s) = n
      /\ \A x \in 1..n : Position(t, x) = IF p + x < n THEN p + x ELSE p + x - n
  <2>1. n \in Nat
    BY DEF IInv, TypeOK, TaskStates, Count
  <2>2. n > 0
    BY <2>1
  <2> QED BY <2>2, TurnPlaces
<1>2. mTaskList'[t].inst = s /\ mTaskList'[t].instpos = q
  BY DEF MoveTo, IInv, TypeOK, TaskStates
<1>3. Count(t)' = n
  BY <1>2 DEF Count
<1>4. q \in 0..n - 1 /\ q = IF p + k < n THEN p + k ELSE p + k - n
  BY <1>1
<1>5. \A j : Position(t, j)' = ((IF q >= n THEN n - 1 ELSE q) + j) % n
  BY <1>2, <1>3 DEF Position
<1>6. \A j : Candidate(t, j)' = s[Position(t, j)' + 1]
  BY <1>2 DEF Candidate
<1>7. \A j : Candidate(t, j) = s[Position(t, j) + 1]
  BY DEF Candidate
<1> HIDE DEF n, p, s, q
<1>8. \A b, c \in Nat : b < c => b % c = b /\ (b + c) % c = b
  OBVIOUS
<1>9. ASSUME NEW j \in 1..n
      PROVE  Position(t, j)' = Position(t, IF k + j <= n THEN k + j ELSE k + j - n)
  <2>1. k \in 1..n
    BY DEF n
  <2>2. (IF q >= n THEN n - 1 ELSE q) = q
    BY <1>1, <1>4
  <2>3. (q + j) % n = IF q + j < n THEN q + j ELSE q + j - n
    <3>1. CASE q + j < n
      <4>1. q + j \in Nat
        BY <1>1, <1>4
      <4> QED BY <1>1, <1>8, <3>1, <4>1
    <3>2. CASE q + j >= n
      <4>1. q + j - n \in Nat /\ q + j - n < n /\ (q + j - n) + n = q + j
        BY <1>1, <1>4, <3>2
      <4>2. ((q + j - n) + n) % n = q + j - n
        BY <1>1, <1>8, <4>1
      <4> QED BY <1>1, <1>4, <3>2, <4>1, <4>2
    <3> QED BY <1>1, <1>4, <3>1, <3>2
  <2>4. (IF k + j <= n THEN k + j ELSE k + j - n) \in 1..n
    BY <1>1, <2>1
  <2>5. Position(t, IF k + j <= n THEN k + j ELSE k + j - n)
          = LET x == IF k + j <= n THEN k + j ELSE k + j - n
            IN IF p + x < n THEN p + x ELSE p + x - n
    BY <1>1, <2>4
  <2>6. Position(t, j)' = IF q + j < n THEN q + j ELSE q + j - n
    BY <1>5, <2>2, <2>3
  <2> QED BY <1>1, <1>4, <2>1, <2>5, <2>6
<1> QED
  BY <1>3, <1>6, <1>7, <1>9 DEF n

\* A round that begins.
LEMMA RoundBegins ==
    ASSUME NEW t, served'[t] = {}, Count(t)' \in Nat
    PROVE  RoundOK(t)'
<1>1. Count(t)' \in 0..Count(t)' /\ \A k : k \notin Count(t)' + 1..Count(t)'
  OBVIOUS
<1> QED
  BY <1>1 DEF RoundOK

\* One that is left alone.
LEMMA RoundStays ==
    ASSUME NEW t, RoundOK(t), served'[t] = served[t], Active(t)' = Active(t),
           Count(t)' = Count(t), Count(t) \in Nat,
           \A k \in 1..Count(t) : Candidate(t, k)' = Candidate(t, k)
    PROVE  RoundOK(t)'
<1>1. PICK a \in 0..Count(t) : \A i : i \in served[t] <=>
          i \in Active(t) /\ \E k \in a + 1..Count(t) : Candidate(t, k) = i
  BY DEF RoundOK
<1>2. \A k \in a + 1..Count(t) : k \in 1..Count(t)
  BY <1>1
<1>3. a \in 0..Count(t)' /\ \A i : i \in served'[t] <=>
          i \in Active(t)' /\ \E k \in a + 1..Count(t)' : Candidate(t, k)' = i
  BY <1>1, <1>2
<1>4. served'[t] = {} \/ ~(Active(t)' \subseteq served'[t])
  BY DEF RoundOK
<1> QED
  BY <1>3, <1>4 DEF RoundOK

\* Whoever takes the next turn has not been served in this round, and the round goes
\* on to the new position or ends.
LEMMA RoundServes ==
    ASSUME IInv, NEW t \in DOMAIN mTaskList, t \in Tasks, RoundOK(t), NEW k \in Turn(t),
           Open(t, k), \A j \in 1..k - 1 : ~Open(t, j),
           MoveTo(t, k), Serve(t, Candidate(t, k)), UNCHANGED mInstList
    PROVE  Candidate(t, k) \notin served[t] /\ RoundOK(t)'
<1> DEFINE n == Count(t)
           e == Candidate(t, k)
<1>1. n \in Nat /\ k \in 1..n
  BY DEF IInv, TypeOK, TaskStates, Count, Turn
<1>2. PICK a \in 0..n : \A i : i \in served[t] <=>
          i \in Active(t) /\ \E j \in a + 1..n : Candidate(t, j) = i
  BY DEF RoundOK
<1>3. \A j \in 1..k - 1 : Candidate(t, j) \notin Active(t)
  BY DEF Open, Active, Members
<1>4. ASSUME NEW i \in Active(t)
      PROVE  \E j \in k..n : Candidate(t, j) = i
  <2>1. i \in ToSet(mTaskList[t].inst) /\ mTaskList[t].inst \in Seq(Insts)
    BY <1>4 DEF Active, IInv, RegistryConsistent, TypeOK, TaskStates
  <2>2. PICK x \in 1..n : mTaskList[t].inst[x] = i
    BY <2>1 DEF ToSet, Count
  <2>3. PICK j \in 1..n : Candidate(t, j) = i
    BY <2>2, TurnIsComplete DEF IInv, Turn
  <2>4. j \notin 1..k - 1
    BY <1>3, <1>4, <2>3
  <2>5. j \in k..n
    BY <1>1, <2>4
  <2> QED BY <2>3, <2>5
<1>5. e \in Active(t)
  <2>1. e \in ToSet(mTaskList[t].inst)
    <3>1. Position(t, k) + 1 \in 1..n /\ mTaskList[t].inst \in Seq(Insts)
      <4>1. n > 0
        BY <1>1
      <4>2. Position(t, k) \in 0..n - 1
        BY <1>1, <4>1, PositionRange DEF IInv
      <4> QED BY <1>1, <4>2 DEF IInv, TypeOK, TaskStates
    <3> QED BY <3>1 DEF Candidate, ToSet, Count
  <2> QED BY <2>1 DEF Open, Active, IInv, RegistryConsistent
<1>6. e \notin served[t]
  <2> SUFFICES ASSUME e \in served[t] PROVE FALSE
    OBVIOUS
  <2>1. PICK j \in a + 1..n : Candidate(t, j) = e
    BY <1>2
  <2>2. j = k
    BY <1>1, <1>2, <2>1, TurnOnce
  <2>3. \A x \in k..n : x \in a + 1..n
    BY <1>1, <1>2, <2>1, <2>2
  <2>4. Active(t) \subseteq served[t]
    BY <1>2, <1>4, <2>3
  <2> QED BY <2>4 DEF RoundOK
<1>7. k <= a
  <2>1. k \notin a + 1..n
    BY <1>2, <1>5, <1>6
  <2> QED BY <1>1, <1>2, <2>1
<1> DEFINE now == served[t] \cup {e}
<1>8. served'[t] = IF Active(t) \subseteq now THEN {} ELSE now
  BY DEF Serve, IInv, TypeOK
<1>9. /\ Count(t)' = n
      /\ \A j \in 1..n : Candidate(t, j)' = Candidate(t, IF k + j <= n THEN k + j ELSE k + j - n)
  BY <1>1, TurnMoved
<1>10. Active(t)' = Active(t)
  BY DEF Active, Members
<1>11. CASE Active(t) \subseteq now
  <2>1. served'[t] = {} /\ Count(t)' \in Nat
    BY <1>1, <1>8, <1>9, <1>11
  <2> QED BY <1>6, <2>1, RoundBegins
<1>12. CASE ~(Active(t) \subseteq now)
  <2>1. served'[t] = now
    BY <1>8, <1>12
  <2> DEFINE b == a - k
  <2>2. b \in 0..n
    BY <1>1, <1>2, <1>7
  <2> HIDE DEF n, e, now
  <2>3. ASSUME NEW i \in served[t] PROVE \E j \in b + 1..n : Candidate(t, j)' = i
    <3>1. PICK x \in a + 1..n : Candidate(t, x) = i
      BY <1>2
    <3>2. x - k \in b + 1..n /\ x - k \in 1..n /\ k + (x - k) = x /\ x <= n
      BY <1>1, <1>2, <1>7, <3>1
    <3>3. Candidate(t, x - k)' = Candidate(t, x)
      BY <1>9, <3>2
    <3> QED BY <3>1, <3>2, <3>3
  <2>4. \E j \in b + 1..n : Candidate(t, j)' = e
    <3>1. PICK x : x = n
      OBVIOUS
    <3>2. x \in b + 1..n /\ x \in 1..n /\ ~(k + x <= n) /\ k + x - n = k
      BY <1>1, <1>2, <1>7, <3>1
    <3>3. Candidate(t, x)' = Candidate(t, k)
      BY <1>9, <3>2
    <3> QED BY <3>2, <3>3 DEF e
  <2>5. ASSUME NEW i \in Active(t), NEW j \in b + 1..n, Candidate(t, j)' = i
        PROVE  i \in now
    <3>1. j \in 1..n
      BY <1>1, <1>2, <1>7
    <3>2. CASE k + j <= n
      <4>1. k + j \in a + 1..n /\ Candidate(t, k + j) = i
        BY <1>1, <1>2, <1>9, <2>5, <3>1, <3>2
      <4> QED BY <1>2, <4>1 DEF now
    <3>3. CASE ~(k + j <= n)
      <4>1. k + j - n \in 1..k /\ Candidate(t, k + j - n) = i
        BY <1>1, <1>9, <2>5, <3>1, <3>3
      <4>2. k + j - n \notin 1..k - 1
        BY <1>3, <4>1
      <4>3. k + j - n = k
        BY <1>1, <3>1, <4>1, <4>2
      <4> QED BY <4>1, <4>3 DEF now, e
    <3> QED BY <3>2, <3>3
  <2>6. now \subseteq Active(t)
    BY <1>2, <1>5 DEF now
  <2>7. b \in 0..Count(t)' /\ \A i : i \in served'[t] <=>
          i \in Active(t)' /\ \E j \in b + 1..Count(t)' : Candidate(t, j)' = i
    BY <1>9, <1>10, <2>1, <2>2, <2>3, <2>4, <2>5, <2>6 DEF now
  <2>8. ~(Active(t)' \subseteq served'[t])
    BY <1>10, <1>12, <2>1
  <2> HIDE DEF b
  <2> QED BY <1>6, <2>7, <2>8 DEF RoundOK, e
<1> QED
  BY <1>6, <1>11, <1>12

\* Sending to nobody comes around to where it was.
LEMMA NobodyKeeps ==
    ASSUME IInv, RoundInv, NEW m \in Messages, SendToNobody(m)
    PROVE  RoundInv'
<1>1. UNCHANGED <<mInstList, served>>
  BY DEF SendToNobody, Frame
<1>2. CASE UNCHANGED mTaskList
  BY <1>1, <1>2 DEF RoundInv, RoundOK, Active, Members, Candidate, Position, Count
<1>3. CASE /\ m.task \in DOMAIN mTaskList /\ Count(m.task) # 0
           /\ MoveTo(m.task, Count(m.task))
  <2>1. PICK u : u = m.task
    OBVIOUS
  <2>2. /\ DOMAIN mTaskList' = DOMAIN mTaskList
        /\ \A t \in DOMAIN mTaskList : t # u => mTaskList'[t] = mTaskList[t]
    BY <1>3, <2>1 DEF MoveTo
  <2>3. ASSUME NEW t \in DOMAIN mTaskList PROVE RoundOK(t)'
    <3>1. /\ RoundOK(t) /\ served'[t] = served[t] /\ Active(t)' = Active(t)
          /\ Count(t) \in Nat
      BY <1>1 DEF RoundInv, Active, Members, IInv, TypeOK, TaskStates, Count
    <3>2. CASE t = u
      <4>1. PICK n : n = Count(t)
        OBVIOUS
      <4>2. n \in 1..n /\ \A j \in 1..n : (IF n + j <= n THEN n + j ELSE n + j - n) = j
        BY <1>3, <2>1, <3>1, <3>2, <4>1
      <4>3. MoveTo(t, n)
        BY <1>3, <2>1, <3>2, <4>1
      <4>4. /\ Count(t)' = Count(t)
            /\ \A j \in 1..Count(t) :
                  Candidate(t, j)' = Candidate(t, IF n + j <= Count(t) THEN n + j
                                                                      ELSE n + j - Count(t))
        BY <4>1, <4>2, <4>3, TurnMoved
      <4>5. \A j \in 1..Count(t) : Candidate(t, j)' = Candidate(t, j)
        BY <4>1, <4>2, <4>4
      <4> QED BY <3>1, <4>4, <4>5, RoundStays
    <3>3. CASE t # u
      <4>1. Count(t)' = Count(t) /\ \A k : Candidate(t, k)' = Candidate(t, k)
        BY <2>2, <3>3 DEF Count, Candidate, Position
      <4> QED BY <3>1, <4>1, RoundStays
    <3> QED BY <3>2, <3>3
  <2> QED BY <2>2, <2>3 DEF RoundInv
<1> QED
  BY <1>2, <1>3 DEF SendToNobody

\* Where the tables change for one task only, whose round begins.
LEMMA OthersStay ==
    ASSUME IInv, RoundInv, NEW u \in Tasks, NewRound(u), TypeOK',
           DOMAIN mTaskList' \subseteq DOMAIN mTaskList \cup {u},
           \A t \in DOMAIN mTaskList' : t # u =>
               mTaskList'[t] = mTaskList[t] /\ Active(t)' = Active(t)
    PROVE  RoundInv'
<1> SUFFICES ASSUME NEW t \in DOMAIN mTaskList' PROVE RoundOK(t)'
  BY DEF RoundInv
<1>1. served \in [Tasks -> SUBSET Insts] /\ Count(t)' \in Nat
  BY DEF IInv, TypeOK, TaskStates, Count
<1>2. CASE t = u
  BY <1>1, <1>2, RoundBegins DEF NewRound
<1>3. CASE t # u
  <2>1. RoundOK(t) /\ Count(t) \in Nat
    BY <1>3 DEF RoundInv, IInv, TypeOK, TaskStates, Count
  <2>2. served'[t] = served[t] /\ Active(t)' = Active(t)
    BY <1>1, <1>3 DEF NewRound
  <2>3. Count(t)' = Count(t) /\ \A k : Candidate(t, k)' = Candidate(t, k)
    BY <1>3 DEF Count, Candidate, Position
  <2> QED BY <2>1, <2>2, <2>3, RoundStays
<1> QED
  BY <1>2, <1>3

\* The invariant of the round holds at the start.
LEMMA RoundInitially == Init => RoundInv
  BY DEF Init, RoundInv

\* Every step keeps the invariant of the round.
LEMMA RoundStep == IInv /\ RoundInv /\ [Next]_vars => RoundInv'
<1> SUFFICES ASSUME IInv, RoundInv, [Next]_vars PROVE RoundInv'
  OBVIOUS
<1>0. /\ TypeOK'
      /\ mTaskList \in [DOMAIN mTaskList -> TaskStates]
      /\ \A j \in DOMAIN mInstList : /\ mInstList[j].taskid \in Tasks
                                     /\ mInstList[j] \in Items
  BY TypeStep DEF IInv, TypeOK, Items
<1>1. ASSUME NEW u \in Tasks, NEW i \in Insts, RegisterTask(u, i) PROVE RoundInv'
  <2>1. /\ NewRound(u) /\ i \notin DOMAIN mInstList
        /\ mInstList' = Put(mInstList, i, [taskid |-> u, shuttingDown |-> FALSE])
    BY <1>1 DEF RegisterTask, IInv, UsedOK
  <2>2. /\ DOMAIN mTaskList' \subseteq DOMAIN mTaskList \cup {u}
        /\ \A t \in DOMAIN mTaskList' : t # u => mTaskList'[t] = mTaskList[t]
    BY <1>0, <1>1 DEF RegisterTask, Put
  <2>3. \A t : t # u => Active(t)' = Active(t)
    BY <2>1 DEF Put, Active, Members
  <2> QED BY <1>0, <2>1, <2>2, <2>3, OthersStay
<1>2. ASSUME NEW i \in Insts, ShutdownInst(i) PROVE RoundInv'
  <2>1. PICK u \in Tasks : u = mInstList[i].taskid /\ NewRound(u)
    BY <1>0, <1>2 DEF ShutdownInst
  <2>2. /\ UNCHANGED mTaskList /\ DOMAIN mInstList' = DOMAIN mInstList
        /\ \A j \in DOMAIN mInstList : j # i => mInstList'[j] = mInstList[j]
        /\ mInstList'[i].taskid = u
    BY <1>0, <1>2, <2>1 DEF ShutdownInst, Close, Items
  <2>3. \A t : t # u => Active(t)' = Active(t)
    BY <2>1, <2>2 DEF Active, Members
  <2> QED BY <1>0, <2>1, <2>2, <2>3, OthersStay
<1>3. ASSUME NEW u \in Tasks, ShutdownTask(u) PROVE RoundInv'
  <2>1. /\ NewRound(u) /\ UNCHANGED mTaskList
        /\ ToSet(mTaskList[u].inst) = Members(u)
        /\ Close(Members(u))
    BY <1>3 DEF ShutdownTask, IInv, RegistryConsistent
  <2>2. /\ DOMAIN mInstList' = DOMAIN mInstList
        /\ \A j \in DOMAIN mInstList : mInstList[j].taskid # u => mInstList'[j] = mInstList[j]
        /\ \A j \in DOMAIN mInstList : mInstList'[j].taskid = mInstList[j].taskid
    BY <1>0, <2>1 DEF Close, Members, Items
  <2>3. \A t : t # u => Active(t)' = Active(t)
    BY <2>2 DEF Active, Members
  <2> QED BY <1>0, <2>1, <2>3, OthersStay
<1>4. ASSUME NEW i \in Insts, UnregisterInst(i) PROVE RoundInv'
  <2>1. PICK u \in Tasks : u = mInstList[i].taskid
    BY <1>0, <1>4 DEF UnregisterInst
  <2>2. /\ NewRound(u) /\ DOMAIN mTaskList' = DOMAIN mTaskList
        /\ \A t \in DOMAIN mTaskList : t # u => mTaskList'[t] = mTaskList[t]
        /\ DOMAIN mInstList' = DOMAIN mInstList \ {i}
        /\ \A j \in DOMAIN mInstList' : mInstList'[j] = mInstList[j]
    BY <1>4, <2>1 DEF UnregisterInst, Forget, Restrict
  <2>3. \A t : t # u => Active(t)' = Active(t)
    BY <2>1, <2>2 DEF Active, Members
  <2> QED BY <1>0, <2>2, <2>3, OthersStay
<1>5. ASSUME NEW u \in Tasks, UnregisterTask(u) PROVE RoundInv'
  <2>1. /\ NewRound(u) /\ DOMAIN mTaskList' = DOMAIN mTaskList \ {u}
        /\ \A t \in DOMAIN mTaskList' : mTaskList'[t] = mTaskList[t]
        /\ DOMAIN mInstList' = DOMAIN mInstList \ Members(u)
        /\ \A j \in DOMAIN mInstList' : mInstList'[j] = mInstList[j]
    BY <1>5 DEF UnregisterTask, Forget, Restrict, IInv, RegistryConsistent
  <2>2. \A t : t # u => Active(t)' = Active(t)
    BY <2>1 DEF Active, Members
  <2> QED BY <1>0, <2>1, <2>2, OthersStay
<1>6. CASE UNCHANGED <<mInstList, mTaskList, served>>
  BY <1>6 DEF RoundInv, RoundOK, Active, Members, Candidate, Position, Count
<1>7. ASSUME NEW m \in Messages, Add(m) PROVE RoundInv'
  <2>1. CASE SendToNobody(m)
    BY <2>1, NobodyKeeps
  <2>2. CASE SendInTurn(m)
    <3>1. PICK u \in DOMAIN mTaskList : u = m.task /\ u \in Tasks
      BY <2>2 DEF SendInTurn, Messages
    <3>2. PICK k \in Turn(u) :
            /\ Open(u, k) /\ \A j \in 1..k - 1 : ~Open(u, j)
            /\ MoveTo(u, k) /\ Serve(u, Candidate(u, k))
      BY <2>2, <3>1 DEF SendInTurn
    <3>3. RoundOK(u)' /\ UNCHANGED mInstList
      BY <2>2, <3>1, <3>2, RoundServes DEF SendInTurn, Frame, RoundInv
    <3>4. /\ DOMAIN mTaskList' = DOMAIN mTaskList
          /\ \A t \in DOMAIN mTaskList : t # u => mTaskList'[t] = mTaskList[t]
      BY <3>2 DEF MoveTo
    <3>5. served \in [Tasks -> SUBSET Insts] /\ DOMAIN mTaskList \subseteq Tasks
      BY DEF IInv, TypeOK
    <3>6. ASSUME NEW t \in DOMAIN mTaskList, t # u PROVE RoundOK(t)'
      <4>1. RoundOK(t) /\ Count(t) \in Nat /\ Active(t)' = Active(t)
        BY <1>0, <3>3 DEF RoundInv, TaskStates, Count, Active, Members
      <4>2. served'[t] = served[t]
        BY <3>2, <3>5, <3>6 DEF Serve
      <4>3. Count(t)' = Count(t) /\ \A x \in 1..Count(t) : Candidate(t, x)' = Candidate(t, x)
        BY <3>4, <3>6 DEF Count, Candidate, Position
      <4> QED BY <4>1, <4>2, <4>3, RoundStays
    <3> QED BY <3>3, <3>4, <3>6 DEF RoundInv
  <2>3. CASE SendToInst(m) \/ MulticastMsgToTask(m) \/ BroadcastMsgToTask(m)
    BY <1>6, <2>3 DEF SendToInst, MulticastMsgToTask, BroadcastMsgToTask, Frame
  <2> QED BY <1>7, <2>1, <2>2, <2>3 DEF Add, SendMsgToTask
<1>8. CASE UNCHANGED vars
  BY <1>6, <1>8 DEF vars, registry
<1> QED
  BY <1>1, <1>2, <1>3, <1>4, <1>5, <1>7, <1>8 DEF Next

\* Nobody gets a second dialog in a round.
LEMMA DialogInTurn ==
    ASSUME IInv, RoundInv, NEW m \in Messages, m.msgType = "single", m.inst = NoInst, Add(m)
    PROVE  last'.to \cap served[m.task] = {}
<1>1. CASE SendToNobody(m)
  BY <1>1 DEF SendToNobody, Outcome
<1>2. CASE SendInTurn(m)
  <2>1. PICK u \in DOMAIN mTaskList : u = m.task /\ u \in Tasks
    BY <1>2 DEF SendInTurn, Messages
  <2>2. PICK k \in Turn(u) :
          /\ Open(u, k) /\ \A j \in 1..k - 1 : ~Open(u, j)
          /\ MoveTo(u, k) /\ Serve(u, Candidate(u, k))
          /\ Outcome({Candidate(u, k)}, TRUE, FALSE)
    BY <1>2, <2>1 DEF SendInTurn
  <2>3. Candidate(u, k) \notin served[u]
    BY <1>2, <2>1, <2>2, RoundServes DEF SendInTurn, Frame, RoundInv
  <2>4. last'.to = {Candidate(u, k)}
    BY <2>2 DEF Outcome
  <2> QED BY <2>1, <2>3, <2>4
<1> QED
  BY <1>1, <1>2 DEF Add, SendMsgToTask, SendToInst

\* RoundRobin: while the instances of a task stay the same, none of them gets a second new
\* dialog before every active one has had its first.
THEOREM TurnsAreFair == Spec => RoundRobin
<1> DEFINE Inv == IInv /\ RoundInv
<1>1. Init => Inv
  BY InitIInv, RoundInitially
<1>2. Inv /\ [Next]_vars => Inv'
  BY TypeStep, RegistryStep, RoundStep DEF IInv
<1>3. Inv /\ [Next]_vars =>
        [\A m \in Messages :
           m.msgType = "single" /\ m.inst = NoInst /\ Add(m) =>
             last'.to \cap served[m.task] = {}]_vars
  BY DialogInTurn
<1> HIDE DEF Inv
<1> QED
  BY <1>1, <1>2, <1>3, PTL DEF Spec, RoundRobin
=============================================================================
