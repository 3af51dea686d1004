----------------------------- MODULE TaskSelector -----------------------------
(***************************************************************************)
(* TTaskSelector, the kernel's registry of task instances and its          *)
(* dispatcher.  A task is known by its id and runs as several instances.   *)
(* A message names a task and either one of its instances (a follow-up in  *)
(* a dialog) or none (a new dialog, given to the instances in turn), or it *)
(* is copied to the instances of a task or of all tasks.                   *)
(*                                                                         *)
(* mInstList and mTaskList are the two hash tables, as functions whose     *)
(* domains are the keys they hold; CList is a sequence.  Not in the code:  *)
(* used, served and last, the history the properties are about.            *)
(***************************************************************************)
EXTENDS Integers, Sequences, SequencesExt, FiniteSets, Functions

CONSTANTS Tasks,      \* task ids
          Insts,      \* instance ids
          NoInst,     \* instance id 0: no instance named
          Garbage     \* what the memory of the counters may hold before init()

ASSUME SelectorAssumption ==
    /\ NoInst \notin Insts
    /\ IsFiniteSet(Insts) /\ IsFiniteSet(Tasks)
    /\ Garbage \subseteq Int

VARIABLES mInstList,            \* instance id -> Item
          mTaskList,            \* task id -> TaskState
          registeredTaskAmount, \* the two counters
          registeredInstAmount,
          used,                 \* instance ids ever registered
          served,               \* served[t]: who got a new dialog this round
          last                  \* the outcome of the last add(msg)

registry == <<mInstList, mTaskList, registeredTaskAmount, registeredInstAmount>>
vars == <<registry, used, served, last>>

Types == {"single", "broadcast", "multicast"}

Items == [taskid : Tasks, shuttingDown : BOOLEAN]
TaskStates == [inst : Seq(Insts), instpos : Nat]
Messages == [msgType : Types, task : Tasks, inst : Insts \cup {NoInst}]
Outcomes == [to : SUBSET Insts, ret : BOOLEAN, deleted : BOOLEAN]

\* The tables, the counters and the instances on either side of them.
TypeOK == /\ DOMAIN mInstList \subseteq Insts
          /\ mInstList \in [DOMAIN mInstList -> Items]
          /\ DOMAIN mTaskList \subseteq Tasks
          /\ mTaskList \in [DOMAIN mTaskList -> TaskStates]
          /\ registeredTaskAmount \in Int
          /\ registeredInstAmount \in Int
          /\ used \subseteq Insts
          /\ served \in [Tasks -> SUBSET Insts]
          /\ last \in Outcomes

\* The constructor leaves the counters as it finds them; init(), which would
\* clear them, is called by nobody.
Init == /\ mInstList = <<>>
        /\ mTaskList = <<>>
        /\ registeredTaskAmount \in Garbage
        /\ registeredInstAmount \in Garbage
        /\ used = {}
        /\ served = [t \in Tasks |-> {}]
        /\ last = [to |-> {}, ret |-> FALSE, deleted |-> FALSE]

-----------------------------------------------------------------------------
Put(f, k, v) == [x \in DOMAIN f \cup {k} |-> IF x = k THEN v ELSE f[x]]
Forget(f, S) == Restrict(f, DOMAIN f \ S)

Members(t) == {i \in DOMAIN mInstList : mInstList[i].taskid = t}
Active(t) == {i \in Members(t) : ~mInstList[i].shuttingDown}

\* A round ends when the instances of the task or their states change.
NewRound(t) == served' = [served EXCEPT ![t] = {}]

\* CList::remove(value).
Without(s, i) == RemoveAt(s, CHOOSE k \in DOMAIN s : s[k] = i)

\* TFRAMEManager numbers instances with mMaxInst and never uses one again.
RegisterTask(t, i) ==
    /\ i \notin used
    /\ used' = used \cup {i}
    /\ mInstList' = Put(mInstList, i, [taskid |-> t, shuttingDown |-> FALSE])
    /\ IF t \in DOMAIN mTaskList
       THEN /\ mTaskList' = [mTaskList EXCEPT ![t].inst = Append(@, i)]
            /\ UNCHANGED registeredTaskAmount
       ELSE /\ mTaskList' = Put(mTaskList, t, [inst |-> <<i>>, instpos |-> 0])
            /\ registeredTaskAmount' = registeredTaskAmount + 1
    /\ registeredInstAmount' = registeredInstAmount + 1
    /\ NewRound(t)
    /\ UNCHANGED last

Close(S) == mInstList' = [i \in DOMAIN mInstList |->
                IF i \in S THEN [mInstList[i] EXCEPT !.shuttingDown = TRUE]
                           ELSE mInstList[i]]

ShutdownInst(i) ==
    /\ i \in DOMAIN mInstList
    /\ Close({i})
    /\ NewRound(mInstList[i].taskid)
    /\ UNCHANGED <<mTaskList, registeredTaskAmount, registeredInstAmount, used, last>>

\* Walks the task's own list, not mInstList.
ShutdownTask(t) ==
    /\ t \in DOMAIN mTaskList
    /\ Close(ToSet(mTaskList[t].inst))
    /\ NewRound(t)
    /\ UNCHANGED <<mTaskList, registeredTaskAmount, registeredInstAmount, used, last>>

\* Mutant: the instance stays in the list of its task.
UnregisterInstOnly(i) ==
    /\ i \in DOMAIN mInstList
    /\ mInstList' = Forget(mInstList, {i})
    /\ registeredInstAmount' = registeredInstAmount - 1
    /\ NewRound(mInstList[i].taskid)
    /\ UNCHANGED <<mTaskList, registeredTaskAmount, used, last>>

\* The task stays registered when its last instance goes.
UnregisterInst(i) ==
    /\ i \in DOMAIN mInstList
    /\ LET t == mInstList[i].taskid
       IN /\ IF t \in DOMAIN mTaskList
             THEN mTaskList' = [mTaskList EXCEPT ![t].inst = Without(@, i)]
             ELSE UNCHANGED mTaskList
          /\ NewRound(t)
    /\ mInstList' = Forget(mInstList, {i})
    /\ registeredInstAmount' = registeredInstAmount - 1
    /\ UNCHANGED <<registeredTaskAmount, used, last>>

\* Mutant: only one instance is discounted.
UnregisterTaskCountOne(t) ==
    /\ t \in DOMAIN mTaskList
    /\ mInstList' = Forget(mInstList, ToSet(mTaskList[t].inst))
    /\ registeredInstAmount' = registeredInstAmount - 1
    /\ mTaskList' = Forget(mTaskList, {t})
    /\ registeredTaskAmount' = registeredTaskAmount - 1
    /\ NewRound(t)
    /\ UNCHANGED <<used, last>>

UnregisterTask(t) ==
    /\ t \in DOMAIN mTaskList
    /\ mInstList' = Forget(mInstList, ToSet(mTaskList[t].inst))
    /\ registeredInstAmount' = registeredInstAmount - Len(mTaskList[t].inst)
    /\ mTaskList' = Forget(mTaskList, {t})
    /\ registeredTaskAmount' = registeredTaskAmount - 1
    /\ NewRound(t)
    /\ UNCHANGED <<used, last>>

-----------------------------------------------------------------------------
\* getTask without an instance: instpos moves on until it meets one that is
\* not shutting down, at most once around the list.
Count(t) == Len(mTaskList[t].inst)
Position(t, k) ==
    LET p == mTaskList[t].instpos
    IN ((IF p >= Count(t) THEN Count(t) - 1 ELSE p) + k) % Count(t)
Candidate(t, k) == mTaskList[t].inst[Position(t, k) + 1]

\* The positions getTask visits, in order.
\* Mutant: the loop stops one short of a full turn.
ShortTurn(t) == 1..Count(t) - 1
Turn(t) == 1..Count(t)

Open(t, k) == /\ Candidate(t, k) \in DOMAIN mInstList
              /\ ~mInstList[Candidate(t, k)].shuttingDown

\* Mutant: the position found is not stored.
ForgetPosition(t, k) == mTaskList' = mTaskList
MoveTo(t, k) == mTaskList' = [mTaskList EXCEPT ![t].instpos = Position(t, k)]

\* Who of t has had a new dialog after i gets one; a full set ends the round.
Serve(t, i) ==
    LET now == served[t] \cup {i}
    IN served' = [served EXCEPT ![t] = IF Active(t) \subseteq now THEN {} ELSE now]

\* Who receives the message (or a copy), what add returns and whether it has
\* deleted the message.
Outcome(to, ret, deleted) == last' = [to |-> to, ret |-> ret, deleted |-> deleted]

Frame == UNCHANGED <<mInstList, registeredTaskAmount, registeredInstAmount, used>>

\* The message names an instance: it is given the message whatever task it
\* belongs to and even when it is shutting down; the named task must exist.
SendToInst(m) ==
    /\ m.inst # NoInst
    /\ LET found == m.task \in DOMAIN mTaskList /\ m.inst \in DOMAIN mInstList
       IN Outcome(IF found THEN {m.inst} ELSE {}, found, FALSE)
    /\ UNCHANGED <<mTaskList, served>>
    /\ Frame

\* No instance is named: the instances of the task take turns.
SendInTurn(m) ==
    /\ m.inst = NoInst
    /\ m.task \in DOMAIN mTaskList
    /\ \E k \in Turn(m.task) :
          /\ Open(m.task, k)
          /\ \A j \in 1..k - 1 : ~Open(m.task, j)
          /\ MoveTo(m.task, k)
          /\ Serve(m.task, Candidate(m.task, k))
          /\ Outcome({Candidate(m.task, k)}, TRUE, FALSE)
    /\ Frame

\* A full turn meets nobody (and leaves instpos where it was, in range).
SendToNobody(m) ==
    /\ m.inst = NoInst
    /\ IF m.task \in DOMAIN mTaskList
       THEN /\ \A k \in Turn(m.task) : ~Open(m.task, k)
            /\ IF Count(m.task) = 0
               THEN UNCHANGED mTaskList
               ELSE MoveTo(m.task, Count(m.task))
       ELSE UNCHANGED mTaskList
    /\ Outcome({}, FALSE, FALSE)
    /\ UNCHANGED served
    /\ Frame

SendMsgToTask(m) == SendToInst(m) \/ SendInTurn(m) \/ SendToNobody(m)

\* A copy to each instance of the task: reset() puts the cursor of the list on
\* its first element and the loop begins with next().
MulticastMsgToTask(m) ==
    /\ IF m.task \in DOMAIN mTaskList
       THEN LET s == mTaskList[m.task].inst
            IN Outcome({s[k] : k \in 2..Len(s)} \cap DOMAIN mInstList, TRUE, TRUE)
       ELSE Outcome({}, FALSE, TRUE)
    /\ UNCHANGED <<mTaskList, served>>
    /\ Frame

\* A copy to every instance.
BroadcastMsgToTask(m) ==
    /\ Outcome(DOMAIN mInstList, TRUE, TRUE)
    /\ UNCHANGED <<mTaskList, served>>
    /\ Frame

\* add(msg) looks at msgType (and not at dialogType, which is left out).
Add(m) == \/ m.msgType = "single" /\ SendMsgToTask(m)
          \/ m.msgType = "multicast" /\ MulticastMsgToTask(m)
          \/ m.msgType = "broadcast" /\ BroadcastMsgToTask(m)

Next == \/ \E t \in Tasks, i \in Insts : RegisterTask(t, i)
        \/ \E i \in Insts : ShutdownInst(i) \/ UnregisterInst(i)
        \/ \E t \in Tasks : ShutdownTask(t) \/ UnregisterTask(t)
        \/ \E m \in Messages : Add(m)

Spec == Init /\ [][Next]_vars
-----------------------------------------------------------------------------
\* The two tables agree: an instance is in the list of exactly the task its
\* item names, once, and that task is registered.  registerTask, unregisterInst
\* and unregisterTask each change both tables; getTask trusts them.
RegistryConsistent ==
    /\ \A i \in DOMAIN mInstList : mInstList[i].taskid \in DOMAIN mTaskList
    /\ \A t \in DOMAIN mTaskList : /\ ToSet(mTaskList[t].inst) = Members(t)
                                   /\ IsInjective(mTaskList[t].inst)

\* The counters move with the tables, whatever they started from.
CountsFollowRegistry ==
    [][/\ registeredTaskAmount' - registeredTaskAmount
            = Cardinality(DOMAIN mTaskList') - Cardinality(DOMAIN mTaskList)
       /\ registeredInstAmount' - registeredInstAmount
            = Cardinality(DOMAIN mInstList') - Cardinality(DOMAIN mInstList)]_vars

\* A message that opens a dialog reaches an instance that is not shutting down
\* whenever its task has one, and is refused otherwise: getTask's loop looks at
\* every position, whatever instpos was left by earlier removals.
NewDialogGoesToActive ==
    [][\A m \in Messages :
          m.msgType = "single" /\ m.inst = NoInst /\ Add(m) =>
             /\ last'.ret <=> Active(m.task) # {}
             /\ last'.to \subseteq Active(m.task)
             /\ last'.ret => last'.to # {}]_vars

\* Load is shared: while the instances of a task stay the same, none of them
\* gets a second new dialog before every active one has had its first.
RoundRobin ==
    [][\A m \in Messages :
          m.msgType = "single" /\ m.inst = NoInst /\ Add(m) =>
             last'.to \cap served[m.task] = {}]_vars

\* "multicast messages, distributed to the instances of the same task": every
\* one of them gets its copy.
MulticastReachesAll ==
    [][\A m \in Messages :
          m.msgType = "multicast" /\ Add(m) => last'.to = Members(m.task)]_vars
=============================================================================
