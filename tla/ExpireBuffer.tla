----------------------------- MODULE ExpireBuffer -----------------------------
(***************************************************************************)
(* CExpireBuffer: linked entries in the order they were last refreshed,    *)
(* found by key through a map; those not refreshed for LivingTime are      *)
(* taken from the front.  What an entry holds is its key; the value put    *)
(* with it is left out.                                                    *)
(***************************************************************************)
EXTENDS LinkedEntries

CONSTANTS BufferKeys,
          MaxCount,     \* the limit of a buffer that has one
          LivingTime,   \* m_living_time
          GivenTimes,   \* times update() may be given
          MaxTime       \* bound on the time

ASSUME ExpireAssumption == MaxCount \in Nat /\ LivingTime \in Nat /\ MaxTime \in Nat
                           /\ GivenTimes \subseteq Nat

VARIABLES buffer,      \* the fields of CExpireBuffer, and the entries
          m_map,       \* m_map[k]: the entry of k, or Null
          refreshed,   \* m_refreshtime of the entry of k
          policy,      \* m_count_max, 0 for no limit, and m_destroy_old
          time,        \* time(0)
          backdated,   \* update() has been given a time that is not the present
          broken       \* clear() has left m_pTail at a deleted entry

expireVars == <<buffer, m_map, refreshed, policy, time, backdated, broken>>

\* Without a limit nothing is destroyed to make room.
ExpireInit == /\ buffer = EmptyList
              /\ m_map = [k \in BufferKeys |-> Null]
              /\ refreshed = [k \in BufferKeys |-> 0]
              /\ policy \in {x \in [limit : {0, MaxCount}, destroyOld : BOOLEAN] :
                                x.limit = 0 => ~x.destroyOld}
              /\ time = 1 /\ backdated = FALSE /\ broken = FALSE

Known == {k \in BufferKeys : m_map[k] # Null}

-----------------------------------------------------------------------------
\* The list becomes b, and the map forgets the keys in gone.
Erase(b, gone) == /\ buffer' = b
                  /\ m_map' = [k \in BufferKeys |-> IF k \in gone THEN Null ELSE m_map[k]]
                  /\ refreshed' = [k \in BufferKeys |-> IF k \in gone THEN 0 ELSE refreshed[k]]
                  /\ UNCHANGED <<policy, time, backdated, broken>>

\* Mutant: the tail is not told when the last entry goes.
UnlinkKeyTailStays(b, e) ==
    LET p == b.prev[e]
        n == b.next[e]
    IN [Delete(b, e) EXCEPT !.next[p] = n, !.prev[n] = p,
                            !.m_pHead = IF p = Tag THEN n ELSE @,
                            !.m_pCurrent = IF p = Tag THEN n ELSE IF n = Tag THEN p ELSE @]
\* The cursor stays where it is, at the deleted entry even, unless that was the
\* first or the last.
UnlinkKey(b, e) ==
    LET p == b.prev[e]
        n == b.next[e]
    IN [Delete(b, e) EXCEPT !.next[p] = n, !.prev[n] = p,
                            !.m_pTail = IF n = Tag THEN p ELSE @,
                            !.m_pHead = IF p = Tag THEN n ELSE @,
                            !.m_pCurrent = IF p = Tag THEN n ELSE IF n = Tag THEN p ELSE @]

PopKey(k) == k \in Known /\ Erase(UnlinkKey(buffer, m_map[k]), {k})

PopEnd == /\ buffer.m_count > 0
          /\ \/ Erase(PopFront(buffer), {buffer.value[buffer.m_pHead]})
             \/ Erase(PopBack(buffer), {buffer.value[buffer.m_pTail]})

\* pop_old, and pop_front_old, which does it once: from the front, as long as the
\* first is too old.
TooOld(e) == LivingTime < time - refreshed[buffer.value[e]]

PopOld == LET s == Onward(buffer, buffer.m_pHead)
              n == CHOOSE i \in 0..Len(s) : /\ \A j \in 1..i : TooOld(s[j])
                                            /\ i < Len(s) => ~TooOld(s[i + 1])
              popped[i \in 0..n] == IF i = 0 THEN buffer ELSE PopFront(popped[i - 1])
          IN Erase(popped[n], {buffer.value[s[i]] : i \in 1..n})

PopFrontOld == IF buffer.m_count > 0 /\ TooOld(buffer.m_pHead)
               THEN Erase(PopFront(buffer), {buffer.value[buffer.m_pHead]})
               ELSE UNCHANGED expireVars

\* A new key goes to the back; the first makes room, if it may be destroyed.
Push(k) ==
    LET b == PushBack(buffer, k)
        full == policy.limit > 0 /\ b.m_count > policy.limit
        oldest == buffer.value[buffer.m_pHead]
    IN /\ k \notin Known
       /\ buffer.used # Entries
       /\ policy.destroyOld \/ ~full
       /\ buffer' = IF full THEN PopFront(b) ELSE b
       /\ m_map' = [x \in BufferKeys |-> IF x = k THEN b.m_pCurrent
                                         ELSE IF full /\ x = oldest THEN Null ELSE m_map[x]]
       /\ refreshed' = [x \in BufferKeys |-> IF x = k THEN time
                                             ELSE IF full /\ x = oldest THEN 0 ELSE refreshed[x]]
       /\ UNCHANGED <<policy, time, backdated, broken>>

\* Mutant: the entry stays in its place.
StayInPlace(b, e) == [b EXCEPT !.m_pCurrent = e]
MoveToTail(b, e) ==
    LET p == b.prev[e]
        n == b.next[e]
        out == [b EXCEPT !.next[p] = n, !.prev[n] = p, !.m_pCurrent = e,
                         !.m_pHead = IF e = @ THEN n ELSE @]
    IN IF e = b.m_pTail THEN [b EXCEPT !.m_pCurrent = e]
       ELSE [out EXCEPT !.next[b.m_pTail] = e, !.prev[Tag] = e, !.next[e] = Tag,
                        !.prev[e] = b.m_pTail, !.m_pTail = e]

\* update(key, refreshtime), and with a value: refreshed, at the time given or the
\* present, and behind all others.
Update(k, t) == /\ k \in Known
                /\ buffer' = MoveToTail(buffer, m_map[k])
                /\ refreshed' = [refreshed EXCEPT ![k] = t]
                /\ backdated' = (backdated \/ t # time)
                /\ UNCHANGED <<m_map, policy, time, broken>>

\* front, back, find, operator[], next and prev; the last two not from an entry
\* that pop(key) has deleted.
MoveCursor ==
    /\ buffer.m_count > 0
    /\ \E e \in {buffer.m_pHead, buffer.m_pTail} \cup {m_map[k] : k \in Known}
              \cup IF buffer.m_pCurrent \in buffer.used \cup {Tag}
                   THEN {buffer.next[buffer.m_pCurrent], buffer.prev[buffer.m_pCurrent]} ELSE {} :
          buffer' = [buffer EXCEPT !.m_pCurrent = e]
    /\ UNCHANGED <<m_map, refreshed, policy, time, backdated, broken>>

\* clear() deletes from the front and leaves m_pTail where it was.
ClearBuffer ==
    /\ buffer.m_count > 0
    /\ buffer' = [EmptyList EXCEPT !.m_pTail = buffer.m_pTail]
    /\ m_map' = [k \in BufferKeys |-> Null]
    /\ refreshed' = [k \in BufferKeys |-> 0]
    /\ broken' = TRUE
    /\ UNCHANGED <<policy, time, backdated>>

TimePasses == /\ time < MaxTime
              /\ time' = time + 1
              /\ UNCHANGED <<buffer, m_map, refreshed, policy, backdated, broken>>

ExpireNext ==
    /\ ~broken
    /\ \/ \E k \in BufferKeys : \/ Push(k) \/ PopKey(k)
                                \/ \E t \in GivenTimes \cup {time} : Update(k, t)
       \/ PopEnd \/ PopOld \/ PopFrontOld \/ MoveCursor \/ ClearBuffer \/ TimePasses

ExpireSpec == ExpireInit /\ [][ExpireNext]_expireVars
-----------------------------------------------------------------------------
\* Until clear() of a buffer that is not empty: the list read from the head, the
\* list read from the tail, the map and the count have the same entries, whichever
\* operation put, moved or removed them; there are no more than the limit; and
\* unless a time was given, who was refreshed earlier is further to the front.
BufferAgrees == ~broken =>
    LET s == Onward(buffer, buffer.m_pHead)
        back[i \in 1..Len(s)] == IF i = 1 THEN buffer.m_pTail ELSE buffer.prev[back[i - 1]]
    IN /\ Len(s) = buffer.m_count /\ Len(s) = Cardinality(Known)
       /\ \A i \in DOMAIN s : back[Len(s) + 1 - i] = s[i] /\ m_map[buffer.value[s[i]]] = s[i]
       /\ s = <<>> => buffer.m_pTail = Tag
       /\ policy.limit > 0 => Len(s) <= policy.limit
       /\ ~backdated => \A i \in 2..Len(s) :
             refreshed[buffer.value[s[i - 1]]] <= refreshed[buffer.value[s[i]]]

\* pop_old looks at the front only, and yet removes exactly the entries that have
\* not been refreshed for the living time, unless update() was given a time.
PopOldIsExact == [][~backdated /\ PopOld =>
    Known' = {k \in Known : time - refreshed[k] <= LivingTime}]_expireVars
=============================================================================
