------------------------------ MODULE LinkedList ------------------------------
(***************************************************************************)
(* CList: a doubly linked list with a cursor.                              *)
(***************************************************************************)
EXTENDS LinkedEntries

CONSTANT ListValues   \* integers

ASSUME ListAssumption == ListValues \subseteq Int

VARIABLES list,    \* the fields of CList, and the entries
          kept     \* a handle the application has, or Null

listVars == <<list, kept>>

ListInit == list = EmptyList /\ kept = Null

-----------------------------------------------------------------------------
PushFront(l, v) ==
    LET k == NewEntry(l, v, Tag, l.m_pHead)
        e == k.m_pCurrent
        h == [k EXCEPT !.m_pHead = e, !.next[Tag] = e]
    IN IF l.m_count = 0 THEN [h EXCEPT !.m_pTail = e, !.prev[Tag] = e]
                        ELSE [h EXCEPT !.prev[l.m_pHead] = e]

\* Between two entries.
Link(l, v, p, n) == LET k == NewEntry(l, v, p, n) IN
                    [k EXCEPT !.next[p] = k.m_pCurrent, !.prev[n] = k.m_pCurrent]

IsHead(l) == l.m_pCurrent # Tag /\ l.prev[l.m_pCurrent] = Tag
IsTail(l) == l.m_pCurrent # Tag /\ l.next[l.m_pCurrent] = Tag

InsertHere(l, v) == IF l.m_count = 0 \/ IsHead(l) THEN PushFront(l, v)
                    ELSE IF l.m_pCurrent = Tag THEN l
                    ELSE IF IsTail(l) THEN PushBack(l, v)
                    ELSE Link(l, v, l.m_pCurrent, l.next[l.m_pCurrent])

PopCurrent(l) ==
    LET e == l.m_pCurrent
        p == l.prev[e]
        n == l.next[e]
    IN IF l.m_count = 0 \/ e = Tag THEN l
       ELSE IF n = Tag THEN PopBack(l)
       ELSE IF p = Tag THEN PopFront(l)
       ELSE [Delete(l, e) EXCEPT !.m_pCurrent = n, !.prev[n] = p, !.next[p] = n]

Reset(l) == [l EXCEPT !.m_pCurrent = l.m_pHead]

\* The first entry from e on whose value is one of these, or the tag.
FirstFrom(l, e, values) ==
    LET s == Onward(l, e)
        hits == {i \in DOMAIN s : l.value[s[i]] \in values}
    IN IF hits = {} THEN Tag ELSE s[Min(hits)]

Contain(l, v) == [l EXCEPT !.m_pCurrent = FirstFrom(l, @, {v})]

\* The values behind v, when the list ascends (mode 0) or descends.
LargerThan(v, mode) == {w \in ListValues : ~(IF mode = 0 THEN v >= w ELSE v <= w)}

InsertSort(l, v, mode) ==
    LET c == FirstFrom(l, l.m_pHead, LargerThan(v, mode))
    IN IF c = l.m_pHead THEN PushFront(l, v)
       ELSE IF c = Tag THEN PushBack(l, v)
       ELSE Link(l, v, l.prev[c], c)

\* remove(value): reset, and as long as the list contains the value, pop_current
\* and reset.
NextRound(l, v) == IF l.m_pCurrent = Tag THEN l ELSE Contain(Reset(PopCurrent(l)), v)
RemoveValue(l, v) ==
    LET rounds[i \in 0..l.m_count] ==
            IF i = 0 THEN Contain(Reset(l), v) ELSE NextRound(rounds[i - 1], v)
    IN rounds[l.m_count]

RemoveAll(l) ==
    LET popped[i \in 0..l.m_count] == IF i = 0 THEN l ELSE PopFront(popped[i - 1])
    IN popped[l.m_count]

RemoveByHandle(l, e) == Reset(PopCurrent([l EXCEPT !.m_pCurrent = e]))

\* operator=: the values of another list.
Assign(l, vs) ==
    LET filled[i \in 0..Len(vs)] ==
            IF i = 0 THEN RemoveAll(l) ELSE PushBack(filled[i - 1], vs[i])
    IN filled[Len(vs)]

-----------------------------------------------------------------------------
\* The application forgets a handle when its element is removed: the list would
\* take whatever is there now.
Becomes(l) == list' = l /\ kept' = IF kept \in l.used THEN kept ELSE Null
CursorTo(e) == list' = [list EXCEPT !.m_pCurrent = e] /\ UNCHANGED kept

AddValue(v) == /\ list.used # Entries
               /\ \/ Becomes(PushFront(list, v)) \/ Becomes(PushBack(list, v))
                  \/ Becomes(InsertHere(list, v))
                  \/ \E mode \in {0, 1} : Becomes(InsertSort(list, v, mode))

Pop == \/ Becomes(PopFront(list)) \/ Becomes(PopBack(list)) \/ Becomes(PopCurrent(list))

RemoveThese == \E v \in ListValues : Becomes(RemoveValue(list, v))

\* From a list of no more than two values, if there is memory for them.
AssignOther == \E n \in 0..Min({2, Cardinality(Entries)}) : \E vs \in [1..n -> ListValues] :
                  list' = Assign(list, vs) /\ kept' = Null

\* front, back, next, prev, reset, and the address of a position.
Move == \/ list.m_count > 0 /\ (CursorTo(list.m_pHead) \/ CursorTo(list.m_pTail))
        \/ list.m_pCurrent # Tag /\ ~IsTail(list) /\ CursorTo(list.next[list.m_pCurrent])
        \/ list.m_pCurrent # Tag /\ ~IsHead(list) /\ CursorTo(list.prev[list.m_pCurrent])
        \/ CursorTo(list.m_pHead)
        \/ \E i \in 1..list.m_count : CursorTo(Onward(list, list.m_pHead)[i])

Search(v) == Becomes(Contain(list, v))

SetValue(i, v) == LET e == Onward(list, list.m_pHead)[i] IN
                  Becomes([list EXCEPT !.m_pCurrent = e, !.value[e] = v])

GetCurrentHandle == /\ list.m_pCurrent # Tag
                    /\ kept' = list.m_pCurrent
                    /\ UNCHANGED list

UseHandle == kept # Null /\ Becomes(RemoveByHandle(list, kept))

ListNext == \/ \E v \in ListValues : \/ AddValue(v) \/ Search(v)
                                     \/ \E i \in 1..list.m_count : SetValue(i, v)
            \/ Pop \/ RemoveThese \/ AssignOther \/ Move \/ GetCurrentHandle \/ UseHandle

ListSpec == ListInit /\ [][ListNext]_listVars
-----------------------------------------------------------------------------
\* The list read from the head along m_next; the cursor by its place there.
ItemsOf(l) == LET s == Onward(l, l.m_pHead) IN
              [i \in DOMAIN s |-> [id |-> s[i], value |-> l.value[s[i]]]]
CursorOf(l) == LET s == Onward(l, l.m_pHead)
                   at == {i \in DOMAIN s : s[i] = l.m_pCurrent}
               IN IF l.m_pCurrent = Tag THEN 0
                  ELSE IF at # {} THEN Min(at)
                  ELSE Len(s) + 1   \* not in the list

Abstract == INSTANCE CursorList WITH items <- ItemsOf(list), cursor <- CursorOf(list),
                Values <- ListValues, Ids <- Entries, NoId <- Null, handle <- kept

\* After any sequence of calls every operation does to the list and to the cursor
\* what CursorList says, whatever was added and removed, at either end or around
\* the cursor, and whichever deleted entries have been taken again: links in both
\* directions, head, tail and count fit together, and the cursor is never left at
\* a deleted entry.
ImplementsCursorList == Abstract!Spec
=============================================================================
