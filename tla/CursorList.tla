------------------------------ MODULE CursorList ------------------------------
(***************************************************************************)
(* What CList promises: a sequence of elements and a cursor, which is the  *)
(* position of an element, or 0 past the end.  Every operation says where  *)
(* it leaves the cursor.  An element keeps its identity, which a handle    *)
(* remembers.                                                              *)
(***************************************************************************)
EXTENDS Integers, Sequences, SequencesExt

CONSTANTS Values, Ids, NoId

VARIABLES items,   \* records of id and value
          cursor,
          handle   \* id the application has kept, of an element still there

IdsOf(s) == {s[i].id : i \in DOMAIN s}

\* The application forgets the handle of an element that has been removed.
Forget == handle' = IF handle \in IdsOf(items') THEN handle ELSE NoId

Init == items = <<>> /\ cursor = 0 /\ handle = NoId

InsertAtPlace(p) == LET new == items'[p] IN
                    /\ Len(items') = Len(items) + 1
                    /\ items' = InsertAt(items, p, new)
                    /\ new.id \in Ids \ IdsOf(items) /\ new.value \in Values
PutAt(p) == InsertAtPlace(p) /\ cursor' = p /\ Forget

PushFront == PutAt(1)
PushBack == PutAt(Len(items) + 1)
\* Behind the cursor, but in front of an element that is the first.
Insert == \/ cursor <= 1 /\ (cursor = 0 => items = <<>>) /\ PutAt(1)
          \/ cursor > 1 /\ PutAt(cursor + 1)
\* In front of the first that is larger (mode 0), or smaller (mode 1).
InsertSort == \E p \in 1..Len(items) + 1, mode \in {0, 1} :
    /\ PutAt(p)
    /\ LET before(v, w) == IF mode = 0 THEN v <= w ELSE v >= w
           new == items'[p].value
       IN /\ \A i \in 1..p-1 : before(items[i].value, new)
          /\ p <= Len(items) => ~before(items[p].value, new)

\* The cursor moves to the element behind the removed one, if there is one.
TakeOut(p) == /\ items' = RemoveAt(items, p)
              /\ cursor' = IF p < Len(items) THEN p ELSE p - 1
              /\ Forget
PopFront == items # <<>> /\ TakeOut(1)
PopBack == items # <<>> /\ TakeOut(Len(items))
PopCurrent == cursor # 0 /\ TakeOut(cursor)
RemoveByHandle == /\ handle # NoId
                  /\ \E p \in DOMAIN items : /\ items[p].id = handle
                                             /\ items' = RemoveAt(items, p)
                  /\ cursor' = IF items' = <<>> THEN 0 ELSE 1
                  /\ handle' = NoId
\* These are left, in the order they had.
KeepOnly(left) == \E f \in [DOMAIN items' -> left] :
    /\ \A i, j \in DOMAIN items' : i < j => f[i] < f[j]
    /\ \A p \in left : \E i \in DOMAIN items' : f[i] = p
    /\ items' = [i \in DOMAIN items' |-> items[f[i]]]
RemoveValue == \E v \in Values :
    KeepOnly({i \in DOMAIN items : items[i].value # v}) /\ cursor' = 0 /\ Forget
\* The elements of another list, here of no more than two.
Assign == /\ cursor' = Len(items') /\ cursor' <= 2
          /\ items' \in Seq([id : Ids, value : Values])
          /\ \A i, j \in DOMAIN items' : items'[i].id = items'[j].id => i = j
          /\ handle' = NoId

Go(p) == cursor' = p /\ UNCHANGED <<items, handle>>
Step == \/ cursor \in 1..Len(items) - 1 /\ Go(cursor + 1)
        \/ cursor > 1 /\ Go(cursor - 1)
        \/ items # <<>> /\ (Go(1) \/ Go(Len(items)))
        \/ \E i \in DOMAIN items : Go(i)
Contain == /\ cursor # 0
           /\ \E v \in Values :
                LET hits == {i \in cursor..Len(items) : items[i].value = v} IN
                \/ hits = {} /\ Go(0)
                \/ \E i \in hits : (\A j \in hits : i <= j) /\ Go(i)
Set == \E i \in DOMAIN items, v \in Values :
    items' = [items EXCEPT ![i].value = v] /\ cursor' = i /\ UNCHANGED handle
GetHandle == cursor # 0 /\ handle' = items[cursor].id /\ UNCHANGED <<items, cursor>>

Insertion == Len(items') > Len(items) /\ (PushFront \/ PushBack \/ Insert \/ InsertSort)
Removal == /\ Len(items') < Len(items)
           /\ PopFront \/ PopBack \/ PopCurrent \/ RemoveByHandle \/ RemoveValue
Search == items' = items /\ (Step \/ Contain \/ GetHandle \/ RemoveValue)

\* A step changes something, which is asked first: most steps of a system that
\* has a list change nothing of it.
Next == /\ <<items, cursor, handle>>' # <<items, cursor, handle>>
        /\ Insertion \/ Removal \/ Search \/ Set \/ Assign

Spec == Init /\ [][Next]_<<items, cursor, handle>>
=============================================================================
