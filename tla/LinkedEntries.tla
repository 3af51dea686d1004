---------------------------- MODULE LinkedEntries ----------------------------
(***************************************************************************)
(* Doubly linked entries, closed to a ring by the entry m_pTag, with a     *)
(* cursor m_pCurrent: what CList and CExpireBuffer are made of.  An        *)
(* operation is a function from the list's state to the next, so that      *)
(* those that call others are compositions.  `new' takes an entry that is  *)
(* not in use, and may take one deleted before.                            *)
(***************************************************************************)
EXTENDS Integers, Sequences, SequencesExt, FiniteSets

CONSTANTS Entries,  \* memory for entries: bounds the length of a list
          Tag, Null

ASSUME EntriesAssumption == /\ IsFiniteSet(Entries) /\ Tag \notin Entries
                            /\ Null \notin Entries \cup {Tag}

EmptyList == [prev |-> [e \in Entries \cup {Tag} |-> IF e = Tag THEN Tag ELSE Null],
              next |-> [e \in Entries \cup {Tag} |-> IF e = Tag THEN Tag ELSE Null],
              value |-> [e \in Entries |-> Null],
              used |-> {}, m_count |-> 0,
              m_pHead |-> Tag, m_pTail |-> Tag, m_pCurrent |-> Tag]

-----------------------------------------------------------------------------
\* m_pCurrent = new _Entry(value, p, n)
NewEntry(l, v, p, n) ==
    LET e == CHOOSE x \in Entries \ l.used : TRUE IN
    [l EXCEPT !.prev[e] = p, !.next[e] = n, !.value[e] = v,
              !.used = @ \cup {e}, !.m_pCurrent = e, !.m_count = @ + 1]

PushBack(l, v) ==
    LET k == NewEntry(l, v, l.m_pTail, Tag)
        e == k.m_pCurrent
        t == [k EXCEPT !.m_pTail = e, !.prev[Tag] = e]
    IN IF l.m_count = 0 THEN [t EXCEPT !.m_pHead = e, !.next[Tag] = e]
                        ELSE [t EXCEPT !.next[l.m_pTail] = e]

\* delete e: what it holds is gone.
Delete(l, e) == [l EXCEPT !.used = @ \ {e}, !.m_count = @ - 1,
                          !.prev[e] = Null, !.next[e] = Null, !.value[e] = Null]

\* Mutant: the tail of the emptied list stays at the deleted entry.
PopFrontOnly(l) ==
    LET e == l.m_pHead
        n == l.next[e]
    IN IF l.m_count = 0 THEN l
       ELSE [Delete(l, e) EXCEPT !.m_pCurrent = n, !.prev[n] = Tag, !.next[Tag] = n,
                                 !.m_pHead = n]
PopFront(l) ==
    LET e == l.m_pHead
        n == l.next[e]
    IN IF l.m_count = 0 THEN l
       ELSE [Delete(l, e) EXCEPT !.m_pCurrent = n, !.prev[n] = Tag, !.next[Tag] = n,
                                 !.m_pHead = n,
                                 !.m_pTail = IF l.m_count = 1 THEN Tag ELSE @]

PopBack(l) ==
    LET e == l.m_pTail
        p == l.prev[e]
    IN IF l.m_count = 0 THEN l
       ELSE [Delete(l, e) EXCEPT !.m_pCurrent = p, !.next[p] = Tag, !.prev[Tag] = p,
                                 !.m_pTail = p,
                                 !.m_pHead = IF l.m_count = 1 THEN Tag ELSE @]

\* The entries from e along m_next, up to the tag.
Onward(l, e) ==
    LET walk[i \in 1..Cardinality(Entries) + 1] ==
            IF i = 1 THEN e
            ELSE LET x == walk[i - 1] IN IF x \in {Tag, Null} THEN Tag ELSE l.next[x]
    IN [i \in 1..Cardinality({j \in DOMAIN walk : walk[j] \notin {Tag, Null}}) |-> walk[i]]
=============================================================================
