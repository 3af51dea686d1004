------------------------------- MODULE HashTable -------------------------------
(***************************************************************************)
(* CHashTable: a table of chains that grows, its entries also linked in    *)
(* the order they were put, with a cursor over the table and one over that   *)
(* order.  An entry is named by its key; values are left out.              *)
(***************************************************************************)
EXTENDS Integers, Sequences, SequencesExt, FiniteSets

CONSTANTS HashKeys,     \* integers, which are their own hash codes
          StartLength,  \* HASHTABLE_MIN_LENGTH or more
          MaxLength,    \* HASHTABLE_MAX_LENGTH
          LoadPercent,  \* m_loadFactor
          NoEntry,      \* NULL
          Gone          \* where seqCur points once its entry is deleted

ASSUME HashAssumption == /\ HashKeys \subseteq Nat /\ IsFiniteSet(HashKeys)
                         /\ NoEntry \notin HashKeys /\ Gone \notin HashKeys \cup {NoEntry}
                         /\ StartLength \in Nat \ {0} /\ MaxLength \in Nat
                         /\ LoadPercent \in Nat

VARIABLES table,   \* the fields of CHashTable; s_prev, s_next are the entries'
          puts,    \* the keys put and not removed, in that order
          owed     \* those the walk begun by reset() has not returned

hashVars == <<table, puts, owed>>

EmptyTable == [m_table |-> [i \in 0..StartLength-1 |-> <<>>], m_tableLength |-> StartLength,
               m_entryCount |-> 0, m_pcurEntry |-> NoEntry, m_uicurIndex |-> 0,
               s_prev |-> [k \in HashKeys |-> NoEntry], s_next |-> [k \in HashKeys |-> NoEntry],
               seqHead |-> NoEntry, seqTail |-> NoEntry, seqCur |-> NoEntry]

HashInit == table = EmptyTable /\ puts = <<>> /\ owed = {}

-----------------------------------------------------------------------------
Index(t, k) == k % t.m_tableLength
Threshold(t) == (t.m_tableLength * LoadPercent) \div 100
ContainsKey(t, k) == k \in ToSet(t.m_table[Index(t, k)])
KeysOf(t) == UNION {ToSet(t.m_table[i]) : i \in DOMAIN t.m_table}

Place(s, k) == CHOOSE i \in DOMAIN s : s[i] = k
WithoutKey(s, k) == RemoveAt(s, Place(s, k))

\* What comes after a key in its chain, and what comes after it in the table.
Behind(s, k) == {s[i] : i \in Place(s, k) + 1..Len(s)}
Beyond(t, k) == Behind(t.m_table[Index(t, k)], k)
                  \cup {l \in KeysOf(t) : Index(t, l) > Index(t, k)}

SearchNextEntry(t) ==
    LET chain == t.m_table[t.m_uicurIndex]
        place == Place(chain, t.m_pcurEntry)
        later == {i \in t.m_uicurIndex + 1..t.m_tableLength - 1 : t.m_table[i] # <<>>}
        first == CHOOSE i \in later : \A j \in later : i <= j
    IN IF place < Len(chain) THEN [t EXCEPT !.m_pcurEntry = chain[place + 1]]
       ELSE IF later # {} THEN [t EXCEPT !.m_pcurEntry = Head(t.m_table[first]),
                                         !.m_uicurIndex = first]
       ELSE [t EXCEPT !.m_pcurEntry = NoEntry, !.m_uicurIndex = 0]

AddSequence(t, k) ==
    LET u == [t EXCEPT !.seqTail = k, !.s_next[k] = NoEntry] IN
    IF t.seqHead = NoEntry THEN [u EXCEPT !.seqHead = k, !.s_prev[k] = NoEntry]
    ELSE [u EXCEPT !.s_prev[k] = t.seqTail, !.s_next[t.seqTail] = k]

DelSequence(t, k) ==
    LET p == t.s_prev[k]
        n == t.s_next[k]
    IN IF n = NoEntry /\ p = NoEntry THEN [t EXCEPT !.seqHead = n, !.seqTail = n]
       ELSE IF n = NoEntry THEN [t EXCEPT !.seqTail = p, !.s_next[p] = NoEntry]
       ELSE IF p = NoEntry THEN [t EXCEPT !.seqHead = n, !.s_prev[n] = NoEntry]
       ELSE [t EXCEPT !.s_prev[n] = p, !.s_next[p] = n]

\* The chains are taken apart from the front, one after the other, and each entry is
\* put in front of its new chain: behind it there are those that were taken before it.
Moved(t, length, slots) ==
    LET Slot(i) == {k \in KeysOf(t) : k % slots = i}
        Chain(i) == [p \in 1..Cardinality(Slot(i)) |->
                        CHOOSE k \in Slot(i) : Cardinality(Slot(i) \cap Beyond(t, k)) = p - 1]
    IN [t EXCEPT !.m_tableLength = length,
                 !.m_table = [i \in 0..length - 1 |-> Chain(i)]]

\* Mutant: the entries keep the index they had.
RehashByOldLength(t) ==
    IF t.m_tableLength >= MaxLength THEN t
    ELSE Moved(t, IF t.m_tableLength * 2 >= MaxLength THEN MaxLength ELSE t.m_tableLength * 2,
               t.m_tableLength)
Rehash(t) ==
    IF t.m_tableLength >= MaxLength THEN t
    ELSE LET length == IF t.m_tableLength * 2 >= MaxLength THEN MaxLength
                                                           ELSE t.m_tableLength * 2
         IN Moved(t, length, length)

\* A new key: the walk over the table is given up, and the table may grow.
Insert(t, k) ==
    LET u == [t EXCEPT !.m_entryCount = @ + 1, !.m_pcurEntry = NoEntry, !.m_uicurIndex = 0]
        w == IF u.m_entryCount >= Threshold(u) THEN Rehash(u) ELSE u
    IN AddSequence([w EXCEPT !.m_table[Index(w, k)] = <<k>> \o @], k)

\* What a deleted entry holds is gone.
Unlink(t, k) ==
    [DelSequence(t, k) EXCEPT !.m_entryCount = @ - 1,
                              !.m_table[Index(t, k)] = WithoutKey(@, k),
                              !.s_prev[k] = NoEntry, !.s_next[k] = NoEntry,
                              !.seqCur = IF @ = k THEN Gone ELSE @]

\* Mutant: the cursor stays at the removed entry.
RemovedUnderCursor(t, k) == Unlink(t, k)
Removed(t, k) == Unlink(IF t.m_pcurEntry = k THEN SearchNextEntry(t) ELSE t, k)

ClearTable(t) == [EmptyTable EXCEPT !.m_tableLength = t.m_tableLength,
                                    !.m_table = [i \in DOMAIN t.m_table |-> <<>>],
                                    !.seqCur = IF t.seqCur = NoEntry THEN NoEntry ELSE Gone]

ResetTable(t) ==
    LET full == {i \in DOMAIN t.m_table : t.m_table[i] # <<>>}
        first == CHOOSE i \in full : \A j \in full : i <= j
    IN IF full = {} THEN [t EXCEPT !.m_pcurEntry = NoEntry, !.m_uicurIndex = 0]
       ELSE [t EXCEPT !.m_pcurEntry = Head(t.m_table[first]), !.m_uicurIndex = first]

-----------------------------------------------------------------------------
PutKey(k) == /\ table' = IF ContainsKey(table, k) THEN table ELSE Insert(table, k)
             /\ IF ContainsKey(table, k) THEN UNCHANGED <<puts, owed>>
                                         ELSE puts' = Append(puts, k) /\ owed' = {}

RemoveKey(k) == /\ ContainsKey(table, k)
                /\ table' = Removed(table, k)
                /\ puts' = WithoutKey(puts, k)
                /\ owed' = owed \ {k}

ClearAll == table' = ClearTable(table) /\ puts' = <<>> /\ owed' = {}

ResetWalk == table' = ResetTable(table) /\ owed' = ToSet(puts) /\ UNCHANGED puts

GetNext == /\ table.m_pcurEntry # NoEntry
           /\ table' = SearchNextEntry(table)
           /\ owed' = owed \ {table.m_pcurEntry}
           /\ UNCHANGED puts

ResetSeq == table' = [table EXCEPT !.seqCur = table.seqHead] /\ UNCHANGED <<puts, owed>>

\* Nothing moves seqCur from an entry that is removed: the caller must reset it.
GetNextSeq == /\ table.seqCur \notin {NoEntry, Gone}
              /\ table' = [table EXCEPT !.seqCur = table.s_next[@]]
              /\ UNCHANGED <<puts, owed>>

HashNext == \/ \E k \in HashKeys : PutKey(k) \/ RemoveKey(k)
            \/ ClearAll \/ ResetWalk \/ GetNext \/ ResetSeq \/ GetNextSeq

HashSpec == HashInit /\ [][HashNext]_hashVars
-----------------------------------------------------------------------------
At(s, i) == IF i \in DOMAIN s THEN s[i] ELSE NoEntry

\* Whatever has been put and removed, and however often the table has grown:
\* exactly the keys put and not removed are found, the count is theirs, and the
\* links give them in the order they were put, from either end.
TableIsConsistent ==
    /\ \A k \in HashKeys : ContainsKey(table, k) <=> k \in ToSet(puts)
    /\ table.m_entryCount = Len(puts)
    /\ table.seqHead = At(puts, 1) /\ table.seqTail = At(puts, Len(puts))
    /\ \A i \in DOMAIN puts : /\ table.s_next[puts[i]] = At(puts, i + 1)
                              /\ table.s_prev[puts[i]] = At(puts, i - 1)

\* A walk by reset() and getNext() returns every entry once, though entries are
\* removed under it, the one at the cursor included: it stands at an entry it has
\* not returned, and ends only when it owes none.
WalkIsComplete == IF table.m_pcurEntry = NoEntry THEN owed = {}
                                                 ELSE table.m_pcurEntry \in owed
=============================================================================
