------------------------------ MODULE RingBuffer ------------------------------
(***************************************************************************)
(* TBuffer: a ring of m_size cells, as functions from one state of the     *)
(* buffer to the next.  The bytes are moved by two functions that the      *)
(* owner of the buffer supplies and that may move less than they are asked *)
(* to, or fail.  A transfer that wraps around the end is two calls, with   *)
(* the results first and second; the second is made only if the first      *)
(* moved its whole part.                                                   *)
(***************************************************************************)
EXTENDS Integers, Sequences, FiniteSetsExt

CONSTANT NoByte   \* what a cell holds that is not filled

\* Pointers are offsets from msgBuf; msgBufEnd is m_size, where a pointer may stand.
EmptyRing(size) == [m_size |-> size, pBufHead |-> 0, pBufTail |-> 0,
                    m_filledLength |-> 0, m_freeLength |-> size,
                    cells |-> [i \in 0..size - 1 |-> NoByte]]

-----------------------------------------------------------------------------
\* n bytes at a pointer that may run on to the end, or straight to the other one:
\* how many belong to the first call.
FirstPart(b, pointer, straight, n) == IF straight THEN n ELSE Min({n, b.m_size - pointer})

\* Mutant: the pointer goes past the end of the ring.
TransferPastEnd(b, pointer, straight, n, first, second) ==
    LET part == FirstPart(b, pointer, straight, n)
        two == part < n /\ first = part
        moved == IF two THEN IF second \in 1..n - part THEN part + second ELSE 0
                        ELSE IF first \in 1..part THEN first ELSE 0
    IN [moved |-> moved,
        pointer |-> IF moved = 0 THEN pointer ELSE Min({b.m_size, pointer + moved}),
        ret |-> IF two THEN Max({part, moved}) ELSE first]
\* What a transfer of n bytes moves, where it leaves the pointer and what it
\* returns.  If the second call fails nothing counts as moved, though the first
\* part was, and is returned.
Transfer(b, pointer, straight, n, first, second) ==
    LET part == FirstPart(b, pointer, straight, n)
        two == part < n /\ first = part
        moved == IF two THEN IF second \in 1..n - part THEN part + second ELSE 0
                        ELSE IF first \in 1..part THEN first ELSE 0
    IN [moved |-> moved,
        pointer |-> IF moved = 0 THEN pointer ELSE IF two THEN second ELSE pointer + moved,
        ret |-> IF two THEN Max({part, moved}) ELSE first]

\* readFromBuffer(dst, length), not of an empty buffer.
ReadLength(b, length) == Min({length, b.m_filledLength})
ReadStraight(b) == b.pBufHead < b.pBufTail
ReadFromBuffer(b, length, first, second) ==
    LET t == Transfer(b, b.pBufHead, ReadStraight(b), ReadLength(b, length), first, second)
        taken == {(b.pBufHead + i) % b.m_size : i \in 0..t.moved - 1}
        left == [b EXCEPT !.pBufHead = t.pointer,
                          !.m_filledLength = @ - t.moved, !.m_freeLength = @ + t.moved,
                          !.cells = [i \in DOMAIN @ |-> IF i \in taken THEN NoByte ELSE @[i]]]
    IN [ret |-> t.ret, moved |-> t.moved,
        ring |-> IF left.m_filledLength = 0 THEN EmptyRing(b.m_size) ELSE left]

WriteLength(b, length) == Min({length, b.m_freeLength})
WriteStraight(b) == b.pBufHead > b.pBufTail
\* writeIntoBuffer(src, length), of which src are the bytes that come.
WriteIntoBuffer(b, src, length, first, second) ==
    LET n == WriteLength(b, length)
        t == Transfer(b, b.pBufTail, WriteStraight(b), n, first, second)
        at(i) == ((i - b.pBufTail) % b.m_size) + 1
    IN [ret |-> t.ret, moved |-> t.moved,
        ring |-> [b EXCEPT !.pBufTail = t.pointer,
                           !.m_filledLength = @ + t.moved, !.m_freeLength = @ - t.moved,
                           !.cells = [i \in DOMAIN @ |-> IF at(i) <= t.moved
                                                        THEN src[at(i)] ELSE @[i]]]]

\* rearrange(): the content moves to the beginning.
Content(b) == [i \in 1..b.m_filledLength |-> b.cells[(b.pBufHead + i - 1) % b.m_size]]
Rearrange(b) == [b EXCEPT !.pBufHead = 0, !.pBufTail = b.m_filledLength,
                          !.cells = [i \in DOMAIN @ |-> IF i < b.m_filledLength
                                                       THEN Content(b)[i + 1] ELSE NoByte]]
=============================================================================
