--------------------------------- MODULE CStr ---------------------------------
(***************************************************************************)
(* CStr: a string in an array of its own, or in a larger one from the heap *)
(* once it has grown.  Its length, its capacity and the zero byte at its   *)
(* end are kept by every operation.                                        *)
(*                                                                         *)
(* An array is a sequence of bytes.  Writing past its end makes it longer, *)
(* so that it is seen in the length.                                       *)
(***************************************************************************)
EXTENDS Integers, Sequences, SequencesExt

CONSTANTS Objects,            \* strings
          Letter, Space, Nul, \* bytes: isalnum, isspace, and the end of C strings
          Unwritten,            \* what an array holds that has not been written
          Literals,           \* the C strings that are passed, without Nul
          Blocks,             \* what is passed with a length
          MaxCStrBufferLen,   \* of the object's own array
          ShortMax,           \* the longest that CStrShort encodes, 255
          LengthByte,         \* what the byte is that CStrShort writes for a length
          MaxText             \* bound on the length of a string

Char == {Letter, Space, Nul}

ASSUME StringAssumption == /\ MaxCStrBufferLen \in Nat \ {0}
                           /\ ShortMax \in Nat /\ MaxText \in Nat
                           /\ LengthByte \in [0..ShortMax -> Char]
                           /\ Literals \cup Blocks \subseteq Seq(Char)

VARIABLES str,   \* for each object m_buffer, m_length and m_capacity
          text   \* what it should hold: a sequence of bytes

stringVars == <<str, text>>

-----------------------------------------------------------------------------
\* memcpy to offset at of an array.
Copied(b, at, bytes) == SubSeq(b, 1, at) \o bytes \o SubSeq(b, at + Len(bytes) + 1, Len(b))

Fresh(size) == [i \in 1..size |-> Unwritten]

Empty == [m_buffer |-> Copied(Fresh(MaxCStrBufferLen), 0, <<Nul>>), m_length |-> 0,
          m_capacity |-> MaxCStrBufferLen - 1]

\* A string of n bytes, of which the array has what was written to it.
Ended(s, n) == [s EXCEPT !.m_length = n, !.m_buffer = Copied(@, n, <<Nul>>)]

\* What strlen and its like see.
CString(s) == LET end == Min({i \in DOMAIN s.m_buffer : s.m_buffer[i] = Nul})
              IN SubSeq(s.m_buffer, 1, end - 1)

\* Mutant: no room for the zero byte when the length is a multiple of the block.
RealCapacityTight(n) == ((n + MaxCStrBufferLen - 1) \div MaxCStrBufferLen) * MaxCStrBufferLen
RealCapacity(n) == (n \div MaxCStrBufferLen + 1) * MaxCStrBufferLen

Resize(s, n) ==
    IF n <= s.m_capacity THEN s
    ELSE [s EXCEPT !.m_buffer = Copied(Fresh(RealCapacity(n)), 0, SubSeq(@, 1, s.m_length + 1)),
                   !.m_capacity = RealCapacity(n) - 1]

\* Constructors: an array of exactly the size, if the own one is too small.
NewString(cs) ==
    LET n == Len(cs)
        cap == IF n > MaxCStrBufferLen - 1 THEN n ELSE MaxCStrBufferLen - 1
    IN [m_buffer |-> Copied(Fresh(cap + 1), 0, Append(cs, Nul)), m_length |-> n,
        m_capacity |-> cap]

\* nCat; with a C string, += as well.
NCat(s, bytes) ==
    LET n == s.m_length + Len(bytes)
        r == Resize(s, n)
    IN Ended([r EXCEPT !.m_buffer = Copied(@, s.m_length, bytes)], n)

\* set, and = with a C string.
Set(s, bytes) ==
    LET r == Resize(s, Len(bytes)) IN Ended([r EXCEPT !.m_buffer = Copied(@, 0, bytes)], Len(bytes))

\* = with another string: its bytes and the one behind them.
AssignString(s, from) ==
    LET r == Resize(s, from.m_length) IN
    [r EXCEPT !.m_length = from.m_length,
              !.m_buffer = Copied(@, 0, SubSeq(from.m_buffer, 1, from.m_length + 1))]

\* += with another string, or with itself: then the last byte that is copied is no
\* longer what it was, and is written again.
AppendString(s, from) ==
    LET n == s.m_length + from.m_length
        r == Resize(s, n)
    IN Ended([r EXCEPT !.m_buffer =
                  Copied(@, s.m_length, SubSeq(from.m_buffer, 1, from.m_length + 1))], n)

\* cut(length): to that length, or by that length if it is negative.
CutAt(s, n) == IF n >= s.m_length \/ n < -s.m_length THEN s
               ELSE Ended(s, IF n >= 0 THEN n ELSE s.m_length + n)

SetByte(s, c, pos) == IF pos >= s.m_length \/ pos < -s.m_length THEN s
                      ELSE LET i == IF pos >= 0 THEN pos ELSE s.m_length + pos
                           IN [s EXCEPT !.m_buffer = Copied(@, i, <<c>>)]

\* trim: what follows the first spaces is copied to the front (strcpy), then the
\* last spaces are cut off.
Trim(s) ==
    LET cs == CString(s)
        i == SelectInSeq(cs, LAMBDA c : c # Space)
        skipped == IF i = 0 THEN Len(cs) ELSE i - 1
        front == Copied(s.m_buffer, 0, Append(SubSeq(cs, skipped + 1, Len(cs)), Nul))
    IN Ended([s EXCEPT !.m_buffer = front],
             SelectLastInSubSeq(front, 1, s.m_length - skipped, LAMBDA c : c # Space))

\* The letters of a string, one after the other.
Letters(cs) == LET kept[i \in 0..Len(cs)] ==
                       IF i = 0 THEN <<>>
                       ELSE IF cs[i] = Letter THEN Append(kept[i - 1], Letter) ELSE kept[i - 1]
               IN kept[Len(cs)]
TrimAll(s) == LET kept == Letters(CString(s))
              IN Ended([s EXCEPT !.m_buffer = Copied(@, 0, kept)], Len(kept))

\* steal: the heap's array is given away, the own one is copied.
Stolen(s) == SubSeq(s.m_buffer, 1, s.m_length)
Steal(s) == IF s.m_capacity > MaxCStrBufferLen - 1 THEN Empty ELSE Ended(s, 0)

\* strstr: where a separator of one byte stands, or 0.
Find(cs, sep) == SelectInSeq(cs, LAMBDA c : c = sep)

\* cut(sep, result): what is in front of the separator goes to result, what is
\* behind it stays; without one everything goes.
CutOff(s, sep) == IF Find(CString(s), sep) = 0 THEN Ended(s, 0)
                  ELSE Set(s, SubSeq(CString(s), Find(CString(s), sep) + 1, Len(CString(s))))
CutTo(r, s, sep) == IF Find(CString(s), sep) = 0 THEN AssignString(r, s)
                    ELSE NCat(Ended(r, 0), SubSeq(CString(s), 1, Find(CString(s), sep) - 1))

\* replace: another string is put together, and assigned.
Piece(c, byte, by) == IF c = byte THEN by ELSE <<c>>
ReplaceIn(s, byte, by) ==
    LET cs == CString(s)
        dest[i \in 0..Len(cs)] ==
            IF i = 0 THEN Empty ELSE NCat(dest[i - 1], Piece(cs[i], byte, by))
    IN AssignString(s, dest[Len(cs)])

\* encode: the length, in CStrShort no more than a byte can say, and as many bytes.
Encode(s, short) ==
    LET n == IF short /\ s.m_length > ShortMax THEN ShortMax ELSE s.m_length
    IN [length |-> n, bytes |-> SubSeq(s.m_buffer, 1, n)]

\* What decode copies into the string.  CStr steps over the length that it reads;
\* CStrShort does not, so that the byte of the length comes first, and the last byte
\* of the string stays in the buffer.
Decoded(e, short) == IF short THEN SubSeq(<<LengthByte[e.length]>> \o e.bytes, 1, e.length)
                     ELSE e.bytes

-----------------------------------------------------------------------------
StringInit == str = [o \in Objects |-> Empty] /\ text = [o \in Objects |-> <<>>]

Become(o, s, t) == /\ Len(t) <= MaxText
                   /\ str' = [str EXCEPT ![o] = s] /\ text' = [text EXCEPT ![o] = t]
Become2(o, s, t, p, r, u) == /\ o # p /\ Len(t) <= MaxText /\ Len(u) <= MaxText
                             /\ str' = [str EXCEPT ![o] = s, ![p] = r]
                             /\ text' = [text EXCEPT ![o] = t, ![p] = u]

Make(o) == \/ \E cs \in Literals : Become(o, NewString(cs), cs)
           \/ \E p \in Objects \ {o} : Become(o, NewString(Stolen(str[p])), text[p])

\* What a text becomes that CStrShort encodes and decodes.
Misread(t) == LET n == Min({ShortMax, Len(t)}) IN
              [i \in 1..n |-> IF i = 1 THEN LengthByte[n] ELSE t[i - 1]]

Replaced(o) == \/ \E cs \in Literals \cup Blocks : Become(o, Set(str[o], cs), cs)
               \/ \E p \in Objects \ {o} : Become(o, AssignString(str[o], str[p]), text[p])
               \/ \E p \in Objects \ {o}, short \in BOOLEAN :
                     Become(o, Set(str[o], Decoded(Encode(str[p], short), short)),
                            IF short THEN Misread(text[p]) ELSE text[p])

Extended(o) == \/ \E cs \in Literals \cup Blocks : Become(o, NCat(str[o], cs), text[o] \o cs)
               \/ \E p \in Objects : Become(o, AppendString(str[o], str[p]), text[o] \o text[p])

Shortened(o) == \E n \in -MaxText..MaxText :
    Become(o, CutAt(str[o], n),
           IF n \notin -Len(text[o])..Len(text[o]) THEN text[o]
           ELSE SubSeq(text[o], 1, IF n < 0 THEN Len(text[o]) + n ELSE n))

Overwritten(o) == \E c \in {Letter, Space, Nul} : \E n \in 1..Len(text[o]) :
    \E pos \in {n - 1, n - 1 - Len(text[o])} :
       Become(o, SetByte(str[o], c, pos), [text[o] EXCEPT ![n] = c])

\* The pieces in a row.
WithReplaced(t, byte, by) ==
    LET joined[i \in 0..Len(t)] ==
            IF i = 0 THEN <<>> ELSE joined[i - 1] \o Piece(t[i], byte, by)
    IN joined[Len(t)]

\* These look for the zero byte, and so are for texts without one.
Plain(o) == Nul \notin ToSet(text[o])

Trimmed(o) ==
    /\ Plain(o)
    /\ \/ LET in == {i \in DOMAIN text[o] : text[o][i] # Space} IN
          Become(o, Trim(str[o]),
                 IF in = {} THEN <<>> ELSE SubSeq(text[o], Min(in), Max(in)))
       \/ Become(o, TrimAll(str[o]), Letters(text[o]))

Edited(o) == /\ Plain(o)
             /\ \E by \in Literals :
                   Become(o, ReplaceIn(str[o], Space, by), WithReplaced(text[o], Space, by))

Divided(o, p) ==
    /\ Plain(o)
    /\ LET i == Find(text[o], Space) IN
       Become2(o, CutOff(str[o], Space),
               IF i = 0 THEN <<>> ELSE SubSeq(text[o], i + 1, Len(text[o])),
               p, CutTo(str[p], str[o], Space),
               IF i = 0 THEN text[o] ELSE SubSeq(text[o], 1, i - 1))

GivenAway(o, p) == Become2(o, Steal(str[o]), <<>>, p, Set(str[p], Stolen(str[o])), text[o])

StringNext == \E o \in Objects :
    \/ Make(o) \/ Replaced(o) \/ Extended(o) \/ Shortened(o) \/ Overwritten(o)
    \/ Trimmed(o) \/ Edited(o)
    \/ \E p \in Objects : Divided(o, p) \/ GivenAway(o, p)

StringSpec == StringInit /\ [][StringNext]_stringVars
-----------------------------------------------------------------------------
\* After any sequence of operations, in its own array or in one from the heap, a
\* string has the bytes it should have and a zero behind them, knows its length,
\* and has never written outside its array.  What it should have is what was set,
\* appended, cut and so on; what CStr decodes is what was encoded, and what CStrShort
\* decodes is not: it is Misread, and from there on the string holds that.
HoldsText == \A o \in Objects :
    /\ str[o].m_length = Len(text[o])
    /\ IsPrefix(Append(text[o], Nul), str[o].m_buffer)
    /\ Len(str[o].m_buffer) = str[o].m_capacity + 1
=============================================================================
