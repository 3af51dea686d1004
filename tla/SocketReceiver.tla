---------------------------- MODULE SocketReceiver ----------------------------
(***************************************************************************)
(* The receiving side of CSocket, where messages are found by their heads: *)
(* recvCode reads what the connection has into a buffer, searches it for   *)
(* the delimiter, a zero, Ones bytes 0xff and a zero, and takes the length *)
(* and the message behind it.  The connection hands over the bytes of the  *)
(* peer's messages in pieces of any size.                                  *)
(***************************************************************************)
EXTENDS RingBuffer, SequencesExt

CONSTANTS RecvSize,    \* MaxMsgLength, the size of the buffer
          Ones,        \* 6
          CodeMax,     \* SOCKET_CODE_MAXLENGTH
          Payloads,    \* the messages sent, sequences of bytes
          Leftovers,   \* what a connection may bring before the first message
          MaxSent      \* bound on the messages of a connection

ZERO == 0
ONE == 255
COM_MSG_LENGTH == 1  \* the length is one byte here
Byte == 0..255
HeadLength == Ones + 2 + COM_MSG_LENGTH
Delimiter == [x \in 1..Ones + 2 |-> IF x \in {1, Ones + 2} THEN ZERO ELSE ONE]
HasHead(bytes) == \E i \in 0..Len(bytes) - Len(Delimiter) :
                     \A x \in 1..Len(Delimiter) : bytes[i + x] = Delimiter[x]

\* A message of no bytes is not sent: the search does not leave the state in which
\* it has found its head, and takes other bytes for the length.  What comes before the first head has none in it, and
\* none that its zero completes.
ASSUME ReceiverAssumption ==
    /\ Ones \in Nat /\ Ones > 1 /\ CodeMax \in 1..254
    /\ RecvSize \in Nat /\ RecvSize > HeadLength + CodeMax
    /\ \A p \in Payloads : p \in Seq(Byte) /\ Len(p) \in 1..CodeMax
    /\ \A bytes \in Leftovers : bytes \in Seq(Byte) /\ ~HasHead(Append(bytes, ZERO))
    /\ MaxSent \in Nat

VARIABLES pRecvMsgBuf, recvBufHasMessage,
          arrived,    \* bytes in the system's buffer
          sent, received,   \* messages, since the connection was opened
          stale       \* it was opened with bytes of the one before in the buffer

receiverVars == <<pRecvMsgBuf, recvBufHasMessage, arrived, sent, received, stale>>

ReceiverInit == /\ pRecvMsgBuf = EmptyRing(RecvSize)
                /\ recvBufHasMessage = FALSE
                /\ arrived \in Leftovers
                /\ sent = <<>> /\ received = <<>>
                /\ stale = FALSE

-----------------------------------------------------------------------------
\* pack(): the delimiter, the length, the message.
Pack(p) == Delimiter \o <<Len(p)>> \o p

PeerSends(p) == /\ Len(sent) < MaxSent
                /\ arrived' = arrived \o Pack(p)
                /\ sent' = Append(sent, p)
                /\ UNCHANGED <<pRecvMsgBuf, recvBufHasMessage, received, stale>>

-----------------------------------------------------------------------------
\* The search is a machine that reads byte after byte.  need is lengthToRead: how
\* much of a head is missing.
WaitForHead(s) == [s EXCEPT !.state = "Wait", !.need = HeadLength]

\* Mutant: a zero in the middle of the 0xff bytes is not taken for a first one.
ScanStartsOver(s, byte) ==
    CASE s.state = "Wait" /\ byte = ZERO -> [s EXCEPT !.state = "Begin", !.need = @ - 1]
      [] s.state = "Begin" /\ byte = ONE -> [s EXCEPT !.state = "Appear", !.need = @ - 1]
      [] s.state = "Begin" /\ byte \notin {ZERO, ONE} -> WaitForHead(s)
      [] s.state = "Appear" /\ byte = ONE ->
            [s EXCEPT !.need = @ - 1,
                      !.state = IF s.need - 1 = 1 + COM_MSG_LENGTH THEN "Prepare" ELSE @]
      [] s.state = "Appear" /\ byte # ONE -> WaitForHead(s)
      [] s.state = "Prepare" /\ byte = ZERO -> [s EXCEPT !.state = "Found"]
      [] s.state = "Prepare" /\ byte # ZERO -> WaitForHead(s)
      [] OTHER -> s
Scan(s, byte) ==
    CASE s.state = "Wait" /\ byte = ZERO -> [s EXCEPT !.state = "Begin", !.need = @ - 1]
      [] s.state = "Begin" /\ byte = ONE -> [s EXCEPT !.state = "Appear", !.need = @ - 1]
      [] s.state = "Begin" /\ byte \notin {ZERO, ONE} -> WaitForHead(s)
      [] s.state = "Appear" /\ byte = ZERO ->
            [s EXCEPT !.state = "Begin", !.need = HeadLength - 1]
      [] s.state = "Appear" /\ byte = ONE ->
            [s EXCEPT !.need = @ - 1,
                      !.state = IF s.need - 1 = 1 + COM_MSG_LENGTH THEN "Prepare" ELSE @]
      [] s.state = "Appear" /\ byte \notin {ZERO, ONE} -> WaitForHead(s)
      [] s.state = "Prepare" /\ byte = ZERO -> [s EXCEPT !.state = "Found"]
      [] s.state = "Prepare" /\ byte # ZERO -> WaitForHead(s)
      [] OTHER -> s

\* The delimiter has been read: the length is next.  Too long: on with the search.
\* Not all of it there: it will be looked for again, from its head.  Zero: the state
\* stays as it is, and a length is looked for one byte further on.
AtLength(s, bytes) ==
    LET n == bytes[s.message + 1]
        t == [s EXCEPT !.ret = @ + COM_MSG_LENGTH, !.left = @ - COM_MSG_LENGTH, !.need = n]
    IN IF n = 0 THEN t
       ELSE IF n > CodeMax
       THEN [t EXCEPT !.need = HeadLength, !.message = @ + COM_MSG_LENGTH]
       ELSE IF n > t.left THEN [t EXCEPT !.over = TRUE, !.ret = @ - HeadLength]
       ELSE [t EXCEPT !.over = TRUE, !.ret = @ + n,
                      !.code = SubSeq(bytes, s.message + COM_MSG_LENGTH + 1,
                                      s.message + COM_MSG_LENGTH + n)]

SearchStep(s, bytes) ==
    IF s.over THEN s
    ELSE IF s.left <= s.need THEN [s EXCEPT !.over = TRUE, !.ret = @ - (HeadLength - s.need)]
    ELSE LET t == [Scan(s, bytes[s.message + 1]) EXCEPT !.ret = @ + 1,
                                                        !.message = @ + 1, !.left = @ - 1]
         IN IF t.state = "Found" THEN AtLength(t, bytes) ELSE t

\* _readFromBuff: the message found, if any, and how many bytes to drop with it.
Searching(bytes) == [state |-> "Wait", need |-> HeadLength, ret |-> 0, message |-> 0,
                     left |-> Len(bytes), over |-> FALSE, code |-> <<>>]
ReadFromBuff(bytes) ==
    LET search[i \in 0..Len(bytes) + 1] ==
            IF i = 0 THEN Searching(bytes) ELSE SearchStep(search[i - 1], bytes)
    IN search[Len(bytes) + 1]

\* Mutant: what is left in the ring stays where it is.
DeliverInPlace(b) ==
    LET s == ReadFromBuff(Content(b))
        r == IF b.m_filledLength = 0 THEN [ret |-> 0, ring |-> b]
             ELSE ReadFromBuffer(b, b.m_filledLength, s.ret, 0)
        got == r.ret > 0 /\ s.code # <<>>
    IN /\ received' = IF got THEN Append(received, s.code) ELSE received
       /\ recvBufHasMessage' = (got /\ r.ring.m_filledLength > 0)
       /\ pRecvMsgBuf' = r.ring
\* The second half of recvCodeByFindHead.
Deliver(b) ==
    LET s == ReadFromBuff(Content(b))
        r == IF b.m_filledLength = 0 THEN [ret |-> 0, ring |-> b]
             ELSE ReadFromBuffer(b, b.m_filledLength, s.ret, 0)
        got == r.ret > 0 /\ s.code # <<>>
    IN /\ received' = IF got THEN Append(received, s.code) ELSE received
       /\ recvBufHasMessage' = (got /\ r.ring.m_filledLength > 0)
       /\ pRecvMsgBuf' = IF got THEN r.ring ELSE Rearrange(r.ring)

\* recvCode: with nothing known to be in the buffer it reads the connection.  (If
\* there is nothing either, or if the connection is at its end, nothing changes.)
RecvBuffered == /\ recvBufHasMessage
                /\ Deliver(pRecvMsgBuf)
                /\ UNCHANGED <<arrived, sent, stale>>

RecvFromSocket ==
    /\ ~recvBufHasMessage
    /\ LET n == WriteLength(pRecvMsgBuf, RecvSize)
           straight == WriteStraight(pRecvMsgBuf)
           part == FirstPart(pRecvMsgBuf, pRecvMsgBuf.pBufTail, straight, n)
       IN \E first \in 1..Min({part, Len(arrived)}) :
          \E second \in IF first = part /\ part < n
                        THEN 0..Min({n - part, Len(arrived) - first}) ELSE {0} :
             /\ Deliver(WriteIntoBuffer(pRecvMsgBuf, arrived, RecvSize, first, second).ring)
             /\ arrived' = SubSeq(arrived, first + second + 1, Len(arrived))
    /\ UNCHANGED <<sent, stale>>

\* Another connection: the last was closed, which clears the buffer, or declared
\* closed, which does not.
Reopen == /\ sent # <<>>
          /\ pRecvMsgBuf' \in {pRecvMsgBuf, EmptyRing(RecvSize)}
          /\ stale' = (pRecvMsgBuf'.m_filledLength > 0)
          /\ arrived' \in Leftovers
          /\ sent' = <<>> /\ received' = <<>>
          /\ UNCHANGED recvBufHasMessage

ReceiverNext == \/ \E p \in Payloads : PeerSends(p)
                \/ RecvBuffered \/ RecvFromSocket \/ Reopen

ReceiverSpec == ReceiverInit /\ [][ReceiverNext]_receiverVars
-----------------------------------------------------------------------------
\* Into whatever pieces the stream is cut, also within a head or a length, and
\* whatever came before the first head: messages are received as they were sent,
\* and when all bytes have been read none is withheld.
ReceivedAsSent == ~stale => /\ IsPrefix(received, sent)
                            /\ arrived = <<>> /\ ~recvBufHasMessage => received = sent

\* recvCode never reads the connection into a ring that would wrap: there a second
\* read that fails would lose the bytes of the first, and the search, which takes
\* the buffer for one piece of memory, would run past its end.
NeverWraps == /\ pRecvMsgBuf.pBufHead + pRecvMsgBuf.m_filledLength <= RecvSize
              /\ ~recvBufHasMessage => pRecvMsgBuf.pBufHead = 0
=============================================================================
