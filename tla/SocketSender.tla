----------------------------- MODULE SocketSender -----------------------------
(***************************************************************************)
(* The sending side of CSocket: sendCode writes a message to a             *)
(* non-blocking connection and keeps what the system does not take, to be  *)
(* sent before the next message.  Each system call is a step of its own,   *)
(* but for the two that readFromBuffer makes when it wraps.                *)
(***************************************************************************)
EXTENDS RingBuffer, SequencesExt

CONSTANTS Size,                \* MaxMsgLength, the size of the buffer
          MaxEmergencyLength,  \* room kept for emergency messages
          SendBufSize,         \* m_socketSendBufSize: most bytes resent at once
          FindHead,            \* m_bIsNeedFindHead
          Lengths,             \* lengths of messages
          MaxMessages          \* bound on the number of messages

ASSUME SenderAssumption ==
    /\ Size \in Nat \ {0} /\ MaxEmergencyLength \in 0..Size /\ SendBufSize \in Nat \ {0} /\ FindHead \in BOOLEAN
    /\ Lengths \subseteq 1..Size - MaxEmergencyLength /\ MaxMessages \in Nat

VARIABLES pSendMsgBuf,
          m_socketState,      \* OPEN, or CLOSE
          b_writeNeedSelect,
          calling,            \* where sendCode is, and "idle"
          code,               \* the message of that call: its number, its bytes not yet
                              \* sent, its flag
          length,             \* length[m]: that of message m
          wire,               \* bytes the connection has taken
          accepted,           \* what this connection has to send: the bytes of the
                              \* messages the application was told are sent or kept
          damage              \* what has gone wrong with the stream, or "none"

senderVars == <<pSendMsgBuf, m_socketState, b_writeNeedSelect, calling, code, length,
                wire, accepted, damage>>

Bytes(m) == [i \in 1..length[m] |-> <<m, i>>]
NoCode == [number |-> 0, rest |-> <<>>, flag |-> "normal"]

SenderInit == /\ pSendMsgBuf = EmptyRing(Size)
              /\ m_socketState = "OPEN"
              /\ b_writeNeedSelect = FALSE
              /\ calling = "idle"
              /\ code = NoCode
              /\ length = <<>>
              /\ wire = <<>>
              /\ accepted = <<>>
              /\ damage = "none"

-----------------------------------------------------------------------------
HasUnsentCode == pSendMsgBuf.m_filledLength > 0

\* sendCode: with a head to be found the message is packed into Package, whose
\* flag stays normal.
SendCode(n, flag) ==
    /\ calling = "idle" /\ m_socketState = "OPEN"
    /\ Len(length) < MaxMessages
    /\ length' = Append(length, n)
    /\ code' = [number |-> Len(length'), rest |-> [i \in 1..n |-> <<Len(length'), i>>],
                flag |-> IF FindHead THEN "normal" ELSE flag]
    /\ calling' = IF ~HasUnsentCode THEN "write"
                  ELSE IF b_writeNeedSelect THEN "select" ELSE "resend"
    /\ UNCHANGED <<pSendMsgBuf, m_socketState, b_writeNeedSelect, wire, accepted, damage>>

\* sendCode returns: 1 sent, -2 kept, or the message is refused.
Returns(result) ==
    /\ calling' = "idle"
    /\ code' = NoCode
    /\ accepted' = IF result \in {1, -2} THEN accepted \o Bytes(code.number) ELSE accepted
    /\ b_writeNeedSelect' = (b_writeNeedSelect \/ result = -2)

\* preSendProcess: select() with no waiting time.  Nothing can be written yet, or
\* the connection is broken.
PreSendProcess ==
    /\ calling = "select"
    /\ \/ calling' = "resend" /\ b_writeNeedSelect' = FALSE /\ UNCHANGED <<code, accepted>>
       \/ calling' = "backup" /\ UNCHANGED <<b_writeNeedSelect, code, accepted>>
       \/ Returns(-9)
    /\ UNCHANGED <<pSendMsgBuf, m_socketState, length, wire, damage>>

\* backupToSendBuff: whether c is put into the buffer.  The length is unsigned, so
\* that a difference below zero is a very large one.
Room(b, c) == \/ b.m_freeLength - MaxEmergencyLength < 0
              \/ Len(c.rest) <= b.m_freeLength - MaxEmergencyLength
              \/ c.flag = "emergency" /\ Len(c.rest) <= b.m_freeLength

Written(b, c) == LET n == WriteLength(b, Len(c.rest))
                 part == FirstPart(b, b.pBufTail, WriteStraight(b), n)
             IN IF b.m_freeLength = 0 THEN b
                ELSE WriteIntoBuffer(b, c.rest, Len(c.rest), part, n - part).ring

\* Another way in which the stream goes wrong; the first is remembered.
Damage(b, c) == IF damage = "none" /\ Room(b, c) /\ Len(c.rest) > b.m_freeLength
                THEN "truncated" ELSE damage

BackupToSendBuff ==
    /\ calling = "backup"
    /\ IF Room(pSendMsgBuf, code)
       THEN pSendMsgBuf' = Written(pSendMsgBuf, code) /\ Returns(-2)
       ELSE UNCHANGED pSendMsgBuf /\ Returns(-5)
    /\ damage' = Damage(pSendMsgBuf, code)
    /\ UNCHANGED <<m_socketState, length, wire>>

\* send(): some of n bytes, or none: the socket would block, or is broken.
Block == -1
Broken == -2
Results(n) == IF n = 0 THEN {0} ELSE (1..n) \cup {Block, Broken}

\* sendUnsentCode: _sendBuffToSocket is called for what is in the buffer.  Only if
\* that empties it the new message is next.  If it does not, because no more than
\* SendBufSize was asked for, the new message is backed up here and, as -2 is
\* returned, by sendMessage again.
SendUnsentCode ==
    /\ calling = "resend"
    /\ LET n == ReadLength(pSendMsgBuf, SendBufSize)
           part == FirstPart(pSendMsgBuf, pSendMsgBuf.pBufHead, ReadStraight(pSendMsgBuf), n)
       IN \E first \in Results(part) :
          \E second \in IF part < n /\ first = part THEN Results(n - part) ELSE {0} :
            LET r == ReadFromBuffer(pSendMsgBuf, SendBufSize, first, second)
                more == r.ret = n /\ r.ring.m_filledLength > 0
            IN /\ wire' = wire \o SubSeq(Content(pSendMsgBuf), 1,
                                         Max({first, 0}) + Max({second, 0}))
               /\ pSendMsgBuf' = IF more /\ Room(r.ring, code)
                                 THEN Written(r.ring, code) ELSE r.ring
               /\ damage' = IF damage # "none" THEN damage
                            ELSE IF r.moved < r.ret THEN "resent"
                            ELSE IF more /\ Room(r.ring, code) THEN "twice" ELSE "none"
               /\ \/ more /\ ~Room(r.ring, code) /\ Returns(-5)
                  \/ r.ret \in {0, Broken} /\ Returns(IF r.ret = 0 THEN 0 ELSE -9)
                  \/ /\ r.ret \notin {0, Broken} /\ (more => Room(r.ring, code))
                     /\ calling' = IF r.ret = n /\ ~more THEN "write" ELSE "backup"
                     /\ UNCHANGED <<b_writeNeedSelect, code, accepted>>
    /\ UNCHANGED <<m_socketState, length>>

\* sendMessage writes the message itself, and backs up what is left.
Write ==
    /\ calling = "write"
    /\ \E n \in Results(Len(code.rest)) :
         /\ wire' = wire \o SubSeq(code.rest, 1, n)
         /\ \/ n = Len(code.rest) /\ Returns(1)
            \/ n = Broken /\ Returns(-9)
            \/ /\ n < Len(code.rest) /\ n # Broken
               /\ code' = [code EXCEPT !.rest = SubSeq(@, Max({n, 0}) + 1, Len(@))]
               /\ calling' = "backup"
               /\ UNCHANGED <<b_writeNeedSelect, accepted>>
    /\ UNCHANGED <<pSendMsgBuf, m_socketState, length, damage>>

\* The application closes the connection, which clears the buffer; or, told that
\* the peer is gone, only says so.
CloseSocket == /\ calling = "idle" /\ m_socketState = "OPEN"
               /\ m_socketState' = "CLOSE"
               /\ \/ pSendMsgBuf' = EmptyRing(Size)
                  \/ UNCHANGED pSendMsgBuf
               /\ UNCHANGED <<b_writeNeedSelect, calling, code, length, wire, accepted, damage>>

\* What was accepted, from the beginning of a message on.
FromMessage(m) == LET start == {i \in DOMAIN accepted : accepted[i] = <<m, 1>>}
                  IN SubSeq(accepted, Min(start \cup {Len(accepted) + 1}), Len(accepted))

\* openClient, or a new accept: the buffer is as the last connection left it.
OpenSocket == /\ m_socketState = "CLOSE"
              /\ m_socketState' = "OPEN"
              /\ b_writeNeedSelect' = FALSE
              /\ wire' = <<>>
              /\ IF HasUnsentCode
                 THEN LET left == Content(pSendMsgBuf)[1] IN
                      /\ accepted' = FromMessage(left[1])
                      /\ damage' = IF damage = "none" /\ left[2] # 1 THEN "torn" ELSE damage
                 ELSE accepted' = <<>> /\ UNCHANGED damage
              /\ UNCHANGED <<pSendMsgBuf, calling, code, length>>

SenderNext == \/ \E n \in Lengths, flag \in {"normal", "emergency"} : SendCode(n, flag)
              \/ PreSendProcess \/ SendUnsentCode \/ Write \/ BackupToSendBuff
              \/ CloseSocket \/ OpenSocket

SenderSpec == SenderInit /\ [][SenderNext]_senderVars
-----------------------------------------------------------------------------
\* Between two calls of sendCode, what the connection has taken and what waits in
\* the buffer are together the messages that were accepted, whole, once each and
\* in order.
StreamIsWhole == calling = "idle" /\ m_socketState = "OPEN" =>
                    wire \o Content(pSendMsgBuf) = accepted

\* So it is, whatever the system takes of each call, until one of four things has
\* happened: a resend that wraps whose second part is refused (the first is sent
\* again), a resend limited by SendBufSize (the new message is kept twice), a
\* normal message where only the emergency ones had room (it is cut off), a
\* connection opened with part of a message in the buffer.
StreamIsWholeUntilDamaged == damage = "none" => StreamIsWhole

\* "Each time a whole package is sent": on every connection that does not begin
\* with a part of a message from the one before.
EachPackageWhole == damage # "torn" => StreamIsWhole
=============================================================================
