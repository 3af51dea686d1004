----------------------------- MODULE TimeLimitFifo -----------------------------
(***************************************************************************)
(* TimeLimitFifo: a queue that refuses messages, by their number and by    *)
(* how long the oldest has been waiting.  How its threads wait and wake is *)
(* that of Fifo; here each call is one action.                             *)
(***************************************************************************)
EXTENDS Integers, Sequences, SequencesExt, FiniteSets

CONSTANTS MaxSize,          \* maxSize, 0 for no limit
          MaxDurationSecs,  \* maxDurationSecs, 0 for no limit
          MaxClock          \* bound on the time

ASSUME LimitAssumption == MaxSize \in Nat /\ MaxDurationSecs \in Nat /\ MaxClock \in Nat

VARIABLES limited,     \* the deque, of records with usage and mTime
          count,       \* mSize
          seconds,     \* time(0)
          refused      \* usage of the message add() has just refused, or "none"

limitVars == <<limited, count, seconds, refused>>

Usages == {"enforce", "ignore", "internal"}

LimitTypeOK == /\ limited \in Seq([usage : Usages, mTime : 0..MaxClock])
               /\ count \in Nat
               /\ seconds \in 0..MaxClock
               /\ refused \in Usages \cup {"none"}

LimitInit == limited = <<>> /\ count = 0 /\ seconds = 0 /\ refused = "none"

-----------------------------------------------------------------------------
\* mUnreservedMaxSize: four fifths, rounded down.
UnreservedMaxSize == (MaxSize * 8) \div 10

\* Mutant: one message too many.
WithinReserveOffByOne == UnreservedMaxSize # 0 => count <= UnreservedMaxSize
WithinReserve == UnreservedMaxSize # 0 => count < UnreservedMaxSize

\* timeDepthInternal() < mMaxDurationSecs, asked only when there is a front.
Young == \/ count = 0
         \/ MaxDurationSecs = 0
         \/ seconds - Head(limited).mTime < MaxDurationSecs

WouldAccept(usage) == /\ MaxSize # 0 => count < MaxSize
                      /\ \/ usage = "internal"
                         \/ WithinReserve /\ (usage = "ignore" \/ Young)

AddLimited(usage) ==
    IF WouldAccept(usage)
    THEN /\ limited' = Append(limited, [usage |-> usage, mTime |-> seconds])
         /\ count' = count + 1
         /\ refused' = "none"
         /\ UNCHANGED seconds
    ELSE refused' = usage /\ UNCHANGED <<limited, count, seconds>>

NextLimited == /\ limited # <<>>
               /\ limited' = Tail(limited)
               /\ count' = count - 1
               /\ refused' = "none"
               /\ UNCHANGED seconds

ClearLimited == limited' = <<>> /\ count' = 0 /\ refused' = "none" /\ UNCHANGED seconds

Second == /\ seconds < MaxClock
          /\ seconds' = seconds + 1
          /\ refused' = "none"
          /\ UNCHANGED <<limited, count>>

LimitNext == \/ \E usage \in Usages : AddLimited(usage)
             \/ NextLimited \/ ClearLimited \/ Second

LimitSpec == LimitInit /\ [][LimitNext]_limitVars
-----------------------------------------------------------------------------
Internal == {i \in DOMAIN limited : limited[i].usage = "internal"}
External == DOMAIN limited \ Internal

\* "Internal messages use reserved queue space": whatever has been added and
\* taken before, external messages leave the reserve free, so that an internal
\* one is refused only when internal ones fill it.  (A size of 1 has no reserve:
\* four fifths of it are 0, which means no limit.)
ReserveIsForInternal ==
    UnreservedMaxSize # 0 =>
        /\ count = Len(limited)
        /\ Cardinality(External) <= UnreservedMaxSize
        /\ refused = "internal" => Cardinality(Internal) >= MaxSize - UnreservedMaxSize
=============================================================================
