------------------------------ MODULE MCSequential ------------------------------
(***************************************************************************)
(* What one thread uses at a time: the selector, the limited queue, the    *)
(* containers, the two sides of a socket, the client of a Redis cluster,   *)
(* and the string.  They share no state, so one run checks them all: in    *)
(* each behaviour one of them, subject, moves, and the others rest in      *)
(* their initial states.                                                   *)
(***************************************************************************)
EXTENDS TaskSelector, TimeLimitFifo, LinkedList, HashTable, ExpireBuffer,
        SocketSender, SocketReceiver, RedisCluster, CStr, TLC

VARIABLE subject

\* A byte that is none of a head's, and one message that looks like half a head.
TwoPayloads == {<<1>>, <<0, 255>>}
\* Nothing; the end of a message that was cut off.
TwoLeftovers == {<<>>, <<1, 0, 255>>}
\* C strings, and bytes with a zero among them.
SomeLiterals == {<<>>, <<Letter>>, <<Space, Letter>>}
SomeBlocks == {<<Nul, Space>>}
\* Among the lengths that a byte can say, 32 is a space and 48 a digit.
SomeLengthBytes == 0 :> Nul @@ 1 :> Letter @@ 2 :> Space

\* Instances are not told apart by the code (their ids are hash keys).
Symmetry == Permutations(Insts)

sequentialVars == <<vars, limitVars, listVars, hashVars, expireVars, senderVars,
                    receiverVars, clusterVars, stringVars, subject>>

SequentialInit ==
    /\ subject \in {"selector", "limited", "list", "hash", "expire",
                    "sender", "receiver", "cluster", "string"}
    /\ Init /\ LimitInit /\ ListInit /\ HashInit /\ ExpireInit
    /\ SenderInit /\ ReceiverInit /\ ClusterInit /\ StringInit
    /\ subject # "expire" => policy = [limit |-> 0, destroyOld |-> FALSE]
    /\ subject # "receiver" => arrived = <<>>

OthersRest ==
    /\ UNCHANGED subject
    /\ IF subject = "selector" THEN TRUE ELSE UNCHANGED vars
    /\ IF subject = "limited" THEN TRUE ELSE UNCHANGED limitVars
    /\ IF subject = "list" THEN TRUE ELSE UNCHANGED listVars
    /\ IF subject = "hash" THEN TRUE ELSE UNCHANGED hashVars
    /\ IF subject = "expire" THEN TRUE ELSE UNCHANGED expireVars
    /\ IF subject = "sender" THEN TRUE ELSE UNCHANGED senderVars
    /\ IF subject = "receiver" THEN TRUE ELSE UNCHANGED receiverVars
    /\ IF subject = "cluster" THEN TRUE ELSE UNCHANGED clusterVars
    /\ IF subject = "string" THEN TRUE ELSE UNCHANGED stringVars

SequentialNext ==
    \/ subject = "selector" /\ Next /\ OthersRest
    \/ subject = "limited" /\ LimitNext /\ OthersRest
    \/ subject = "list" /\ ListNext /\ OthersRest
    \/ subject = "hash" /\ HashNext /\ OthersRest
    \/ subject = "expire" /\ ExpireNext /\ OthersRest
    \/ subject = "sender" /\ SenderNext /\ OthersRest
    \/ subject = "receiver" /\ ReceiverNext /\ OthersRest
    \/ subject = "cluster" /\ ClusterNext /\ OthersRest
    \/ subject = "string" /\ StringNext /\ OthersRest

SequentialSpec == SequentialInit /\ [][SequentialNext]_sequentialVars
=============================================================================
