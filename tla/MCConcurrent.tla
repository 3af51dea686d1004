------------------------------ MODULE MCConcurrent ------------------------------
(***************************************************************************)
(* What threads meet in: the queue, the readers-writer lock, the thread    *)
(* object and the condition variable.  They share no state, so one run     *)
(* checks them all: in each behaviour one of them, subject, moves, and the *)
(* others rest in their initial states, in which none of their fair        *)
(* actions is enabled.                                                     *)
(***************************************************************************)
EXTENDS Fifo, RWMutex, ThreadIf, Win32Condition

VARIABLE subject

concurrentVars == <<vars, lockVars, threadVars, condVars, subject>>

ConcurrentInit == /\ subject \in {"queue", "lock", "thread", "condition"}
                  /\ Init /\ LockInit /\ ThreadInit /\ CondInit

OthersRest == /\ UNCHANGED subject
              /\ IF subject = "queue" THEN TRUE ELSE UNCHANGED vars
              /\ IF subject = "lock" THEN TRUE ELSE UNCHANGED lockVars
              /\ IF subject = "thread" THEN TRUE ELSE UNCHANGED threadVars
              /\ IF subject = "condition" THEN TRUE ELSE UNCHANGED condVars

ConcurrentNext == \/ subject = "queue" /\ Next /\ OthersRest
                  \/ subject = "lock" /\ LockNext /\ OthersRest
                  \/ subject = "thread" /\ ThreadNext /\ OthersRest
                  \/ subject = "condition" /\ CondNext /\ OthersRest

ConcurrentSpec == /\ ConcurrentInit /\ [][ConcurrentNext]_concurrentVars
                  /\ Fairness /\ LockFairness /\ ThreadFairness /\ CondFairness
=============================================================================
