------------------------------ MODULE MsgQueue ------------------------------
(***************************************************************************)
(* What a Fifo promises its callers, with the mutex, the condition and the *)
(* size counter hidden: messages leave in the order they were added, each  *)
(* one is handed to exactly one caller, a call without a time limit comes  *)
(* back only with a message, and a call with one may also come back empty  *)
(* handed.  Module Fifo is shown to implement this specification.          *)
(***************************************************************************)
EXTENDS Sequences, SequencesExt

CONSTANTS Consumers,   \* threads that call getNext
          Messages,    \* message pointers
          NoMsg        \* the null pointer a timed call may return

VARIABLES queue,       \* messages added and not yet handed out, oldest first
          call,        \* call[c]: the kind of call c is in, "none" if in none
          ret          \* ret[c]: what c's last finished call returned

vars == <<queue, call, ret>>

Init == /\ queue = <<>>
        /\ call = [c \in Consumers |-> "none"]
        /\ ret = [c \in Consumers |-> NoMsg]

\* The queue owns a message from Put to Deliver: it cannot be added twice.
Put(m) == /\ m \notin ToSet(queue)
          /\ queue' = Append(queue, m)
          /\ UNCHANGED <<call, ret>>

Call(c, kind) == /\ call[c] = "none"
                 /\ call' = [call EXCEPT ![c] = kind]
                 /\ UNCHANGED <<queue, ret>>

Deliver(c) == /\ call[c] # "none"
              /\ queue # <<>>
              /\ ret' = [ret EXCEPT ![c] = Head(queue)]
              /\ queue' = Tail(queue)
              /\ call' = [call EXCEPT ![c] = "none"]

Expire(c) == /\ call[c] = "timed"
             /\ ret' = [ret EXCEPT ![c] = NoMsg]
             /\ call' = [call EXCEPT ![c] = "none"]
             /\ UNCHANGED queue

Drop == /\ queue' = <<>>
        /\ UNCHANGED <<call, ret>>

Next == \/ \E m \in Messages : Put(m)
        \/ \E c \in Consumers : \/ \E kind \in {"blocking", "timed"} : Call(c, kind)
                                \/ Deliver(c)
                                \/ Expire(c)
        \/ Drop

Spec == Init /\ [][Next]_vars
=============================================================================
