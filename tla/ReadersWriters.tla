---------------------------- MODULE ReadersWriters ----------------------------
(***************************************************************************)
(* What an RWMutex promises the threads that use it: readers share the     *)
(* lock, a writer has it alone, and no further reader gets in while some   *)
(* writer is asking.  Module RWMutex is shown to implement it.             *)
(***************************************************************************)
CONSTANTS Threads

VARIABLES readers,   \* threads that hold the lock for reading
          writers,   \* threads that hold it for writing
          asking     \* threads that have asked to write and wait

vars == <<readers, writers, asking>>

Init == readers = {} /\ writers = {} /\ asking = {}

GrantRead(t) == /\ t \notin readers \cup asking
                /\ writers = {} /\ asking = {}
                /\ readers' = readers \cup {t}
                /\ UNCHANGED <<writers, asking>>

AskWrite(t) == /\ t \notin readers \cup writers \cup asking
               /\ asking' = asking \cup {t}
               /\ UNCHANGED <<readers, writers>>

GrantWrite(t) == /\ readers = {} /\ writers = {}
                 /\ writers' = {t}
                 /\ asking' = asking \ {t}
                 /\ UNCHANGED readers

Release(t) == /\ t \in readers \cup writers
              /\ readers' = readers \ {t}
              /\ writers' = writers \ {t}
              /\ UNCHANGED asking

Next == \E t \in Threads :
            GrantRead(t) \/ AskWrite(t) \/ GrantWrite(t) \/ Release(t)

Spec == Init /\ [][Next]_vars
=============================================================================
