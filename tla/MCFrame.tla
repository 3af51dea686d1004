------------------------------- MODULE MCFrame -------------------------------
(***************************************************************************)
(* Small instances of Frame: addresses and commands for two task threads. *)
(***************************************************************************)
EXTENDS Frame

CONSTANTS t1, t2

\* A task with two instances; two tasks with one each.
Two == 1..2
Together == <<t1, t1>>
Apart == <<t1, t2>>

To(type, t, i) == [msgType |-> type, task |-> t, inst |-> i]
\* In turn, by instance (also of another task), to all of a task, to all, and to
\* a task nobody registered.
Everyone == {To("single", t1, NoInst), To("single", t1, 2),
             To("multicast", t1, NoInst), To("broadcast", t1, NoInst),
             To("single", Ghost, NoInst), To("multicast", Ghost, NoInst)}
\* To the other task, to an instance of this task by the other's name, to nobody.
Across == {To("single", t2, NoInst), To("single", t2, 1), To("single", Ghost, NoInst)}
Several == {To("single", t1, NoInst), To("single", t1, 2), To("multicast", t1, NoInst),
            To("single", Ghost, NoInst), To("multicast", Ghost, NoInst)}
\* In turn, and to nobody.
Some == {To("single", t1, NoInst), To("single", Ghost, NoInst)}
Silence == {}

Cmd(type, t, i) == [type |-> type, task |-> t, inst |-> i]
\* A status of one task, a reload of all, a command that fits nobody.
Orders == {Cmd(1, t2, All), Cmd(0, All, All), Cmd(2, Ghost, 1)}

\* MaxSends.
OneEach == <<1, 1>>
TwoAndOne == <<2, 1>>
OneAndNone == <<1, 0>>
=============================================================================
