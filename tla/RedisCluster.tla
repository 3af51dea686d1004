----------------------------- MODULE RedisCluster -----------------------------
(***************************************************************************)
(* CDBRedisCluster: a client that keeps one connection to each node of a   *)
(* cluster it has needed so far, and the rows of the last answer.  It runs *)
(* in one thread; what the servers do, and with it every result of         *)
(* hiredis, is nondeterministic.                                           *)
(*                                                                         *)
(* slots_, the table of which node has which key, is left out: it is       *)
(* written, from "cluster slots" and from redirections, but never read,    *)
(* since try_random_node is never false.                                   *)
(***************************************************************************)
EXTENDS Integers, Sequences, SequencesExt, FiniteSets

CONSTANTS Nodes,       \* addresses; a host is known by its pointer, so none comes twice
          Contexts,    \* redisContext, which malloc may hand out again
          NoContext,
          MaxElements  \* bound on the length of an array in an answer

ASSUME ClusterAssumption == /\ IsFiniteSet(Nodes) /\ NoContext \notin Contexts
                            /\ MaxElements \in Nat

VARIABLES startup_nodes_,   \* the set, as the sequence an iterator visits
          connections_,     \* partial function from nodes to contexts
          load_slots_asap_,
          m_pSelectResult,  \* rows: the length of the list; rowNum: what it is said to be
          allocated,        \* contexts that are allocated
          context, node,    \* c and where it leads to, while a command uses them
          step,             \* "idle"; "loading" in connDB, "reloading" in execSQL1;
                            \* "choosing" a node; "sending" the command
          next, left,       \* position in startup_nodes_, and how many to try
          unreachable       \* nodes that this command could not connect to

links == <<connections_, allocated, context, node>>
search == <<next, left, unreachable>>
clusterVars == <<startup_nodes_, load_slots_asap_, m_pSelectResult, links, step, search>>

ClusterInit ==
    /\ startup_nodes_ = <<>> /\ load_slots_asap_ = FALSE
    /\ m_pSelectResult = [rows |-> 0, rowNum |-> 0]
    /\ connections_ = <<>> /\ allocated = {}
    /\ context = NoContext /\ node = CHOOSE n \in Nodes : TRUE
    /\ step = "idle" /\ next = 1 /\ left = 0 /\ unreachable = {}

-----------------------------------------------------------------------------
\* redisConnect, when it gets through.
Connects(c) == c \notin allocated /\ allocated' = allocated \cup {c} /\ context' = c

\* redisFree of the context in use.
Free == allocated' = allocated \ {context} /\ context' = NoContext

\* get_random_from_startup begins anywhere (tv_usec).
Choose == /\ step' = "choosing"
          /\ next' \in 1..Max({1, Len(startup_nodes_)})
          /\ left' = Len(startup_nodes_)

\* connDB: parse_startup makes new addresses, which are those of no connection,
\* even if the text is the same.
ConnDB == /\ step = "idle"
          /\ \E nodes \in SUBSET (Nodes \ DOMAIN connections_) :
                startup_nodes_' \in SetToSeqs(nodes)
          /\ step' = IF load_slots_asap_ THEN "loading" ELSE "idle"
          /\ next' = 1 /\ left' = Len(startup_nodes_')
          /\ UNCHANGED <<load_slots_asap_, m_pSelectResult, links, unreachable>>

\* execSQL1 and execSQL2: the slots are loaded again if there was a redirection.
ExecSQL == /\ step = "idle"
           /\ load_slots_asap_' = FALSE
           /\ IF load_slots_asap_
              THEN step' = "reloading" /\ next' = 1 /\ left' = Len(startup_nodes_)
              ELSE Choose
           /\ unreachable' = {}
           /\ UNCHANGED <<startup_nodes_, m_pSelectResult, links>>

\* load_slots_cache: the nodes in order, each by a connection of its own, until one
\* answers or none is left.
Loading == step \in {"loading", "reloading"}
Loaded == IF step = "loading" THEN step' = "idle" /\ UNCHANGED <<next, left>> ELSE Choose

LoadConnect == /\ Loading /\ context = NoContext /\ left > 0
               /\ \/ \E c \in Contexts : Connects(c) /\ UNCHANGED left
                  \/ left' = left - 1 /\ UNCHANGED <<allocated, context>>
               /\ UNCHANGED <<startup_nodes_, load_slots_asap_, m_pSelectResult,
                              connections_, node, step, next, unreachable>>

\* Lost, an error, or the slots.
LoadReply == /\ Loading /\ context # NoContext
             /\ Free
             /\ \/ left' = left - 1 /\ UNCHANGED <<step, next>>
                \/ Loaded
             /\ UNCHANGED <<startup_nodes_, load_slots_asap_, m_pSelectResult,
                            connections_, node, unreachable>>

LoadFails == /\ Loading /\ context = NoContext /\ left = 0
             /\ Loaded
             /\ UNCHANGED <<startup_nodes_, load_slots_asap_, m_pSelectResult, links, unreachable>>

-----------------------------------------------------------------------------
\* get_random_from_startup, one turn of its loop: the node has a connection, gets
\* one, or is passed over.
UseConnection ==
    /\ step = "choosing" /\ left > 0
    /\ startup_nodes_[next] \in DOMAIN connections_
    /\ node' = startup_nodes_[next] /\ context' = connections_[node']
    /\ step' = "sending"
    /\ UNCHANGED <<startup_nodes_, load_slots_asap_, m_pSelectResult,
                   connections_, allocated, search>>

NewConnection ==
    /\ step = "choosing" /\ left > 0
    /\ startup_nodes_[next] \notin DOMAIN connections_
    /\ node' = startup_nodes_[next]
    /\ \E c \in Contexts :
          /\ Connects(c)
          /\ connections_' = [n \in DOMAIN connections_ \cup {node'} |->
                                 IF n = node' THEN c ELSE connections_[n]]
    /\ step' = "sending"
    /\ UNCHANGED <<startup_nodes_, load_slots_asap_, m_pSelectResult, search>>

\* Mutant: past the last node the search does not begin again with the first.
FollowingAtEnd(i) == IF i = Len(startup_nodes_) THEN i ELSE i + 1
Following(i) == IF i = Len(startup_nodes_) THEN 1 ELSE i + 1

PassOver ==
    /\ step = "choosing" /\ left > 0
    /\ startup_nodes_[next] \notin DOMAIN connections_
    /\ unreachable' = unreachable \cup {startup_nodes_[next]}
    /\ next' = Following(next) /\ left' = left - 1
    /\ UNCHANGED <<startup_nodes_, load_slots_asap_, m_pSelectResult, links, step>>

\* No node: execSQL1 returns NULL, which is 0.
Refuse == /\ step = "choosing" /\ left = 0
          /\ step' = "idle"
          /\ UNCHANGED <<startup_nodes_, load_slots_asap_, m_pSelectResult, links, search>>

-----------------------------------------------------------------------------
\* Mutant: the connection is freed and stays in the table.
DropFreedOnly == UNCHANGED connections_
DropConnection == connections_' = [n \in DOMAIN connections_ \ {node} |-> connections_[n]]

\* No answer came: the connection is given up.  What execSQL1 returns is not set.
Lost == /\ step = "sending"
        /\ Free /\ DropConnection
        /\ step' = "idle"
        /\ UNCHANGED <<startup_nodes_, load_slots_asap_, m_pSelectResult, node, search>>

\* The answer is an error that begins with MOVED.  The command is not sent again.
Redirected == /\ step = "sending"
         /\ load_slots_asap_' = TRUE
         /\ step' = "idle" /\ context' = NoContext
         /\ UNCHANGED <<startup_nodes_, m_pSelectResult, connections_, allocated, node, search>>

FreeResult == [rows |-> 0, rowNum |-> 0]

\* analystsResult: a string or a number is a row; an array has one for each
\* element, and none count if all are nil; a status and nil have none; an error
\* leaves the result as freeResult made it.
Answers == [kind : {"value", "status", "nil", "error"}]
               \cup [kind : {"array"}, elements : 0..MaxElements, allNil : BOOLEAN]
AnalystsResult(a) ==
    CASE a.kind = "value" -> [rows |-> 1, rowNum |-> 1]
      [] a.kind = "array" -> [rows |-> a.elements,
                              rowNum |-> IF a.allNil THEN 0 ELSE a.elements]
      [] OTHER            -> FreeResult

Answered == /\ step = "sending"
            /\ m_pSelectResult' \in {AnalystsResult(a) : a \in Answers}
            /\ step' = "idle" /\ context' = NoContext
            /\ UNCHANGED <<startup_nodes_, load_slots_asap_, connections_, allocated,
                           node, search>>

ClusterNext == \/ ConnDB \/ ExecSQL
               \/ LoadConnect \/ LoadReply \/ LoadFails
               \/ UseConnection \/ NewConnection \/ PassOver \/ Refuse
               \/ Lost \/ Redirected \/ Answered

ClusterSpec == ClusterInit /\ [][ClusterNext]_clusterVars
-----------------------------------------------------------------------------
ClusterTypeOK ==
    /\ startup_nodes_ \in Seq(Nodes)
    /\ DOMAIN connections_ \subseteq Nodes
    /\ allocated \subseteq Contexts
    /\ context \in Contexts \cup {NoContext}
    /\ step \in {"idle", "loading", "reloading", "choosing", "sending"}
    /\ m_pSelectResult \in [rows : 0..MaxElements + 1, rowNum : 0..MaxElements + 1]

\* No pointer dangles and no context leaks, whatever the servers do and however
\* often they are connected to: the contexts that are allocated are those of the
\* connections, each of one node, and the one that loads the slots; a command is
\* sent on a connection of the table; and whoever walks the result as far as
\* getRowCount() says stays within its rows.
NothingDangles ==
    /\ \A n, m \in DOMAIN connections_ : connections_[n] = connections_[m] => n = m
    /\ allocated = {connections_[n] : n \in DOMAIN connections_}
                       \cup (IF Loading THEN {context} \ {NoContext} ELSE {})
    /\ step = "sending" => node \in DOMAIN connections_ /\ context = connections_[node]
    /\ m_pSelectResult.rowNum <= m_pSelectResult.rows

\* A command is refused only when it has been tried in vain to connect to every
\* node, wherever the search began; one that has a connection is always used.
RefusedAfterTryingAll == step = "choosing" /\ left = 0 => unreachable = ToSet(startup_nodes_)
=============================================================================
