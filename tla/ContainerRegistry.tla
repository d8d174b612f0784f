-------------------------- MODULE ContainerRegistry --------------------------
(***************************************************************************)
(* What lmctfy promises of containers as a whole (include/lmctfy.h): a     *)
(* tree of containers in which every task is in exactly one of them, each  *)
(* created under one that exists and destroyed when it has neither tasks   *)
(* nor subcontainers, and whose tasks stop while it is paused.  Each       *)
(* change is one atomic step here; ContainerLifecycle makes it by many     *)
(* system calls of concurrent clients.                                     *)
(***************************************************************************)
CONSTANTS Name, Root, Parent, Under, Pid, HierarchicalFreezing

VARIABLES
    containers, \* the containers that exist
    in,         \* [Pid -> Name]: the container of each task
    live,       \* tasks that exist
    paused      \* containers that were paused

vars == <<containers, in, live, paused>>

Stopped(p) ==
    \E n \in paused : in[p] \in IF HierarchicalFreezing THEN Under[n] ELSE {n}

Create(n) ==
    /\ n \in Name \ containers /\ Parent[n] \in containers
    /\ containers' = containers \cup {n}
    /\ UNCHANGED <<in, live, paused>>

Destroy(n) ==
    /\ n \in containers \ {Root}
    /\ \A p \in live : in[p] # n
    /\ \A m \in containers \ {n} : Parent[m] # n
    /\ containers' = containers \ {n}
    /\ paused' = paused \ {n}
    /\ UNCHANGED <<in, live>>

(* A task starts: in the container of its parent, or of a caller of Run.   *)
Start(p, n) ==
    /\ p \in Pid \ live /\ n \in containers
    /\ \/ n = Root
       \/ \E q \in live : in[q] = n /\ ~Stopped(q)
    /\ live' = live \cup {p}
    /\ in' = [in EXCEPT ![p] = n]
    /\ UNCHANGED <<containers, paused>>

Enter(p, n) ==
    /\ p \in live /\ n \in containers
    /\ in' = [in EXCEPT ![p] = n]
    /\ UNCHANGED <<containers, live, paused>>

End(p) ==
    /\ p \in live /\ ~Stopped(p)
    /\ live' = live \ {p}
    /\ in' = [in EXCEPT ![p] = Root]
    /\ UNCHANGED <<containers, paused>>

Pause(n) ==
    /\ n \in containers \ {Root}
    /\ paused' = paused \cup {n}
    /\ UNCHANGED <<containers, in, live>>

Resume(n) ==
    /\ n \in containers \ {Root}
    /\ paused' = paused \ {n}
    /\ UNCHANGED <<containers, in, live>>

Init ==
    /\ containers = {Root}
    /\ in = [p \in Pid |-> Root]
    /\ live \subseteq Pid
    /\ paused = {}

Next ==
    \/ \E n \in Name : Create(n) \/ Destroy(n) \/ Pause(n) \/ Resume(n)
    \/ \E p \in Pid : End(p) \/ \E n \in Name : Start(p, n) \/ Enter(p, n)

Spec == Init /\ [][Next]_vars
=============================================================================
