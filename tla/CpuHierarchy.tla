---------------------------- MODULE CpuHierarchy ----------------------------
(***************************************************************************)
(* Where a container's cpu, cpuacct and cpuset directories are             *)
(* (lmctfy/resources/cpu_resource_handler.cc).  cpu and cpuacct keep       *)
(* latency-sensitive containers at "/" and batch ones at "/batch", cpuset  *)
(* is flat; nothing records which directory a container was given, and     *)
(* every later operation searches for it again.                            *)
(*                                                                         *)
(* A path is the sequence of its components, "/" the empty one.  A call is *)
(* one step; ContainerLifecycle has the interleaving of calls.             *)
(***************************************************************************)
EXTENDS Integers, Sequences, SequencesExt, FiniteSetsExt

CONSTANTS
    Container, \* the containers that are created and destroyed
    HasCpuset, \* the cpuset hierarchy is mounted
    MayFail    \* mkdir, rmdir and parameter writes may fail

Root            == <<>>
kBatchSubsystem == <<"batch">>

ASSUME ContainerAssumption ==
    /\ \A n \in Container : n # Root /\ Head(n) # "batch"
    /\ HasCpuset \in BOOLEAN
    /\ MayFail \in BOOLEAN

(* PackControllers: the controllers of a handler, in order.                *)
Trees == <<"cpu", "cpuacct">> \o IF HasCpuset THEN <<"cpuset">> ELSE <<>>
Tree  == {Trees[i] : i \in DOMAIN Trees}

VARIABLES
    dirs,   \* tree -> directory -> the container whose Create made it
    home,   \* existing container -> the cpu directory its Create made, or Root
    damaged \* containers of which a Create or Destroy has failed midway

vars == <<dirs, home, damaged>>

Exists(t, p) == p \in DOMAIN dirs[t]
Dirname(n)   == Front(n)
Flat(n)      == IF n = Root THEN Root ELSE <<Last(n)>>
Under(n, p)  == IsPrefix(n, p)

With(f, p, n)  == [q \in DOMAIN f \cup {p} |-> IF q = p THEN n ELSE f[q]]
Without(f, gone) == [q \in DOMAIN f \ gone |-> f[q]]

-----------------------------------------------------------------------------
(* GetCpuHierarchyPath: the name itself, then without its first component, *)
(* each at "/" before "/batch".                                            *)
SkipsBatch(n) == \* mutant: /batch/alloc/task is never looked for
    <<n>> \o
    IF Len(n) > 1 THEN <<Tail(n), kBatchSubsystem \o Tail(n)>>
    ELSE <<kBatchSubsystem \o n>>

Candidates(n) ==
    <<n, kBatchSubsystem \o n>> \o
    IF Len(n) > 1 THEN <<Tail(n), kBatchSubsystem \o Tail(n)>> ELSE <<>>

Found(n) == {i \in DOMAIN Candidates(n) : Exists("cpu", Candidates(n)[i])}
GetCpuHierarchyPath(n) == Candidates(n)[Min(Found(n))]

(* GetResourceHandler: the directory of each tree, all of which must exist.*)
PathIn(t, n) == IF t = "cpuset" THEN Flat(n) ELSE GetCpuHierarchyPath(n)

HasHandler(n) == Found(n) # {} /\ \A t \in Tree : Exists(t, PathIn(t, n))

(* GetHandler climbs until the factory finds a handler, at last at "/".    *)
ParentOnly(n) == IF HasHandler(n) THEN n ELSE Root \* mutant
HandlerOf(n) ==
    SubSeq(n, 1, Max({i \in 0..Len(n) : i = 0 \/ HasHandler(SubSeq(n, 1, i))}))

-----------------------------------------------------------------------------
(* InitMachine makes /batch in cpu and cpuacct unless it is there.         *)
InitMachine ==
    /\ dirs' = [t \in Tree |->
          IF t = "cpuset" \/ Exists(t, kBatchSubsystem) THEN dirs[t]
          ELSE With(dirs[t], kBatchSubsystem, Root)]
    /\ UNCHANGED <<home, damaged>>

(* CreateResourceHandler: a top-level container goes to "/" or "/batch", a *)
(* subcontainer below the directory found for its parent.                  *)
CreatePath(n, latency) ==
    IF Len(n) > 1 THEN GetCpuHierarchyPath(Dirname(n)) \o Flat(n)
    ELSE IF latency = "batch" THEN kBatchSubsystem \o n
    ELSE n

CreateIn(t, n, latency) ==
    IF t = "cpuset" THEN Flat(n) ELSE CreatePath(n, latency)

MkDirOk(t, p) == ~Exists(t, p) /\ Exists(t, Dirname(p))

(* How many of the trees, in order, mkdir succeeds in.                     *)
Possible(n, latency) ==
    IF Len(n) > 1 /\ Found(Dirname(n)) = {} THEN 0
    ELSE Max({k \in 0..Len(Trees) :
                \A i \in 1..k : MkDirOk(Trees[i], CreateIn(Trees[i], n, latency))})

Made(n, latency, k) ==
    [t \in Tree |->
        IF \E i \in 1..k : Trees[i] = t
        THEN With(dirs[t], CreateIn(t, n, latency), n) ELSE dirs[t]]

MayCreate(n) == n \notin DOMAIN home /\ Dirname(n) \in DOMAIN home

(* Create of a container that does not isolate cpu.                        *)
CreateShared(n) ==
    /\ MayCreate(n)
    /\ home' = With(home, n, Root)
    /\ UNCHANGED <<dirs, damaged>>

CreateIsolated(n, latency) ==
    /\ MayCreate(n)
    /\ Possible(n, latency) = Len(Trees)
    /\ dirs' = Made(n, latency, Len(Trees))
    /\ home' = With(home, n, CreatePath(n, latency))
    /\ UNCHANGED damaged

(* A Create that fails in the cpu handler's factory: the container is      *)
(* rolled back, the directories made for the handler stay.                 *)
CreateFails(n, latency) ==
    /\ MayCreate(n)
    /\ \E k \in 1..Possible(n, latency) :
          /\ MayFail \/ (k = Possible(n, latency) /\ k < Len(Trees))
          /\ dirs' = Made(n, latency, k)
    /\ damaged' = damaged \cup {n}
    /\ UNCHANGED home

-----------------------------------------------------------------------------
(* ContainerImpl::Destroy of a container without subcontainers: a handler  *)
(* that was found under the container's own name is destroyed, tree by     *)
(* tree with all that is below.                                            *)
Leaf(n) == n \in DOMAIN home \ {Root} /\ \A m \in DOMAIN home : Dirname(m) = n => m = n

InTree(t, n) == {p \in DOMAIN dirs[t] : Under(PathIn(t, n), p)}

SkipsCpuset(n) == \* mutant: the flat hierarchy is forgotten
    [t \in Tree |-> IF HasHandler(n) /\ t # "cpuset"
                    THEN Without(dirs[t], InTree(t, n)) ELSE dirs[t]]
AnyHandler(n) == \* mutant: container_name() is not compared
    [t \in Tree |-> Without(dirs[t], InTree(t, HandlerOf(n)) \ {Root})]
Removed(n) ==
    [t \in Tree |-> IF HandlerOf(n) = n THEN Without(dirs[t], InTree(t, n))
                    ELSE dirs[t]]

Destroy(n) ==
    /\ Leaf(n)
    /\ dirs' = Removed(n)
    /\ home' = Without(home, {n})
    /\ UNCHANGED damaged

(* rmdir fails in the k-th tree, after some of what is below has gone.     *)
DestroyFails(n) ==
    /\ Leaf(n)
    /\ HandlerOf(n) = n
    /\ MayFail
    /\ \E k \in 1..Len(Trees) :
       \E gone \in SUBSET (InTree(Trees[k], n) \ {PathIn(Trees[k], n)}) :
          /\ \A p \in gone : \A q \in InTree(Trees[k], n) : Under(p, q) => q \in gone
          /\ dirs' = [t \in Tree |->
                IF \E i \in 1..(k - 1) : Trees[i] = t THEN Without(dirs[t], InTree(t, n))
                ELSE IF t = Trees[k] THEN Without(dirs[t], gone)
                ELSE dirs[t]]
          /\ k > 1 \/ gone # {}
    /\ damaged' = damaged \cup {n}
    /\ UNCHANGED home

-----------------------------------------------------------------------------
Init ==
    /\ dirs = [t \in Tree |-> [p \in {Root} |-> Root]]
    /\ home = [n \in {Root} |-> Root]
    /\ damaged = {}

Latency == {"priority", "batch"}

Next ==
    \/ InitMachine
    \/ \E n \in Container :
          \/ CreateShared(n)
          \/ \E l \in Latency : CreateIsolated(n, l) \/ CreateFails(n, l)
          \/ Destroy(n)
          \/ DestroyFails(n)

Spec == Init /\ [][Next]_vars

-----------------------------------------------------------------------------
(* A container that was created with a cpu specification is found again:   *)
(* the search leads to the directory its own Create made and not to one of *)
(* another container, whatever was created and destroyed, or failed to be, *)
(* since.                                                                  *)
FindsOwnDirectory ==
    \A n \in DOMAIN home \ damaged :
        home[n] # Root => HandlerOf(n) = n /\ GetCpuHierarchyPath(n) = home[n]

(* include/lmctfy.h: "All those resources not specified will share their   *)
(* parent's limits": the handler found for such a container is the one     *)
(* found for its parent.                                                   *)
UnspecifiedSharesParent ==
    \A n \in DOMAIN home \ (damaged \cup {Root}) :
        home[n] = Root => HandlerOf(n) = HandlerOf(Dirname(n))

(* "Only destroy the resources attached to this container": what Destroy   *)
(* removes, also when it fails midway or searches among leftovers of       *)
(* failed calls, was made by the Create of the container or of one that    *)
(* was below it, never by one of an ancestor or a sibling.                 *)
RemovesOnlyOwnCpu ==
    [][\A n \in Container :
          Destroy(n) \/ DestroyFails(n) =>
             \A t \in Tree : \A p \in DOMAIN dirs[t] \ DOMAIN dirs'[t] :
                Under(n, dirs[t][p])]_vars

(* A Destroy that returns OK has removed every directory of the container, *)
(* in the flat hierarchy too, so that a container of the same name can be  *)
(* created with any latency again.                                         *)
DestroyLeavesNoCpu ==
    [][\A n \in DOMAIN home \ (DOMAIN home' \cup damaged) :
          \A t \in Tree : \A p \in DOMAIN dirs'[t] : dirs'[t][p] # n]_vars
=============================================================================
