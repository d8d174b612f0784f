----------------------------- MODULE CgroupTrees -----------------------------
(***************************************************************************)
(* The state lmctfy keeps in the kernel: the cgroup directories of every   *)
(* hierarchy and the tasks in them, as lmctfy's controllers                *)
(* (lmctfy/controllers/cgroup_controller.cc, cgroup_factory.cc,            *)
(* freezer_controller.cc) read and change it.                              *)
(*                                                                         *)
(* Tree 0 tracks the tasks: the job hierarchy when it is mounted, else the *)
(* freezer.  A container exists iff it has a directory there.  Trees       *)
(* 1..NumTrees belong to the resources, tree k to resource ResOf[k]; a     *)
(* container that does not isolate a resource has no directory in that     *)
(* resource's trees and shares its nearest ancestor's.                     *)
(***************************************************************************)
EXTENDS Integers

CONSTANTS
    Name,     \* container names
    Root,     \* the container "/"
    Parent,   \* [Name -> Name], file::Dirname
    Under,    \* [Name -> SUBSET Name], a container and all below it
    Order,    \* [Name -> Nat], the order of the names as strings
    NumTrees, \* number of resource hierarchies
    ResOf,    \* [1..NumTrees -> Nat], the resource of each hierarchy
    Pid,      \* task ids
    HierarchicalFreezing \* the kernel freezes subcontainers too

Tree     == 0..NumTrees
ResTree  == 1..NumTrees
Resource == {ResOf[k] : k \in ResTree}

(* Under is the subtree relation of Parent: to a container below n one     *)
(* goes through a child of n.  A name sorts after all its ancestors.       *)
ASSUME NameAssumption ==
    /\ Root \in Name
    /\ Parent \in [Name -> Name]
    /\ Under \in [Name -> SUBSET Name]
    /\ Under[Root] = Name
    /\ \A n \in Name : n \in Under[n] /\ n \in Under[Parent[n]]
    /\ \A n \in Name : \A m \in Under[n] : Under[m] \subseteq Under[n]
    /\ \A n \in Name : \A m \in Under[n] \ {n} :
          /\ Parent[m] \in Under[n] /\ Parent[m] # m
          /\ \E x \in Name \ {n} : Parent[x] = n /\ m \in Under[x]
    /\ Order \in [Name -> Nat]
    /\ \A n \in Name : \A m \in Under[n] \ {n} : Order[n] < Order[m]

(* Create and Destroy go through the resources in the order of their type. *)
ASSUME TreeAssumption ==
    /\ NumTrees \in Nat
    /\ ResOf \in [ResTree -> Nat]
    /\ \A j, k \in ResTree : j < k => ResOf[j] <= ResOf[k]
    /\ Pid # {}
    /\ HierarchicalFreezing \in BOOLEAN

VARIABLES
    dirs,   \* [Tree -> SUBSET Name]: the cgroup directories that exist
    at,     \* [Tree -> [Pid -> Name]]: the cgroup each task is in
    live,   \* tasks that exist
    doomed, \* live tasks with SIGKILL pending
    frozen  \* containers whose freezer.state is FROZEN

kernel == <<dirs, at, live, doomed, frozen>>

KernelTypeOK ==
    /\ dirs \in [Tree -> SUBSET Name]
    /\ at \in [Tree -> [Pid -> Name]]
    /\ live \subseteq Pid
    /\ doomed \subseteq live
    /\ frozen \subseteq Name

KernelInit ==
    /\ dirs = [k \in Tree |-> {Root}]
    /\ at = [k \in Tree |-> [p \in Pid |-> Root]]
    /\ live \in SUBSET Pid
    /\ doomed = {}
    /\ frozen = {}

-----------------------------------------------------------------------------
(* Directories.                                                            *)

HasTasks(k, n) == \E p \in live : at[k][p] = n
HasChild(k, n) == \E m \in dirs[k] \ {n} : Parent[m] = n

(* CgroupFactory::Create refuses a directory that exists and makes only    *)
(* the last component of the path.                                         *)
NoParent(k, n) == n \notin dirs[k] \* mutant: the parent is not looked for
MkDirOk(k, n) == n \notin dirs[k] /\ Parent[n] \in dirs[k]
MkDir(k, n)   == dirs' = [dirs EXCEPT ![k] = @ \cup {n}]

(* rmdir of a cgroup fails with ENOENT, EBUSY or ENOTEMPTY, and always on  *)
(* the root of a hierarchy.                                                *)
RmDirOk(k, n) ==
    /\ n \in dirs[k] \ {Root}
    /\ ~HasTasks(k, n)
    /\ ~HasChild(k, n)
RmDir(k, n) ==
    /\ dirs' = [dirs EXCEPT ![k] = @ \ {n}]
    /\ frozen' = IF k = 0 THEN frozen \ {n} ELSE frozen

(* A resource handler is found for a container only when all of its trees  *)
(* have the container.                                                     *)
Isolates(n, r) == \A k \in ResTree : ResOf[k] = r => n \in dirs[k]

(* GetHandler climbs from n to the first ancestor that has the resource.   *)
IsHome(k, n, m) ==
    /\ n \in Under[m]
    /\ Isolates(m, ResOf[k])
    /\ \A l \in Name :
          n \in Under[l] /\ Isolates(l, ResOf[k]) => m \in Under[l]

-----------------------------------------------------------------------------
(* Tasks.                                                                  *)

FreezeScope(n) == IF HierarchicalFreezing THEN Under[n] ELSE {n}
IsFrozen(p)    == \E n \in frozen : at[0][p] \in FreezeScope(n)

Tasks(n) == {p \in live : at[0][p] = n}

(* A child starts in the cgroups of its parent.                            *)
Fork(p, q) ==
    /\ p \in live \ doomed
    /\ ~IsFrozen(p)
    /\ q \in Pid \ live
    /\ live' = live \cup {q}
    /\ at' = [k \in Tree |-> [at[k] EXCEPT ![q] = at[k][p]]]
    /\ UNCHANGED <<dirs, doomed, frozen>>

Gone(p) ==
    /\ live' = live \ {p}
    /\ doomed' = doomed \ {p}
    /\ at' = [k \in Tree |-> [at[k] EXCEPT ![p] = Root]]

(* A task exits of its own accord or because SIGKILL reached it; a frozen  *)
(* one does neither.                                                       *)
Exit(p) ==
    /\ p \in live
    /\ ~IsFrozen(p)
    /\ Gone(p)
    /\ UNCHANGED <<dirs, frozen>>
=============================================================================
