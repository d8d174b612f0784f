---------------------------- MODULE CgroupFactory ----------------------------
(***************************************************************************)
(* Mounting and detecting the cgroup hierarchies                           *)
(* (lmctfy/controllers/cgroup_factory.cc).  A CgroupFactory knows for each *)
(* hierarchy where it is mounted and whether its controllers own the       *)
(* cgroups there; of the hierarchies co-mounted at a path one creates,     *)
(* enters and removes directories for all.  InitMachine mounts what the    *)
(* InitSpec asks for; every later process detects the mounts anew.         *)
(***************************************************************************)
EXTENDS Integers, Sequences, FiniteSets

CONSTANTS
    Hierarchy, \* the supported hierarchies, numbered as in CgroupHierarchy
    Path,      \* mount points
    Request,   \* the hierarchy lists a CgroupMount may have
    MaxMounts, \* bound on the mounts of the machine
    MayHide    \* a mount point may be unreadable to the process

ASSUME FactoryAssumption ==
    /\ Hierarchy \subseteq Nat
    /\ IsFiniteSet(Hierarchy)
    /\ Request \subseteq Seq(Hierarchy)
    /\ MaxMounts \in Nat
    /\ MayHide \in BOOLEAN

VARIABLES
    mounts,     \* the cgroup lines of /proc/mounts, in order
    mount_paths \* [known hierarchies -> MountPoint], of the running process

factory_vars == <<mounts, mount_paths>>

MountPoint == [path : Path, owns : BOOLEAN]
Known      == DOMAIN mount_paths

Line       == [path : Path, hs : (SUBSET Hierarchy) \ {{}}]

(* Every variable has its type: a mount has some hierarchy, the factory    *)
(* knows supported hierarchies only, and knows a path for each.            *)
FactoryTypeOK ==
    /\ mounts \in Seq(Line)
    /\ Known \subseteq Hierarchy
    /\ mount_paths \in [Known -> MountPoint]

-----------------------------------------------------------------------------
(* CgroupFactory::New goes through the mounts it can read; the first one   *)
(* that lists a hierarchy counts.  The constructor gives a path to the     *)
(* first hierarchy that has it.                                            *)

FirstWith(line, seen, h) ==
    /\ h \in mounts[line].hs
    /\ \A i \in seen : h \in mounts[i].hs => line <= i

FromMounts(at) ==
    [h \in DOMAIN at |->
        [path |-> mounts[at[h]].path,
         owns |-> \A g \in DOMAIN at :
                     mounts[at[g]].path = mounts[at[h]].path => h <= g]]

BarLast == {1..(Len(mounts) - 1)} \* mutant: the last line is not read
Readable ==
    IF MayHide THEN SUBSET (DOMAIN mounts) ELSE {DOMAIN mounts}

New ==
    /\ \E seen \in Readable :
          LET found == UNION {mounts[i].hs : i \in seen} IN
          \E at \in [found -> seen] :
             /\ \A h \in found : FirstWith(at[h], seen, h)
             /\ mount_paths' = FromMounts(at)
    /\ UNCHANGED mounts

-----------------------------------------------------------------------------
(* CgroupFactory::Mount.  The kernel mounts a set of hierarchies that are  *)
(* all free, or once more one that is already mounted as such a set.       *)

Asked(req) == {req[i] : i \in DOMAIN req}
Here(p)    == {h \in Known : mount_paths[h].path = p}

AnyAtPath(p, req) == Asked(req) \cap Known \subseteq Here(p) \* mutant: no count
Accepts(p, req) ==
    /\ Asked(req) \cap Known \subseteq Here(p)
    /\ Cardinality(Here(p)) = Cardinality({i \in DOMAIN req : req[i] \in Known})

KernelMountOk(set) ==
    \A i \in DOMAIN mounts : mounts[i].hs = set \/ mounts[i].hs \cap set = {}

Saved(p, req) ==
    [h \in Known \cup Asked(req) |->
        IF h \in Known THEN mount_paths[h]
        ELSE [path |-> p, owns |-> h = req[1]]]

SaveFirst(p, req) == \* mutant: saved before the kernel has mounted
    /\ Accepts(p, req)
    /\ mount_paths' = Saved(p, req)
    /\ UNCHANGED mounts

MountNothing(p, req) == \* mutant: goes on with nothing to mount
    /\ Accepts(p, req)
    /\ KernelMountOk(Asked(req) \ Known)
    /\ Len(mounts) < MaxMounts
    /\ mounts' = Append(mounts, [path |-> p, hs |-> Asked(req) \ Known])
    /\ mount_paths' = Saved(p, req)

(* With nothing to mount the call returns OK, and an error of mkdir or     *)
(* mount(2) leaves the factory as it was: neither changes anything.        *)
Mount(p, req) ==
    LET toMount == Asked(req) \ Known IN
    /\ Accepts(p, req)
    /\ toMount # {}
    /\ KernelMountOk(toMount)
    /\ Len(mounts) < MaxMounts
    /\ mounts' = Append(mounts, [path |-> p, hs |-> toMount])
    /\ mount_paths' = Saved(p, req)

-----------------------------------------------------------------------------
FactoryInit == mounts = <<>> /\ mount_paths = <<>>

FactoryNext == New \/ \E p \in Path, req \in Request : Mount(p, req)

FactorySpec == FactoryInit /\ [][FactoryNext]_factory_vars

-----------------------------------------------------------------------------
(* Where the factory looks for a hierarchy's cgroups, the kernel has       *)
(* mounted it, across mounts and restarts of the process.                  *)
FactoryAgreesWithKernel ==
    \A h \in Known : \E i \in DOMAIN mounts :
        h \in mounts[i].hs /\ mounts[i].path = mount_paths[h].path

(* No sequence of InitMachine calls and restarts mounts a hierarchy at two *)
(* paths: "can't mount again".                                             *)
OneHomePerHierarchy ==
    \A i, j \in DOMAIN mounts :
        mounts[i].hs \cap mounts[j].hs # {} => mounts[i].path = mounts[j].path

(* What is mounted over existing mounts was asked for together with all of *)
(* them: the count of the hierarchies in the request that are mounted      *)
(* already stands for a comparison with those mounted at the path, also    *)
(* after restarts.                                                         *)
OnTopOnlyTogether ==
    [][\A p \in Path, req \in Request :
          Mount(p, req) => \A i \in DOMAIN mounts :
             mounts[i].path = p => mounts[i].hs \subseteq Asked(req)]_factory_vars
=============================================================================
