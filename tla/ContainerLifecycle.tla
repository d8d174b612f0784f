------------------------- MODULE ContainerLifecycle -------------------------
(***************************************************************************)
(* The life of lmctfy containers: Create, Destroy, KillAll, Enter, Run,    *)
(* Pause and Resume as ContainerApiImpl and ContainerImpl execute them     *)
(* (lmctfy/lmctfy_impl.cc), down to the mkdir, rmdir, task-file write and  *)
(* kill they make.  lmctfy keeps no record of its own: a container IS its  *)
(* cgroup directories (CgroupTrees), and every client works on them        *)
(* concurrently, without a lock, one system call at a time.                *)
(***************************************************************************)
EXTENDS CgroupTrees

CONSTANTS
    Client,            \* threads of control that call the API
    Calls,             \* the operations the clients call
    Specs,             \* the sets of resources a Create may specify
    Tourist,           \* tasks whose thread-group leader is elsewhere
    MaxTries,          \* FLAGS_lmctfy_num_tries_for_unkillable
    OwnersSynchronize, \* administrative operations on a name are serialised
    JobMounted,        \* tree 0 is the job hierarchy, owned by TasksHandler
    MayFail,           \* configuring or delegating a resource may fail
    MayCrash           \* a client may die in the middle of an operation

Admin == {"create", "destroy", "killall", "pause"}
Op    == Admin \cup {"enter", "run"}

ASSUME ClientAssumption ==
    /\ Calls \subseteq Op
    /\ Specs \subseteq SUBSET Resource
    /\ Tourist \subseteq Pid
    /\ MaxTries \in Nat
    /\ OwnersSynchronize \in BOOLEAN
    /\ JobMounted \in BOOLEAN
    /\ MayFail \in BOOLEAN
    /\ MayCrash \in BOOLEAN

VARIABLE cl \* [Client -> the operation the client is in and its locals]

vars == <<kernel, cl>>

PC == {"idle", "mkdir", "config", "finish", "delete", "rmdir", "attach",
       "next", "list", "signal", "handlers", "enter"}

Local == [
    pc       : PC,
    op       : Op \cup {"none"},
    target   : Name,           \* the container the operation was called on
    cur      : Name,           \* the container being killed or deleted
    todo     : SUBSET Name,    \* containers still to destroy
    hs       : SUBSET Tree,    \* trees still to create, delete or enter
    made     : SUBSET ResTree, \* trees this Create has made
    tree     : Tree,           \* tree last created, or being deleted
    rm       : SUBSET Name,    \* directories listed for deletion
    lst      : SUBSET Pid,     \* tasks listed for killing
    tries    : 0..MaxTries,    \* num_tries left
    pass     : {1, 2},         \* 1: kill processes, 2: kill threads
    who      : Pid,            \* the task Enter or Run moves
    home     : [ResTree -> Name], \* the handlers Enter or Run resolved
    result   : {"none", "ok", "error"}, \* of the last operation
    released : BOOLEAN]        \* the retained object lost tasks_handler_

Idle == [
    pc |-> "idle", op |-> "none", target |-> Root, cur |-> Root,
    todo |-> {}, hs |-> {}, made |-> {}, tree |-> 0, rm |-> {}, lst |-> {},
    tries |-> 0, pass |-> 1, who |-> CHOOSE p \in Pid : TRUE,
    home |-> [k \in ResTree |-> Root], result |-> "none",
    released |-> FALSE]

Become(c, s) == cl' = [cl EXCEPT ![c] = s]
Done(r)      == [Idle EXCEPT !.result = r]
Begin(o, n, where) ==
    [Idle EXCEPT !.op = o, !.target = n, !.cur = n, !.pc = where]

(* "Administrative operations on a single container must be synchronized"  *)
(* by its owner; operations on other containers, Enter and Run need not be.*)
MayAdminister(n) ==
    OwnersSynchronize =>
        \A d \in Client : ~(cl[d].op \in Admin /\ cl[d].target = n)

MayCall(c, o) == o \in Calls /\ cl[c].pc = "idle"

-----------------------------------------------------------------------------
(* ContainerApiImpl::Create.  The directory in tree 0 comes first, so the  *)
(* container exists for everyone from the first step on.                   *)

First(S, k) == k \in S /\ \A j \in S : k <= j

Create(c, n, spec) ==
    /\ MayCall(c, "create")
    /\ MayAdminister(n)
    /\ MkDirOk(0, n)
    /\ MkDir(0, n)
    /\ Become(c, [Begin("create", n, IF spec = {} THEN "finish" ELSE "mkdir")
                     EXCEPT !.hs = {k \in ResTree : ResOf[k] \in spec}])
    /\ UNCHANGED <<at, live, doomed, frozen>>

(* Leaving Create with an error destroys the handlers already in           *)
(* specified_resource_handlers, then the tasks handler and the freezer.    *)
(* The handler under construction is a plain unique_ptr: what it made      *)
(* stays.                                                                  *)
Rollback(me, handlers) == [me EXCEPT !.hs = handlers, !.pc = "delete"]

RollbackAll(me, k)    == {j \in ResTree : ResOf[j] <= ResOf[k]} \* mutant
CompleteBefore(me, k) == {j \in me.made : ResOf[j] < ResOf[k]}

MkDirTree(c) ==
    LET me == cl[c] IN
    /\ me.pc = "mkdir"
    /\ \E k \in me.hs :
          /\ First(me.hs, k)
          /\ \/ /\ MkDirOk(k, me.target)
                /\ MkDir(k, me.target)
                /\ Become(c, [me EXCEPT
                     !.tree = k, !.made = @ \cup {k}, !.hs = @ \ {k},
                     !.pc = IF \E j \in me.hs \ {k} : ResOf[j] = ResOf[k]
                            THEN "mkdir" ELSE "config"])
             \/ /\ ~MkDirOk(k, me.target)
                /\ Become(c, Rollback(me, CompleteBefore(me, k)))
                /\ UNCHANGED dirs
    /\ UNCHANGED <<at, live, doomed, frozen>>

(* CreateResource and the replace Update write the parameters of the new   *)
(* directories; a spec the resource rejects, or a directory that is gone,  *)
(* fails it.                                                               *)
Configure(c) ==
    LET me    == cl[c]
        there == \A j \in me.made :
                    ResOf[j] = ResOf[me.tree] => me.target \in dirs[j]
    IN
    /\ me.pc = "config"
    /\ \/ /\ there
          /\ Become(c, [me EXCEPT
               !.pc = IF me.hs = {} THEN "finish" ELSE "mkdir"])
       \/ /\ MayFail \/ ~there
          /\ Become(c, Rollback(me, CompleteBefore(me, me.tree)))
    /\ UNCHANGED kernel

(* Delegate, when an owner is specified, may fail; then everything made is *)
(* rolled back.                                                            *)
FinishCreate(c) ==
    /\ cl[c].pc = "finish"
    /\ \/ Become(c, Done("ok"))
       \/ MayFail /\ Become(c, Rollback(cl[c], cl[c].made))
    /\ UNCHANGED kernel

-----------------------------------------------------------------------------
(* CgroupController::Destroy on one tree after the other, for the rollback *)
(* of Create and for ContainerImpl::Destroy.  Create destroys its handlers *)
(* in the order it made them, Destroy takes them from the back; both take  *)
(* the trees of one handler in order, and tree 0 last.                     *)

FromBack(S, k) ==
    /\ k \in S
    /\ \A j \in S : ResOf[j] < ResOf[k] \/ (ResOf[j] = ResOf[k] /\ k <= j)

NextTree(me, k) ==
    \/ me.hs = {} /\ k = 0
    \/ me.op = "create" /\ First(me.hs, k)
    \/ me.op = "destroy" /\ FromBack(me.hs, k)

(* A rollback ignores the failure and goes on with the next handler; the   *)
(* rest of this one stays.  Destroy gives up.  When the freezer tracks the *)
(* tasks, ContainerImpl has released tasks_handler_ before the freezer     *)
(* directory fails to go.                                                  *)
DeleteIgnored(me, k) == \* mutant: Destroy goes on like a rollback
    IF k = 0 THEN Done("ok")
    ELSE [me EXCEPT !.hs = {j \in @ : ResOf[j] # ResOf[k]}, !.rm = {},
                    !.pc = "delete"]

ReleaseFirst(me, k) == \* mutant: tasks_handler_ released before Destroy
    [Done("error") EXCEPT !.released = me.op = "destroy"]

DeleteFailed(me, k) ==
    IF me.op = "destroy"
    THEN [Done("error") EXCEPT
            !.released = k = 0 /\ ~JobMounted /\ me.cur = me.target]
    ELSE IF k = 0 THEN Done("error")
    ELSE [me EXCEPT !.hs = {j \in @ : ResOf[j] # ResOf[k]}, !.rm = {},
                    !.pc = "delete"]

TreeDeleted(me, k) ==
    IF k # 0
    THEN [me EXCEPT !.hs = @ \ {k}, !.rm = {}, !.pc = "delete"]
    ELSE IF me.op = "create" THEN Done("error")
    ELSE IF me.todo = {me.cur} THEN Done("ok")
    ELSE [me EXCEPT !.todo = @ \ {me.cur}, !.rm = {}, !.pc = "next"]

(* DeleteCgroupHierarchy lists a directory before those inside it and      *)
(* fails on one it cannot open: the first, or one that another client      *)
(* removes while the listing is under way.                                 *)
BeingRemoved(c, k, n) ==
    \E d \in Client \ {c} :
        cl[d].pc = "rmdir" /\ cl[d].tree = k /\ cl[d].rm \cap Under[n] # {}

OnlyItself(k, n) == {n} \* mutant: no recursion
ToDelete(k, n)   == dirs[k] \cap Under[n]

ListTree(c) ==
    LET me == cl[c] IN
    /\ me.pc = "delete"
    /\ \E k \in Tree :
          /\ NextTree(me, k)
          /\ \/ /\ me.cur \in dirs[k]
                /\ Become(c, [me EXCEPT !.tree = k, !.pc = "rmdir",
                                        !.rm = ToDelete(k, me.cur)])
             \/ /\ me.cur \notin dirs[k] \/ BeingRemoved(c, k, me.cur)
                /\ Become(c, DeleteFailed(me, k))
    /\ UNCHANGED kernel

(* Every directory goes after the listed ones inside it.                   *)
DeleteDir(c) ==
    LET me == cl[c] IN
    /\ me.pc = "rmdir"
    /\ \E m \in me.rm :
          /\ me.rm \cap Under[m] = {m}
          /\ \/ /\ RmDirOk(me.tree, m)
                /\ RmDir(me.tree, m)
                /\ Become(c, IF me.rm = {m} THEN TreeDeleted(me, me.tree)
                             ELSE [me EXCEPT !.rm = @ \ {m}])
             \/ /\ ~RmDirOk(me.tree, m)
                /\ Become(c, DeleteFailed(me, me.tree))
                /\ UNCHANGED <<dirs, frozen>>
    /\ UNCHANGED <<at, live, doomed>>
-----------------------------------------------------------------------------
(* ContainerApiImpl::Destroy: list the subcontainers recursively, attach   *)
(* to each, destroy them in reverse name order, the container last.        *)

Destroy(c, n) ==
    /\ MayCall(c, "destroy")
    /\ MayAdminister(n)
    /\ n \in dirs[0] \ {Root}
    /\ Become(c, [Begin("destroy", n, "attach")
                     EXCEPT !.todo = dirs[0] \cap Under[n]])
    /\ UNCHANGED kernel

Attach(c) ==
    /\ cl[c].pc = "attach"
    /\ Become(c, IF cl[c].todo \subseteq dirs[0]
                 THEN [cl[c] EXCEPT !.pc = "next"] ELSE Done("error"))
    /\ UNCHANGED kernel

(* ContainerImpl::Destroy of the next container, up to its KillAll.        *)
DestroyNext(c) ==
    LET me == cl[c] IN
    /\ me.pc = "next"
    /\ \E x \in me.todo :
          /\ \A y \in me.todo : Order[y] <= Order[x]
          /\ Become(c, IF x \in dirs[0]
                       THEN [me EXCEPT !.cur = x, !.pc = "list",
                                       !.pass = 1, !.tries = MaxTries]
                       ELSE Done("error"))
    /\ UNCHANGED kernel

(* GetGeneralResourceHandlers also attaches to the handlers of ancestors;  *)
(* only those whose container_name() is this container's are destroyed.    *)
ResolveHandlers(c) ==
    LET me == cl[c] IN
    /\ me.pc = "handlers"
    /\ Become(c, [me EXCEPT
         !.pc = "delete",
         !.hs = {k \in ResTree : Isolates(me.cur, ResOf[k])}])
    /\ UNCHANGED kernel

-----------------------------------------------------------------------------
(* ContainerImpl::KillAll and KillTasks: list, signal and sleep until the  *)
(* list is empty or num_tries runs out, first for the processes, then for  *)
(* the threads.  Only the container's own cgroup is looked at.             *)

KillAll(c, n) ==
    /\ MayCall(c, "killall")
    /\ MayAdminister(n)
    /\ n \in dirs[0] \ {Root}
    /\ Become(c, [Begin("killall", n, "list") EXCEPT !.tries = MaxTries])
    /\ UNCHANGED kernel

(* The thread a Run started belongs to the caller, whose thread-group      *)
(* leader is not in the container.                                         *)
RunThreads == {cl[d].who : d \in {e \in Client : cl[e].op = "run"}}

Listed(me) ==
    IF me.pass = 1 THEN Tasks(me.cur) \ (Tourist \cup RunThreads)
    ELSE Tasks(me.cur)

Killed(me) ==
    IF me.pass = 1 THEN [me EXCEPT !.pass = 2, !.tries = MaxTries]
    ELSE IF me.op = "killall" THEN Done("ok")
    ELSE [me EXCEPT !.pc = "handlers", !.pass = 1, !.tries = 0]

NeverGivesUp(me) == FALSE \* mutant
GivesUp(me)      == me.tries = 0

KillList(c) ==
    LET me == cl[c] IN
    /\ me.pc = "list"
    /\ Become(c, IF me.cur \notin dirs[0] THEN Done("error")
                 ELSE IF Listed(me) = {} THEN Killed(me)
                 ELSE IF GivesUp(me) THEN Done("error")
                 ELSE [me EXCEPT !.lst = Listed(me), !.pc = "signal"])
    /\ UNCHANGED kernel

SignalAgain(c) == \* mutant: num_tries is not decremented
    /\ cl[c].pc = "signal"
    /\ doomed' = doomed \cup (cl[c].lst \cap live)
    /\ Become(c, [cl[c] EXCEPT !.lst = {}, !.pc = "list"])
    /\ UNCHANGED <<dirs, at, live, frozen>>

Signal(c) ==
    LET me == cl[c] IN
    /\ me.pc = "signal"
    /\ doomed' = doomed \cup (me.lst \cap live)
    /\ Become(c, [me EXCEPT !.lst = {}, !.tries = @ - 1, !.pc = "list"])
    /\ UNCHANGED <<dirs, at, live, frozen>>

-----------------------------------------------------------------------------
(* ContainerImpl::Enter and Run.  The handlers are resolved first; then    *)
(* the task is written to tree 0 and to the trees of each handler.         *)

Entering(o, n, p) ==
    {[Begin(o, n, "enter") EXCEPT !.hs = Tree, !.who = p, !.home = h] :
        h \in {g \in [ResTree -> Name] :
                  \A k \in ResTree : IsHome(k, n, g[k])}}

Enter(c, n, p) ==
    /\ MayCall(c, "enter")
    /\ n \in dirs[0]
    /\ p \in live \ RunThreads
    /\ \E s \in Entering("enter", n, p) : Become(c, s)
    /\ UNCHANGED kernel

(* EnterThreadAndDo starts a thread in the caller's container, here "/".   *)
Run(c, n, q) ==
    /\ MayCall(c, "run")
    /\ n \in dirs[0]
    /\ q \in Pid \ (live \cup RunThreads)
    /\ \E s \in Entering("run", n, q) : Become(c, s)
    /\ live' = live \cup {q}
    /\ UNCHANGED <<dirs, at, doomed, frozen>>

(* EnterInto writes the trees in order and stops at the first failure,     *)
(* leaving the task where it got to.  A Run's thread makes the writes      *)
(* itself, so it stops when it is frozen, and exits on failure; on success *)
(* the task stands for the command, which inherits the cgroups.            *)
EnterLast(S, k)  == k \in S /\ \A j \in S : j <= k \* mutant: tree 0 last
EnterFirst(S, k) == First(S, k)

EnterTree(c) ==
    LET me == cl[c] IN
    /\ me.pc = "enter"
    /\ me.op = "run" => ~IsFrozen(me.who)
    /\ \E k \in me.hs :
          LET m  == IF k = 0 THEN me.target ELSE me.home[k]
              ok == me.who \in live /\ m \in dirs[k]
          IN
          /\ EnterFirst(me.hs, k)
          /\ \/ /\ ok
                /\ at' = [at EXCEPT ![k][me.who] = m]
                /\ Become(c, IF me.hs = {k} THEN Done("ok")
                             ELSE [me EXCEPT !.hs = @ \ {k}])
                /\ UNCHANGED <<live, doomed>>
             \/ /\ ~ok
                /\ Become(c, Done("error"))
                /\ IF me.op = "run" THEN Gone(me.who)
                   ELSE UNCHANGED <<at, live, doomed>>
    /\ UNCHANGED <<dirs, frozen>>

-----------------------------------------------------------------------------
(* ContainerImpl::Pause and Resume; the stub refuses both when the job     *)
(* hierarchy is mounted.                                                   *)

SafeToUpdate(n) == HierarchicalFreezing \/ ~HasChild(0, n)

SetFreezerState(c, n) ==
    /\ MayCall(c, "pause")
    /\ MayAdminister(n)
    /\ ~JobMounted
    /\ n \in dirs[0] \ {Root}
    /\ SafeToUpdate(n)
    /\ UNCHANGED <<dirs, at, live, doomed, cl>>

Pause(c, n)  == SetFreezerState(c, n) /\ frozen' = frozen \cup {n}
Resume(c, n) == SetFreezerState(c, n) /\ frozen' = frozen \ {n}

-----------------------------------------------------------------------------
(* A client dies between two steps; what it made stays.  SIGKILL to the    *)
(* thread of a Run kills the whole caller.                                 *)
Crash(c) ==
    LET me == cl[c] IN
    /\ me.pc # "idle"
    /\ MayCrash \/ (me.op = "run" /\ me.who \in doomed)
    /\ Become(c, Idle)
    /\ IF me.op = "run" THEN ~IsFrozen(me.who) /\ Gone(me.who)
       ELSE UNCHANGED <<at, live, doomed>>
    /\ UNCHANGED <<dirs, frozen>>

Init == KernelInit /\ cl = [c \in Client |-> Idle]

Call(c) ==
    \E n \in Name :
        \/ \E spec \in Specs : Create(c, n, spec)
        \/ Destroy(c, n)
        \/ KillAll(c, n)
        \/ Pause(c, n)
        \/ Resume(c, n)
        \/ \E p \in Pid : Enter(c, n, p) \/ Run(c, n, p)

Step(c) ==
    \/ MkDirTree(c) \/ Configure(c) \/ FinishCreate(c)
    \/ ListTree(c) \/ DeleteDir(c)
    \/ Attach(c) \/ DestroyNext(c) \/ ResolveHandlers(c)
    \/ KillList(c) \/ Signal(c)
    \/ EnterTree(c)

TaskStep ==
    /\ \/ \E p \in Pid \ RunThreads : Exit(p)
       \/ \E p, q \in Pid \ RunThreads : Fork(p, q)
    /\ UNCHANGED cl

Next == TaskStep \/ \E c \in Client : Call(c) \/ Step(c) \/ Crash(c)

Spec == Init /\ [][Next]_vars

(* A client in the middle of an operation is scheduled again, and SIGKILL  *)
(* takes effect on a task that is not frozen.  Nobody has to call, exit or *)
(* fork.                                                                   *)
LiveSpec ==
    /\ Spec
    /\ \A c \in Client : WF_vars(Step(c))
    /\ \A p \in Pid : WF_vars(p \in doomed /\ TaskStep /\ p \notin live')

-----------------------------------------------------------------------------
(* Every variable has its type; in particular no step leaves a client with *)
(* a negative num_tries or outside the steps of an operation.              *)
TypeOK == KernelTypeOK /\ cl \in [Client -> Local]

Returns(c, o, r) == cl[c].op = o /\ cl'[c].pc = "idle" /\ cl'[c].result = r

(* "Only destroy the resources attached to this container": whatever the   *)
(* interleaving, a directory disappears only through an operation on that  *)
(* container or one above it, never because a handler resolved to an       *)
(* ancestor or to a sibling; and the rollback of a failed Create removes   *)
(* the container's own directory only in trees where this Create made it.  *)
RemovesOnlyOwn ==
    [][\A k \in Tree : \A m \in dirs[k] \ dirs'[k] :
          \E c \in Client :
             /\ m \in Under[cl[c].target]
             /\ \/ cl[c].op = "destroy"
                \/ /\ cl[c].op = "create"
                   /\ m = cl[c].target => k \in cl[c].made \cup {0}]_vars

(* A Destroy that returns OK has left no directory of the container or of  *)
(* its subcontainers in any hierarchy, also when a subcontainer was being  *)
(* created meanwhile, or an earlier Destroy or Create had failed midway.   *)
DestroyLeavesNothing ==
    [][\A c \in Client :
          Returns(c, "destroy", "ok") =>
             \A k \in Tree : dirs'[k] \cap Under[cl[c].target] = {}]_vars

(* The containers of tree 0 as the abstract registry sees them.            *)
Registry == INSTANCE ContainerRegistry
                WITH containers <- dirs[0], in <- at[0], paused <- frozen

(* The clients together implement the registry of containers: whatever     *)
(* system calls they interleave, fail in or die between, to an observer of *)
(* tree 0 containers and tasks come, move and go one at a time, nothing is *)
(* destroyed under a task or a subcontainer, and no task of a paused       *)
(* container forks or ends.                                                *)
ImplementsRegistry == Registry!Spec

(* When Destroy fails "the caller retains ownership": the container object *)
(* the caller keeps still has its tasks handler, so it can be used again.  *)
RetainedObjectUsable == \A c \in Client : ~cl[c].released

(* A task that a Run started, or one forked from it, is charged to its own *)
(* container or to an ancestor of it, never to an unrelated container,     *)
(* even while it is being moved and when the move fails midway.            *)
ChargedToAncestor ==
    \A p \in live : \A k \in ResTree : at[0][p] \in Under[at[k][p]]

(* Every call returns, however many tasks fork, subcontainers appear or    *)
(* steps fail meanwhile: the kill loop and the deletion loops end.  Only a *)
(* Run whose own thread was frozen by a Pause waits for the Resume.        *)
OperationsReturn ==
    \A c \in Client :
        cl[c].pc # "idle" ~>
            cl[c].pc = "idle" \/ (cl[c].op = "run" /\ IsFrozen(cl[c].who))

(* Nothing a crash, a failed Create or a failed Destroy leaves behind      *)
(* makes a container indestructible: once its owner only retries Destroy   *)
(* and nobody creates, runs, pauses, forks or crashes any more, the        *)
(* container goes away.  Only a task that an interrupted Enter has left in *)
(* the container's cgroups, but not in its tree 0, prevents it.            *)
OnlyDestroyCalls ==
    /\ live' \subseteq live
    /\ frozen' = {}
    /\ ChargedToAncestor
    /\ \A c \in Client :
          cl'[c] = cl[c] \/ cl'[c].op = "destroy" \/ cl'[c].result # "none"

DestroyedEventually ==
    <>[][OnlyDestroyCalls]_vars =>
        \A n \in Name \ {Root} :
            []<><<\E c \in Client : Destroy(c, n)>>_vars
                => []<>(n \notin dirs[0])
=============================================================================
