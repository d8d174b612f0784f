--------------------------- MODULE RegistryProofs ---------------------------
(***************************************************************************)
(* What ContainerLifecycle promises its callers: it implements             *)
(* ContainerRegistry, and charges a task to an ancestor of its container.  *)
(* And what CgroupFactory promises it: where the hierarchies are mounted.  *)
(***************************************************************************)
EXTENDS ContainerProofs, CgroupFactory, FiniteSetTheorems

-----------------------------------------------------------------------------
(* ContainerLifecycle implements ContainerRegistry, for any names, trees,  *)
(* tasks and clients, whether or not owners synchronise.  Each system call *)
(* of a client is one step of the registry or none: none unless it touches *)
(* tree 0.  Besides the type invariant the argument needs that every task  *)
(* is in a container that exists and that an unused task id is back at the *)
(* root.                                                                   *)
Housed ==
    /\ Root \in dirs[0]
    /\ \A p \in Pid : at[0][p] \in dirs[0] /\ (p \notin live => at[0][p] = Root)

RegistryStep == [Registry!Next]_(Registry!vars)

(* The registry keeps every task housed: none is left in a container that  *)
(* is destroyed.                                                           *)
LEMMA HousedKept ==
    ASSUME Inv, Housed, RegistryStep
    PROVE  Housed'
<1>a. at[0] \in [Pid -> Name] /\ live \subseteq Pid
  BY Trees DEF Inv, KernelTypeOK
<1>1. CASE UNCHANGED Registry!vars
  BY <1>1 DEF Housed, Registry!vars
<1>2. ASSUME NEW n \in Name,
             Registry!Create(n) \/ Registry!Pause(n) \/ Registry!Resume(n)
      PROVE  Housed'
  BY <1>2 DEF Housed, Registry!Create, Registry!Pause, Registry!Resume
<1>3. ASSUME NEW n \in Name, Registry!Destroy(n)
      PROVE  Housed'
  BY <1>3 DEF Housed, Registry!Destroy
<1>4. ASSUME NEW p \in Pid, Registry!End(p)
      PROVE  Housed'
  BY <1>4, <1>a DEF Housed, Registry!End
<1>5. ASSUME NEW p \in Pid, NEW n \in Name, Registry!Start(p, n) \/ Registry!Enter(p, n)
      PROVE  Housed'
  BY <1>5, <1>a DEF Housed, Registry!Start, Registry!Enter
<1> QED
  BY <1>1, <1>2, <1>3, <1>4, <1>5 DEF RegistryStep, Registry!Next

(* A step that changes none of what the registry sees is a stutter.        *)
LEMMA Unseen ==
    ASSUME dirs'[0] = dirs[0], at'[0] = at[0], UNCHANGED <<live, frozen>>
    PROVE  RegistryStep
BY DEF RegistryStep, Registry!vars

(* A task that goes away while it is not frozen ends in the registry; an   *)
(* unused task id was at the root already.                                 *)
LEMMA GoneEnds ==
    ASSUME Inv, Housed, NEW p \in Pid, Gone(p), ~IsFrozen(p),
           UNCHANGED <<dirs, frozen>>
    PROVE  RegistryStep
<1>a. /\ at[0] \in [Pid -> Name] /\ at'[0] = [at[0] EXCEPT ![p] = Root]
      /\ live' = live \ {p}
  BY Trees DEF Inv, KernelTypeOK, Gone
<1>1. CASE p \in live
  <2>1. ~Registry!Stopped(p)
    BY ZenonT(60) DEF IsFrozen, FreezeScope, Registry!Stopped
  <2>2. Registry!End(p)
    BY <1>a, <1>1, <2>1 DEF Registry!End
  <2> QED
    BY <2>2 DEF RegistryStep, Registry!Next
<1>2. CASE p \notin live
  <2>1. at'[0] = at[0] /\ live' = live
    BY <1>a, <1>2 DEF Housed
  <2> QED
    BY <2>1, Unseen
<1> QED
  BY <1>1, <1>2

(* Tasks exit and fork as the registry lets them.                          *)
LEMMA TaskStepRefines ==
    ASSUME Inv, Housed, TaskStep
    PROVE  RegistryStep
<1>a. /\ at \in [Tree -> [Pid -> Name]] /\ at[0] \in [Pid -> Name]
      /\ dirs[0] \subseteq Name
  BY Trees DEF Inv, KernelTypeOK
<1>1. ASSUME NEW p \in Pid, Exit(p)
      PROVE  RegistryStep
  BY <1>1, GoneEnds DEF Exit
<1>2. ASSUME NEW p \in Pid, NEW q \in Pid, Fork(p, q)
      PROVE  RegistryStep
  <2>1. at'[0] = [at[0] EXCEPT ![q] = at[0][p]]
    BY <1>2, <1>a, Trees DEF Fork
  <2>2. ~Registry!Stopped(p)
    BY <1>2, Zenon DEF Fork, IsFrozen, FreezeScope, Registry!Stopped
  <2>3. at[0][p] \in dirs[0] /\ at[0][p] \in Name
    BY <1>a DEF Housed
  <2>4. Registry!Start(q, at[0][p])
    BY <1>2, <2>1, <2>2, <2>3 DEF Fork, Registry!Start
  <2> QED
    BY <2>3, <2>4 DEF RegistryStep, Registry!Next
<1> QED
  BY <1>1, <1>2 DEF TaskStep

(* Calling an operation: Create makes the container at once, Run starts a  *)
(* task at the root, Pause and Resume are done in one write.               *)
LEMMA CallRefines ==
    ASSUME Inv, Housed, NEW c \in Client, Call(c)
    PROVE  RegistryStep
<1>a. /\ dirs \in [Tree -> SUBSET Name] /\ at[0] \in [Pid -> Name] /\ 0 \in Tree
      /\ Root \in Name
  BY Trees, NameAssumption DEF Inv, KernelTypeOK
<1>1. ASSUME NEW n \in Name, NEW spec \in Specs, Create(c, n, spec)
      PROVE  RegistryStep
  <2>1. Registry!Create(n)
    BY <1>1, <1>a DEF Create, MkDir, MkDirOk, Registry!Create
  <2> QED
    BY <2>1 DEF RegistryStep, Registry!Next
<1>2. ASSUME NEW n \in Name, Destroy(c, n) \/ KillAll(c, n)
      PROVE  RegistryStep
  BY <1>2, Unseen DEF Destroy, KillAll, kernel
<1>3. ASSUME NEW n \in Name, Pause(c, n)
      PROVE  RegistryStep
  <2>1. Registry!Pause(n)
    BY <1>3 DEF Pause, SetFreezerState, Registry!Pause
  <2> QED
    BY <2>1, SMTT(30) DEF RegistryStep, Registry!Next
<1>4. ASSUME NEW n \in Name, Resume(c, n)
      PROVE  RegistryStep
  <2>1. Registry!Resume(n)
    BY <1>4 DEF Resume, SetFreezerState, Registry!Resume
  <2> QED
    BY <2>1 DEF RegistryStep, Registry!Next
<1>5. ASSUME NEW n \in Name, NEW p \in Pid, Enter(c, n, p)
      PROVE  RegistryStep
  BY <1>5, Unseen, SMTT(30) DEF Enter, kernel
<1>6. ASSUME NEW n \in Name, NEW q \in Pid, Run(c, n, q)
      PROVE  RegistryStep
  <2>1. at'[0] = [at[0] EXCEPT ![q] = Root]
    BY <1>6, <1>a, SMTT(30) DEF Run, Housed
  <2>2. Registry!Start(q, Root)
    BY <1>6, <2>1 DEF Run, Housed, Registry!Start
  <2> QED
    BY <1>a, <2>2, SMTT(30) DEF RegistryStep, Registry!Next
<1> QED
  BY <1>1, <1>2, <1>3, <1>4, <1>5, <1>6 DEF Call

(* Steps inside an operation: an rmdir in tree 0 destroys a container, a   *)
(* write to its tasks file moves a task, the rest is not seen.             *)
LEMMA StepRefines ==
    ASSUME Inv, Housed, NEW c \in Client, Step(c) \/ Crash(c)
    PROVE  RegistryStep
<1> DEFINE me == cl[c]
<1>a. /\ dirs \in [Tree -> SUBSET Name] /\ at \in [Tree -> [Pid -> Name]]
      /\ 0 \in Tree /\ 0 \notin ResTree /\ ResTree \subseteq Tree
  BY Trees DEF Inv, KernelTypeOK
<1>b. me \in Good /\ me \in Local /\ me.who \in Pid
  BY DEF Inv, Good, Local
<1>1. CASE MkDirTree(c)
  <2>1. me.hs \subseteq ResTree
    BY <1>1, <1>b DEF MkDirTree, Good, Coherent
  <2>2. dirs'[0] = dirs[0]
    BY <1>1, <1>a, <2>1, SMTT(30) DEF MkDirTree, MkDir
  <2> QED
    BY <1>1, <2>2, Unseen DEF MkDirTree
<1>2. CASE DeleteDir(c)
  <2>1. PICK m \in me.rm : (RmDirOk(me.tree, m) /\ RmDir(me.tree, m)) \/ UNCHANGED <<dirs, frozen>>
    BY <1>2 DEF DeleteDir
  <2>2. UNCHANGED <<at, live>> /\ m \in Name /\ me.tree \in Tree
    BY <1>2, <1>b DEF DeleteDir, Local
  <2>3. CASE UNCHANGED <<dirs, frozen>>
    BY <2>2, <2>3, Unseen, SMTT(30)
  <2>4. CASE RmDirOk(me.tree, m) /\ RmDir(me.tree, m) /\ me.tree # 0
    BY <1>a, <2>2, <2>4, Unseen, SMTT(30) DEF RmDir
  <2>5. CASE RmDirOk(0, m) /\ RmDir(0, m)
    <3>1. Registry!Destroy(m)
      BY <1>a, <2>2, <2>5 DEF RmDir, RmDirOk, HasTasks, HasChild, Registry!Destroy
    <3> QED
      BY <2>2, <3>1, SMTT(30) DEF RegistryStep, Registry!Next
  <2> QED
    BY <2>1, <2>3, <2>4, <2>5
<1>3. CASE EnterTree(c)
  <2>1. PICK k \in me.hs :
           LET m == IF k = 0 THEN me.target ELSE me.home[k] IN
           \/ /\ me.who \in live /\ m \in dirs[k]
              /\ at' = [at EXCEPT ![k][me.who] = m] /\ live' = live
           \/ /\ me.op = "run" /\ Gone(me.who) /\ ~IsFrozen(me.who)
           \/ UNCHANGED <<at, live>>
    BY <1>3 DEF EnterTree
  <2>2. UNCHANGED <<dirs, frozen>> /\ k \in Tree /\ me.target \in Name
    BY <1>3, <1>b, SMTT(30) DEF EnterTree, Local
  <2>3. CASE UNCHANGED <<at, live>>
    BY <2>2, <2>3, Unseen, SMTT(30)
  <2>4. CASE Gone(me.who) /\ ~IsFrozen(me.who)
    BY <1>b, <2>2, <2>4, GoneEnds
  <2>5. CASE /\ k # 0 /\ live' = live
             /\ at' = [at EXCEPT ![k][me.who] = me.home[k]]
    BY <1>a, <2>2, <2>5, Unseen, SMTT(30)
  <2>6. CASE /\ me.who \in live /\ me.target \in dirs[0] /\ live' = live
             /\ at' = [at EXCEPT ![0][me.who] = me.target]
    <3>1. Registry!Enter(me.who, me.target)
      BY <1>a, <2>2, <2>6, SMTT(30) DEF Registry!Enter
    <3> QED
      BY <1>b, <2>2, <3>1, SMTT(30) DEF RegistryStep, Registry!Next
  <2> QED
    BY <2>1, <2>3, <2>4, <2>5, <2>6, SMTT(30)
<1>4. CASE Crash(c)
  BY <1>4, <1>b, GoneEnds, Unseen, SMTT(60) DEF Crash
<1>5. CASE Configure(c) \/ FinishCreate(c) \/ ListTree(c) \/ Attach(c)
           \/ DestroyNext(c) \/ ResolveHandlers(c) \/ KillList(c) \/ Signal(c)
  BY <1>5, Unseen, Zenon DEF Configure, FinishCreate, ListTree, Attach, DestroyNext,
                      ResolveHandlers, KillList, Signal, kernel
<1> QED
  BY <1>1, <1>2, <1>3, <1>4, <1>5 DEF Step

(* The implementation's steps are the registry's.                          *)
LEMMA NextRefines == Inv /\ Housed /\ [Next]_vars => RegistryStep
<1> SUFFICES ASSUME Inv, Housed, [Next]_vars PROVE RegistryStep
  OBVIOUS
<1>1. CASE UNCHANGED vars
  BY <1>1, Unseen DEF vars, kernel
<1>2. CASE Next
  BY <1>2, TaskStepRefines, CallRefines, StepRefines, SMTT(30) DEF Next
<1> QED
  BY <1>1, <1>2

(* Containers start as the registry does, with the root alone.             *)
LEMMA InitRefines == Init => Registry!Init /\ Housed
BY Trees, NameAssumption DEF Init, KernelInit, Registry!Init, Housed

(* Whatever system calls the clients interleave, fail in or die between,   *)
(* containers and tasks come, move and go as the registry prescribes.      *)
THEOREM LifecycleImplementsRegistry == Spec => ImplementsRegistry
<1>1. Inv /\ Housed /\ [Next]_vars => Housed'
  BY NextRefines, HousedKept
<1>2. Inv /\ Housed /\ [Next]_vars => [Registry!Next]_(Registry!vars)
  BY NextRefines DEF RegistryStep
<1>3. Init => Registry!Init /\ Housed
  BY InitRefines, SMTT(60)
<1> QED
  BY <1>1, <1>2, <1>3, InvHolds, PTL DEF Spec, ImplementsRegistry, Registry!Spec

-----------------------------------------------------------------------------
(* To which container is a task charged?  The thread of a Run is at the    *)
(* root of every hierarchy until it has entered tree 0, and from then on   *)
(* in the target there; the handlers it goes on to enter were resolved to  *)
(* ancestors of the target.                                                *)
Underway(me) ==
    /\ me.who \in live
    /\ \A k \in ResTree : me.target \in Under[me.home[k]]
    /\ IF 0 \in me.hs THEN \A k \in Tree : at[k][me.who] = Root
       ELSE at[0][me.who] = me.target

Charged ==
    /\ \A p \in Pid \ live : \A k \in Tree : at[k][p] = Root
    /\ \A p \in Pid : \A k \in ResTree : at[0][p] \in Under[at[k][p]]
    /\ \A c \in Client : cl[c].op # "enter"
    /\ \A c \in Client : cl[c].op = "run" => Underway(cl[c])
    /\ \A c, d \in Client :
          cl[c].op = "run" /\ cl[d].op = "run" /\ c # d => cl[c].who # cl[d].who

(* Nothing changes for a task by a step that moves none.                   *)
LEMMA UnmovedCharged ==
    ASSUME Inv, Charged, UNCHANGED <<at, live>>,
           \A c \in Client : cl'[c] = cl[c] \/ cl'[c].op \notin {"enter", "run"}
    PROVE  Charged'
BY SMTT(30) DEF Charged, Underway

(* A task that goes away leaves its id at the root of every hierarchy.     *)
LEMMA GoneCharged ==
    ASSUME Inv, Charged, NEW p \in Pid, Gone(p),
           \A c \in Client : \/ cl'[c].op = "none"
                             \/ /\ cl'[c] = cl[c]
                                /\ cl[c].op = "run" => cl[c].who # p
    PROVE  Charged'
<1>a. /\ at \in [Tree -> [Pid -> Name]] /\ Under[Root] = Name /\ Root \in Name
      /\ ResTree \subseteq Tree /\ 0 \in Tree
      /\ \A c \in Client : cl[c].who \in Pid
  BY Trees, NameAssumption, ZenonT(60) DEF Inv, KernelTypeOK, Good, Local
<1>b. /\ live' = live \ {p}
      /\ \A k \in Tree : at'[k][p] = Root /\ \A q \in Pid \ {p} : at'[k][q] = at[k][q]
  BY <1>a, SMTT(30) DEF Gone
<1>1. \A q \in Pid \ live' : \A k \in Tree : at'[k][q] = Root
  BY <1>b, SMTT(30) DEF Charged
<1>2. \A q \in Pid : \A k \in ResTree : at'[0][q] \in Under[at'[k][q]]
  BY <1>a, <1>b, SMTT(30) DEF Charged
<1>3. ASSUME NEW c \in Client, cl'[c].op = "run"
      PROVE  Underway(cl[c])' /\ cl'[c] = cl[c]
  <2>1. cl'[c] = cl[c] /\ cl[c].who \in Pid \ {p} /\ Underway(cl[c])
    BY <1>3, <1>a DEF Charged
  <2> QED
    BY <1>a, <1>b, <2>1, SMTT(30) DEF Underway
<1> QED
  BY <1>1, <1>2, <1>3, SMTT(60) DEF Charged

(* Tasks exit, and a child starts where its parent is; neither is the      *)
(* thread of a Run under way.                                              *)
LEMMA TaskStepCharged ==
    ASSUME Inv, Charged, TaskStep
    PROVE  Charged'
<1>a. /\ at \in [Tree -> [Pid -> Name]] /\ ResTree \subseteq Tree /\ 0 \in Tree
      /\ \A c \in Client : cl[c].who \in Pid
  BY Trees DEF Inv, KernelTypeOK, Good, Local
<1>b. UNCHANGED cl
  BY DEF TaskStep
<1>1. ASSUME NEW p \in Pid \ RunThreads, Exit(p)
      PROVE  Charged'
  <2>1. \A c \in Client : cl'[c] = cl[c] /\ (cl[c].op = "run" => cl[c].who # p)
    BY <1>b, SMTT(30) DEF RunThreads
  <2> QED
    BY <1>1, <2>1, GoneCharged DEF Exit
<1>2. ASSUME NEW p \in Pid, NEW q \in Pid \ RunThreads, Fork(p, q)
      PROVE  Charged'
  <2>1. /\ live' = live \cup {q} /\ q \notin live
        /\ \A k \in Tree :
              /\ at'[k][q] = at[k][p]
              /\ \A r \in Pid \ {q} : at'[k][r] = at[k][r]
    BY <1>2, <1>a DEF Fork
  <2>2. \A r \in Pid \ live' : \A k \in Tree : at'[k][r] = Root
    BY <2>1, SMTT(30) DEF Charged
  <2>3. \A r \in Pid : \A k \in ResTree : at'[0][r] \in Under[at'[k][r]]
    BY <1>a, <2>1, SMTT(30) DEF Charged
  <2>4. ASSUME NEW c \in Client, cl[c].op = "run"
        PROVE  Underway(cl[c])'
    <3>1. cl[c].who \in Pid \ {q} /\ Underway(cl[c])
      BY <1>a, <2>1, <2>4 DEF Charged, Underway
    <3> QED
      BY <1>a, <1>b, <2>1, <3>1, SMTT(30) DEF Underway
  <2> QED
    BY <1>b, <2>2, <2>3, <2>4 DEF Charged
<1> QED
  BY <1>1, <1>2 DEF TaskStep

(* Run starts a new thread at the root, and no two Runs the same.  The     *)
(* handlers it resolves are those of ancestors of the target.              *)
LEMMA CallCharged ==
    ASSUME "enter" \notin Calls, Inv, Charged, NEW c \in Client, Call(c)
    PROVE  Charged'
<1>a. cl \in [Client -> Good] /\ 0 \in Tree
  BY Trees, SMTT(60) DEF Inv
<1>1. ASSUME NEW n \in Name, NEW q \in Pid, Run(c, n, q)
      PROVE  Charged'
  <2>1. PICK s \in Entering("run", n, q) : Become(c, s)
    BY <1>1 DEF Run
  <2>2. PICK h \in [ResTree -> Name] :
           /\ s = [Begin("run", n, "enter")
                     EXCEPT !.hs = Tree, !.who = q, !.home = h]
           /\ \A k \in ResTree : IsHome(k, n, h[k])
    BY <2>1, Zenon DEF Entering
  <2>3. s.op = "run" /\ s.who = q /\ s.target = n /\ s.hs = Tree /\ s.home = h
    BY <2>2 DEF Begin, Idle
  <2>4. cl'[c] = s /\ \A d \in Client \ {c} : cl'[d] = cl[d]
    BY <1>a, <2>1, BecomeOne, SMTT(30)
  <2>5. /\ live' = live \cup {q} /\ at' = at /\ q \notin live
        /\ \A d \in Client : cl[d].op = "run" => cl[d].who # q
    BY <1>1 DEF Run, RunThreads
  <2>6. Underway(cl[c])'
    BY <1>a, <2>2, <2>3, <2>4, <2>5, SMTT(30) DEF Underway, Charged, IsHome
  <2>7. ASSUME NEW d \in Client \ {c}, cl[d].op = "run"
        PROVE  Underway(cl[d])'
    <3>1. Underway(cl[d]) /\ cl'[d] = cl[d]
      BY <2>4, <2>7, Zenon DEF Charged
    <3> QED
      BY <2>5, <3>1 DEF Underway
  <2>8. /\ \A r \in Pid \ live' : \A k \in Tree : at'[k][r] = Root
        /\ \A r \in Pid : \A k \in ResTree : at'[0][r] \in Under[at'[k][r]]
    BY <2>5, SMTT(30) DEF Charged
  <2>9. \A d \in Client : cl'[d].op # "enter"
    BY <2>3, <2>4 DEF Charged
  <2>10. \A d \in Client : cl'[d].op = "run" => Underway(cl[d])'
    <3> SUFFICES ASSUME NEW d \in Client, cl'[d].op = "run"
                 PROVE  Underway(cl[d])'
      OBVIOUS
    <3>1. CASE d = c
      BY <2>6, <3>1
    <3>2. CASE d # c
      BY <2>4, <2>7, <3>2, SMTT(30)
    <3> QED
      BY <3>1, <3>2
  <2>11. \A d, e \in Client :
           cl'[d].op = "run" /\ cl'[e].op = "run" /\ cl'[d].who = cl'[e].who => d = e
    BY <2>3, <2>4, <2>5, SMTT(30) DEF Charged
  <2> QED
    BY <2>8, <2>9, <2>10, <2>11, SMTT(30) DEF Charged
<1>2. ASSUME NEW s, Become(c, s), s.op \in Admin, UNCHANGED <<at, live>>
      PROVE  Charged'
  <2>1. cl'[c] = s /\ \A d \in Client \ {c} : cl'[d] = cl[d]
    BY <1>a, <1>2, BecomeOne
  <2> QED
    BY <1>2, <2>1, UnmovedCharged DEF Admin
<1>3. ASSUME NEW n \in Name, NEW spec \in Specs, Create(c, n, spec)
      PROVE  Charged'
  <2> DEFINE s == [Begin("create", n, IF spec = {} THEN "finish" ELSE "mkdir")
                     EXCEPT !.hs = {k \in ResTree : ResOf[k] \in spec}]
  <2>1. s.op \in Admin
    BY DEF Begin, Idle, Admin
  <2>2. Become(c, s) /\ UNCHANGED <<at, live>>
    BY <1>3 DEF Create
  <2> HIDE DEF s
  <2> QED
    BY <1>2, <2>1, <2>2
<1>4. ASSUME NEW n \in Name, Destroy(c, n)
      PROVE  Charged'
  <2> DEFINE s == [Begin("destroy", n, "attach")
                     EXCEPT !.todo = dirs[0] \cap Under[n]]
  <2>1. s.op \in Admin
    BY DEF Begin, Idle, Admin
  <2>2. Become(c, s) /\ UNCHANGED <<at, live>>
    BY <1>4 DEF Destroy, kernel
  <2> HIDE DEF s
  <2> QED
    BY <1>2, <2>1, <2>2
<1>5. ASSUME NEW n \in Name, KillAll(c, n)
      PROVE  Charged'
  <2> DEFINE s == [Begin("killall", n, "list") EXCEPT !.tries = MaxTries]
  <2>1. s.op \in Admin
    BY DEF Begin, Idle, Admin
  <2>2. Become(c, s) /\ UNCHANGED <<at, live>>
    BY <1>5 DEF KillAll, kernel
  <2> HIDE DEF s
  <2> QED
    BY <1>2, <2>1, <2>2
<1>6. ASSUME NEW n \in Name, Pause(c, n) \/ Resume(c, n)
      PROVE  Charged'
  BY <1>6, UnmovedCharged DEF Pause, Resume, SetFreezerState
<1>7. ASSUME NEW n \in Name, NEW p \in Pid, Enter(c, n, p)
      PROVE  FALSE
  BY <1>7 DEF Enter, MayCall
<1> QED
  BY <1>1, <1>3, <1>4, <1>5, <1>6, <1>7 DEF Call

(* The thread of a Run enters tree 0 before any other, so it is never      *)
(* charged to a container that its own is not in; if it fails, or its      *)
(* caller dies, it goes away.                                              *)
LEMMA EnterCharged ==
    ASSUME Inv, Charged, NEW c \in Client, EnterTree(c)
    PROVE  Charged'
<1> DEFINE me == cl[c]
<1>a. /\ at \in [Tree -> [Pid -> Name]] /\ cl \in [Client -> Good]
      /\ Under[Root] = Name /\ Root \in Name
      /\ \A d \in Client : cl[d].who \in Pid /\ cl[d].hs \subseteq Tree
  BY NameAssumption DEF Inv, KernelTypeOK, Good, Local
<1>d. ResTree = Tree \ {0} /\ 0 \in Tree
  BY TreeAssumption DEF Tree, ResTree
<1>b. me.op = "run" /\ Underway(me) /\ me.target \in Name /\ me \in Local
  BY SMTT(60) DEF EnterTree, Inv, Good, Coherent, Local, Charged
<1>c. \A d \in Client \ {c} : cl[d].op = "run" => cl[d].who # me.who
  BY <1>b, Zenon DEF Charged
<1> DEFINE m(k) == IF k = 0 THEN me.target ELSE me.home[k]
<1>1. PICK k \in me.hs :
         /\ First(me.hs, k)
         /\ \/ /\ at' = [at EXCEPT ![k][me.who] = m(k)] /\ live' = live
               /\ Become(c, IF me.hs = {k} THEN Done("ok")
                            ELSE [me EXCEPT !.hs = @ \ {k}])
            \/ Become(c, Done("error")) /\ Gone(me.who)
  BY <1>b, ZenonT(60) DEF EnterTree, EnterFirst
<1>2. Done("error").op = "none" /\ Done("ok").op = "none"
  BY DEF Done, Idle
<1>3. CASE Become(c, Done("error")) /\ Gone(me.who)
  <2>1. cl'[c].op = "none" /\ \A d \in Client \ {c} : cl'[d] = cl[d]
    BY <1>a, <1>d, <1>2, <1>3, BecomeOne, SMTT(30)
  <2> QED
    BY <1>a, <1>d, <1>c, <1>3, <2>1, GoneCharged, SMTT(30)
<1>4. CASE /\ at' = [at EXCEPT ![k][me.who] = m(k)] /\ live' = live
           /\ Become(c, IF me.hs = {k} THEN Done("ok")
                        ELSE [me EXCEPT !.hs = @ \ {k}])
  <2>1. /\ k \in Tree /\ me.who \in Pid
        /\ at'[k][me.who] = m(k)
        /\ \A j \in Tree, p \in Pid :
              j # k \/ p # me.who => at'[j][p] = at[j][p]
    BY <1>a, <1>d, <1>1, <1>4
  <2>2. 0 \in me.hs => k = 0
    BY <1>a, <1>d, <1>1, SMTT(30) DEF First, Tree
  <2>3. at'[0][me.who] = me.target
    BY <1>a, <1>d, <1>b, <2>1, <2>2, SMTT(30) DEF Underway
  <2>4. \A j \in ResTree : me.target \in Under[at'[j][me.who]]
    <3> SUFFICES ASSUME NEW j \in ResTree
                 PROVE  me.target \in Under[at'[j][me.who]]
      BY SMTT(30)
    <3>1. CASE j = k
      BY <1>a, <1>d, <1>b, <2>1, <3>1, SMTT(30) DEF Underway
    <3>2. CASE j # k /\ k = 0
      BY <1>a, <1>d, <1>b, <1>1, <2>1, <3>2, SMTT(30) DEF Underway
    <3>3. CASE j # k /\ k # 0
      <4>1. at[0][me.who] = me.target /\ at'[j][me.who] = at[j][me.who]
        BY <1>a, <1>d, <1>b, <2>1, <2>2, <3>3, ZenonT(60) DEF Underway
      <4> QED
        BY <4>1, <2>1, SMTT(60) DEF Charged
    <3> QED
      BY <3>1, <3>2, <3>3
  <2>5. \A p \in Pid : \A j \in ResTree : at'[0][p] \in Under[at'[j][p]]
    <3> SUFFICES ASSUME NEW p \in Pid, NEW j \in ResTree, p # me.who
                 PROVE  at'[0][p] \in Under[at'[j][p]]
      BY <2>3, <2>4, SMTT(30)
    <3>1. at'[0][p] = at[0][p] /\ at'[j][p] = at[j][p]
      BY <1>a, <1>d, <2>1, SMTT(30)
    <3> QED
      BY <3>1, SMTT(30) DEF Charged
  <2>6. \A p \in Pid \ live' : \A j \in Tree : at'[j][p] = Root
    BY <1>b, <1>4, <2>1 DEF Underway, Charged
  <2>7. ASSUME NEW d \in Client \ {c}, cl[d].op = "run"
        PROVE  Underway(cl[d])' /\ cl'[d] = cl[d]
    <3>1. cl'[d] = cl[d] /\ cl[d].who \in Pid /\ cl[d].who # me.who
      BY <1>a, <1>d, <1>c, <1>4, <2>7, BecomeOne, SMTT(30)
    <3>2. \A j \in Tree : at'[j][cl[d].who] = at[j][cl[d].who]
      BY <2>1, <3>1
    <3> QED
      BY <1>a, <1>d, <1>4, <2>7, <3>1, <3>2, SMTT(30) DEF Underway, Charged
  <2>8. \A d \in Client \ {c} : cl'[d] = cl[d]
    BY <1>a, <1>d, <1>4, BecomeOne, SMTT(30)
  <2>9. \/ cl'[c].op = "none"
        \/ /\ cl'[c].op = "run" /\ cl'[c].who = me.who /\ Underway(cl[c])'
    <3>1. CASE me.hs = {k}
      BY <1>a, <1>d, <1>2, <1>4, <3>1, BecomeOne, SMTT(30)
    <3>2. CASE me.hs # {k}
      <4> DEFINE t == [me EXCEPT !.hs = @ \ {k}]
      <4>1. cl'[c] = t
        BY <1>a, <1>d, <1>4, <3>2, BecomeOne
      <4>2. /\ t.op = "run" /\ t.who = me.who /\ t.hs = me.hs \ {k}
            /\ t.target = me.target /\ t.home = me.home
        BY <1>b DEF Local
      <4>3. 0 \notin me.hs \ {k}
        BY <2>2
      <4> HIDE DEF t
      <4> QED
        BY <1>b, <1>4, <2>3, <4>1, <4>2, <4>3, SMTT(30) DEF Underway
    <3> QED
      BY <3>1, <3>2
  <2> QED
    BY <1>c, <2>5, <2>6, <2>7, <2>8, <2>9, SMTT(30) DEF Charged
<1> QED
  BY <1>1, <1>3, <1>4, SMTT(30)

(* No other step of an operation moves a task, and a client that dies      *)
(* takes the thread of its Run along.                                      *)
LEMMA StepCharged ==
    ASSUME Inv, Charged, NEW c \in Client, Step(c) \/ Crash(c), ~EnterTree(c)
    PROVE  Charged'
<1>a. /\ \A d \in Client \ {c} : cl'[d] = cl[d]
      /\ cl'[c].op \in {"none", cl[c].op}
  BY StepSameCall, ZenonT(60) DEF SameCall, Continues
<1>b. cl[c].who \in Pid /\ cl[c] \in Good
  BY DEF Inv, Good, Local
<1>1. CASE Crash(c)
  <2>1. cl'[c].op = "none"
    <3>1. Idle.op = "none" /\ cl \in [Client -> Good]
      BY SMTT(60) DEF Idle, Inv
    <3> QED
      BY <1>1, <3>1, BecomeOne, SMTT(30) DEF Crash
  <2>2. CASE cl[c].op = "run"
    <3>1. \A d \in Client \ {c} : cl[d].op = "run" => cl[d].who # cl[c].who
      BY <2>2, ZenonT(60) DEF Charged
    <3> QED
      BY <1>a, <1>b, <1>1, <2>1, <2>2, <3>1, GoneCharged, ZenonT(60) DEF Crash
  <2>3. CASE cl[c].op # "run"
    BY <1>a, <1>1, <2>1, <2>3, UnmovedCharged, ZenonT(60) DEF Crash
  <2> QED
    BY <2>2, <2>3, SMTT(30)
<1>2. CASE Step(c)
  <2>1. UNCHANGED <<at, live>> /\ cl[c].pc \notin {"idle", "enter"}
    BY <1>2, ZenonT(60) DEF Step, MkDirTree, Configure, FinishCreate, ListTree,
       DeleteDir,
                Attach, DestroyNext, ResolveHandlers, KillList, Signal, kernel
  <2>2. cl[c].op \notin {"enter", "run"}
    BY <1>b, <2>1, Zenon DEF Good, Coherent, Local, PC
  <2> QED
    BY <1>a, <2>1, <2>2, UnmovedCharged, ZenonT(60)
<1> QED
  BY <1>1, <1>2, SMTT(30)

(* As long as tasks get into containers by Run and by fork alone, and not  *)
(* by Enter, each is charged to its own container or to an ancestor of it, *)
(* also in the middle of a Run, when a Run fails and when its caller dies. *)
THEOREM RunIsCharged ==
    ASSUME "enter" \notin Calls
    PROVE  Spec => []ChargedToAncestor
<1>1. Init => Charged
  BY Trees, NameAssumption DEF Init, KernelInit, Charged, Idle
<1>2. Inv /\ Charged /\ [Next]_vars => Charged'
  <2> SUFFICES ASSUME Inv, Charged, [Next]_vars PROVE Charged'
    OBVIOUS
  <2>1. CASE UNCHANGED vars
    BY <2>1, UnmovedCharged DEF vars, kernel
  <2>2. CASE Next
    BY <2>2, TaskStepCharged, CallCharged, EnterCharged, StepCharged, SMTT(30) DEF Next
  <2> QED
    BY <2>1, <2>2
<1>3. Inv /\ Charged => ChargedToAncestor
  BY DEF Inv, KernelTypeOK, Charged, ChargedToAncestor
<1> QED
  BY <1>1, <1>2, <1>3, InvHolds, PTL DEF Spec

-----------------------------------------------------------------------------
(* The CgroupFactory that mounts and detects the hierarchies the trees are *)
(* in, for every set of hierarchies, mount points and requests.            *)
Agreement == FactoryTypeOK /\ FactoryAgreesWithKernel

(* Appending a mount keeps the earlier ones: what mount(2) does to         *)
(* /proc/mounts.                                                           *)
LEMMA AppendMount ==
  ASSUME NEW S, NEW s \in Seq(S), NEW e \in S
  PROVE  /\ Append(s, e) \in Seq(S)
         /\ DOMAIN Append(s, e) = DOMAIN s \cup {Len(s) + 1}
         /\ \A i \in DOMAIN s : Append(s, e)[i] = s[i]
         /\ Append(s, e)[Len(s) + 1] = e
         /\ Len(s) + 1 \notin DOMAIN s
  OBVIOUS

(* A line of /proc/mounts is an element of the sequence's set.             *)
LEMMA LineTyped ==
  ASSUME NEW S, NEW s \in Seq(S), NEW i \in DOMAIN s
  PROVE  s[i] \in S
  OBVIOUS

(* A hierarchy the new factory knows has the path of the mount it was      *)
(* found in: CgroupFactory::New and the constructor.                       *)
LEMMA NewAgrees ==
  ASSUME Agreement, New
  PROVE  Agreement'
<1>1. PICK seen \in Readable :
        \E line \in [UNION {mounts[i].hs : i \in seen} -> seen] :
           /\ \A h \in UNION {mounts[i].hs : i \in seen} : FirstWith(line[h], seen, h)
           /\ mount_paths' = FromMounts(line)
  BY Zenon DEF New
<1> DEFINE found == UNION {mounts[i].hs : i \in seen}
<1>2. PICK line \in [found -> seen] :
        /\ \A h \in found : FirstWith(line[h], seen, h)
        /\ mount_paths' = FromMounts(line)
  BY <1>1, Zenon
<1>3. mounts' = mounts
  BY DEF New
<1>4. seen \subseteq DOMAIN mounts
  BY DEF Readable
<1>5. /\ mounts \in Seq(Line)
      /\ \A i \in DOMAIN mounts : mounts[i] \in Line
  <2>1. mounts \in Seq(Line)
    BY DEF Agreement, FactoryTypeOK
  <2> QED
    BY <2>1, LineTyped, Zenon
<1>6. found \subseteq Hierarchy
  BY <1>4, <1>5 DEF Line
<1>7. /\ DOMAIN line = found
      /\ \A h \in found : line[h] \in DOMAIN mounts
  BY <1>4
<1> HIDE DEF found
<1>8. /\ Known' = found
      /\ \A h \in found : /\ mount_paths'[h] \in MountPoint
                          /\ mount_paths'[h].path = mounts[line[h]].path
  BY <1>2, <1>5, <1>7 DEF FromMounts, MountPoint, Known,
     Line
<1>9. mount_paths' \in [Known' -> MountPoint]
  BY <1>2, <1>7, <1>8 DEF FromMounts
<1>10. FactoryTypeOK'
  BY <1>3, <1>5, <1>6, <1>8, <1>9, SMTT(30) DEF FactoryTypeOK
<1>11. FactoryAgreesWithKernel'
  BY <1>2, <1>3, <1>7, <1>8, SMTT(30)
     DEF FactoryAgreesWithKernel, FirstWith
<1> QED
  BY <1>10, <1>11 DEF Agreement

(* What Mount leaves behind: the new line of /proc/mounts and the entries  *)
(* saved for the hierarchies it mounted.                                   *)
LEMMA MountSaves ==
  ASSUME FactoryTypeOK, NEW p \in Path, NEW req \in Request,
         Mount(p, req)
  PROVE  /\ FactoryTypeOK'
         /\ DOMAIN mounts' = DOMAIN mounts \cup {Len(mounts) + 1}
         /\ \A i \in DOMAIN mounts : mounts'[i] = mounts[i]
         /\ mounts'[Len(mounts) + 1] = [path |-> p, hs |-> Asked(req) \ Known]
         /\ Known' = Known \cup Asked(req)
         /\ \A h \in Known : mount_paths'[h] = mount_paths[h]
         /\ \A h \in Asked(req) \ Known : mount_paths'[h].path = p
<1>1. Asked(req) \subseteq Hierarchy
  BY FactoryAssumption DEF Asked
<1>2. [path |-> p, hs |-> Asked(req) \ Known] \in Line
  BY <1>1, SMTT(30) DEF Mount, Line
<1>3. /\ mounts' \in Seq(Line)
      /\ DOMAIN mounts' = DOMAIN mounts \cup {Len(mounts) + 1}
      /\ \A i \in DOMAIN mounts : mounts'[i] = mounts[i]
      /\ mounts'[Len(mounts) + 1] = [path |-> p, hs |-> Asked(req) \ Known]
  BY <1>2, AppendMount DEF FactoryTypeOK, Mount
<1>4. mount_paths' = Saved(p, req)
  BY SMTT(30) DEF Mount
<1>5. /\ Known' = Known \cup Asked(req)
      /\ \A h \in Known : mount_paths'[h] = mount_paths[h]
      /\ \A h \in Asked(req) \ Known :
            mount_paths'[h] = [path |-> p, owns |-> h = req[1]]
  BY <1>4, SMTT(30) DEF Saved, Known
<1>6. mount_paths' \in [Known' -> MountPoint]
  BY <1>4, <1>5 DEF Saved, MountPoint, FactoryTypeOK
<1> QED
  BY <1>1, <1>3, <1>5, <1>6 DEF FactoryTypeOK

(* Agreement with the kernel is kept by every step of the factory.         *)
LEMMA AgreementKept ==
  ASSUME Agreement, [FactoryNext]_factory_vars
  PROVE  Agreement'
<1>1. CASE New
  BY <1>1, NewAgrees, SMTT(30)
<1>2. CASE \E p \in Path, req \in Request : Mount(p, req)
  <2>1. PICK p \in Path, req \in Request : Mount(p, req)
    BY <1>2, SMTT(30)
  <2> DEFINE last == Len(mounts) + 1
  <2>2. /\ FactoryTypeOK'
        /\ DOMAIN mounts' = DOMAIN mounts \cup {last}
        /\ \A i \in DOMAIN mounts : mounts'[i] = mounts[i]
        /\ mounts'[last] = [path |-> p, hs |-> Asked(req) \ Known]
        /\ Known' = Known \cup Asked(req)
        /\ \A h \in Known : mount_paths'[h] = mount_paths[h]
        /\ \A h \in Asked(req) \ Known : mount_paths'[h].path = p
    BY <2>1, MountSaves, ZenonT(60) DEF Agreement
  <2> HIDE DEF last
  <2>3. ASSUME NEW h \in Known'
        PROVE  \E i \in DOMAIN mounts' :
                  h \in mounts'[i].hs /\ mounts'[i].path = mount_paths'[h].path
    <3>1. CASE h \in Known
      BY <2>2, <3>1 DEF Agreement, FactoryAgreesWithKernel
    <3>2. CASE h \in Asked(req) \ Known
      <4>1. h \in mounts'[last].hs /\ mounts'[last].path = mount_paths'[h].path
        BY <2>2, <3>2
      <4> QED
        BY <2>2, <4>1, SMTT(30)
    <3> QED
      BY <2>2, <3>1, <3>2
  <2> QED
    BY <2>2, <2>3 DEF Agreement, FactoryAgreesWithKernel
<1>3. CASE UNCHANGED factory_vars
  BY <1>3 DEF Agreement, FactoryTypeOK, FactoryAgreesWithKernel,
     Known, factory_vars
<1> QED
  BY <1>1, <1>2, <1>3 DEF FactoryNext

(* Before anything is mounted the factory knows nothing.                   *)
LEMMA AgreementInit == FactoryInit => Agreement
  BY DEF FactoryInit, Agreement, FactoryTypeOK, FactoryAgreesWithKernel,
     Known, MountPoint

(* Whatever is mounted, detected or hidden, in any order, a path the       *)
(* factory holds for a hierarchy is one where the kernel has it.           *)
THEOREM KernelAgreement ==
  FactorySpec => []FactoryAgreesWithKernel
<1>1. FactorySpec => []Agreement
  BY AgreementInit, AgreementKept, PTL DEF FactorySpec
<1> QED
  BY <1>1, PTL DEF Agreement

(* The same invariant gives the types.                                     *)
THEOREM FactoryTypes ==
  FactorySpec => []FactoryTypeOK
<1>1. FactorySpec => []Agreement
  BY AgreementInit, AgreementKept, PTL DEF FactorySpec
<1> QED
  BY <1>1, PTL DEF Agreement

-----------------------------------------------------------------------------
(* A factory that reads every mount knows every mounted hierarchy, at the  *)
(* path it is mounted at.  OneHomePerHierarchy is not inductive without    *)
(* this: Mount refuses only what the factory knows.                        *)
Complete ==
    \A i \in DOMAIN mounts : \A h \in mounts[i].hs :
        h \in Known /\ mount_paths[h].path = mounts[i].path

Detected == Agreement /\ Complete

(* Completeness is kept by every step of the factory when no mount is      *)
(* hidden from New.                                                        *)
LEMMA CompleteKept ==
  ASSUME ~MayHide, Detected, [FactoryNext]_factory_vars
  PROVE  Detected'
<1>0. Agreement'
  BY AgreementKept, SMTT(30) DEF Detected
<1>1. CASE New
  <2>1. PICK line \in [UNION {mounts[i].hs : i \in DOMAIN mounts} -> DOMAIN mounts] :
           /\ \A h \in UNION {mounts[i].hs : i \in DOMAIN mounts} :
                 FirstWith(line[h], DOMAIN mounts, h)
           /\ mount_paths' = FromMounts(line)
    BY <1>1, ZenonT(60) DEF New, Readable
  <2>2. mounts' = mounts
    BY <1>1 DEF New
  <2>3. ASSUME NEW i \in DOMAIN mounts, NEW h \in mounts[i].hs
        PROVE  h \in Known' /\ mount_paths'[h].path = mounts[i].path
    <3>1. h \in DOMAIN line
      BY <2>1
    <3>2. line[h] \in DOMAIN mounts /\ h \in mounts[line[h]].hs
      BY <2>1, <3>1 DEF FirstWith
    <3>3. mounts[line[h]].path = mounts[i].path
      BY <3>2, SMTT(30) DEF Detected, Complete
    <3>4. h \in Known' /\ mount_paths'[h].path = mounts[line[h]].path
      BY <2>1, <3>1, SMTT(30) DEF FromMounts, Known
    <3> QED
      BY <3>3, <3>4
  <2> QED
    BY <1>0, <2>2, <2>3, SMTT(30) DEF Detected, Complete
<1>2. CASE \E p \in Path, req \in Request : Mount(p, req)
  <2>1. PICK p \in Path, req \in Request : Mount(p, req)
    BY <1>2, SMTT(30)
  <2> DEFINE last == Len(mounts) + 1
  <2>2. /\ DOMAIN mounts' = DOMAIN mounts \cup {last}
        /\ \A i \in DOMAIN mounts : mounts'[i] = mounts[i]
        /\ mounts'[last] = [path |-> p, hs |-> Asked(req) \ Known]
        /\ Known' = Known \cup Asked(req)
        /\ \A h \in Known : mount_paths'[h] = mount_paths[h]
        /\ \A h \in Asked(req) \ Known : mount_paths'[h].path = p
    BY <2>1, MountSaves, ZenonT(60) DEF Detected, Agreement
  <2> HIDE DEF last
  <2>3. ASSUME NEW i \in DOMAIN mounts', NEW h \in mounts'[i].hs
        PROVE  h \in Known' /\ mount_paths'[h].path = mounts'[i].path
    <3>1. CASE i \in DOMAIN mounts
      BY <2>2, <3>1 DEF Detected, Complete
    <3>2. CASE i = last
      BY <2>2, <3>2
    <3> QED
      BY <2>2, <3>1, <3>2
  <2> QED
    BY <1>0, <2>3 DEF Detected, Complete
<1>3. CASE UNCHANGED factory_vars
  BY <1>0, <1>3 DEF Detected, Complete, Known, factory_vars
<1> QED
  BY <1>1, <1>2, <1>3 DEF FactoryNext

(* When every mount is readable, no sequence of mounts and restarts gives  *)
(* a hierarchy two paths: Mount's "already mounted" test is enough.        *)
THEOREM OneHome ==
  ASSUME ~MayHide
  PROVE  FactorySpec => []OneHomePerHierarchy
<1>1. FactoryInit => Detected
  BY AgreementInit DEF FactoryInit, Detected, Complete
<1>2. Detected /\ [FactoryNext]_factory_vars => Detected'
  BY CompleteKept
<1>3. Detected => OneHomePerHierarchy
  BY DEF Detected, Complete, OneHomePerHierarchy
<1> QED
  BY <1>1, <1>2, <1>3, PTL DEF FactorySpec

(* A request that names no hierarchy twice.  Mount does not look: one that *)
(* does is counted twice, and stands in for a mounted one it leaves out.   *)
NamesOnce(req) == \A i, j \in DOMAIN req : req[i] = req[j] => i = j

(* existing_mounts_missing is 0 only if the request names everything that  *)
(* is mounted at the path: the positions that name a known hierarchy go    *)
(* one to one to those, and are as many.                                   *)
LEMMA CountIsComparison ==
  ASSUME FactoryTypeOK, NEW p \in Path, NEW req \in Request,
         NamesOnce(req), Accepts(p, req)
  PROVE  Here(p) \subseteq Asked(req)
<1> DEFINE known == {i \in DOMAIN req : req[i] \in Known}
           f == [i \in known |-> req[i]]
<1>1. IsFiniteSet(Here(p))
  BY FactoryAssumption, FS_Subset, Zenon DEF FactoryTypeOK, Here
<1>2. f \in Injection(known, Here(p))
  BY DEF Injection, IsInjective, NamesOnce, Accepts, Asked
<1>3. f \in Surjection(known, Here(p))
  <2>1. Cardinality(Here(p)) = Cardinality(known)
    BY DEF Accepts
  <2> QED
    BY <1>1, <1>2, <2>1, FS_Injection
<1> QED
  BY <1>3, Zenon DEF Surjection, Asked

(* When every mount is readable and no request names a hierarchy twice,    *)
(* nothing is mounted over a mount that the request does not name in full. *)
THEOREM MountsOnTopTogether ==
  ASSUME ~MayHide, \A req \in Request : NamesOnce(req)
  PROVE  FactorySpec => OnTopOnlyTogether
<1> DEFINE Covers == \A p \in Path, req \in Request :
                        Mount(p, req) => \A i \in DOMAIN mounts :
                           mounts[i].path = p => mounts[i].hs \subseteq Asked(req)
<1>1. FactoryInit => Detected
  BY AgreementInit DEF FactoryInit, Detected, Complete
<1>2. Detected /\ [FactoryNext]_factory_vars => Detected'
  BY CompleteKept
<1>3. Detected => Covers
  <2> SUFFICES ASSUME Detected, NEW p \in Path, NEW req \in Request,
                      Mount(p, req), NEW i \in DOMAIN mounts,
                      mounts[i].path = p
               PROVE  mounts[i].hs \subseteq Here(p)
    BY CountIsComparison DEF Detected, Agreement, Mount
  <2> QED
    BY SMTT(30) DEF Detected, Complete, Here
<1> QED
  BY <1>1, <1>2, <1>3, PTL DEF FactorySpec, OnTopOnlyTogether
=============================================================================
