--------------------------- MODULE ContainerProofs ---------------------------
(***************************************************************************)
(* Proofs about ContainerLifecycle, for any set of names, hierarchies,     *)
(* tasks and clients.                                                      *)
(***************************************************************************)
EXTENDS ContainerLifecycle, TLAPS

(* What holds of a client's local state at each step of an operation.      *)
Coherent(s) ==
    /\ s.pc = "idle" => s.op = "none"
    /\ s.pc = "enter" => s.op \in {"enter", "run"}
    /\ s.pc \in {"mkdir", "config", "finish"} => s.op = "create"
    /\ s.pc \in {"delete", "rmdir"} => s.op \in {"create", "destroy"}
    /\ s.pc \in {"attach", "next", "handlers"} => s.op = "destroy"
    /\ s.pc \in {"list", "signal"} => s.op \in {"destroy", "killall"}
    /\ s.pc = "signal" => s.tries # 0
    /\ s.op \in {"create", "destroy"} => s.hs \subseteq ResTree
    /\ s.op = "create" =>
          /\ s.cur = s.target
          /\ s.pc \in {"delete", "rmdir"} => s.hs \subseteq s.made
    /\ s.op = "destroy" =>
          /\ s.target \in s.todo
          /\ s.todo \subseteq Under[s.target]
          /\ \/ s.pc \in {"attach", "next"}
             \/ /\ s.cur \in s.todo
                /\ \A y \in s.todo : Order[y] <= Order[s.cur]
    /\ s.pc = "rmdir" =>
          /\ s.cur \in s.rm
          /\ s.rm \subseteq Under[s.cur]
          /\ s.tree \in s.hs \/ (s.tree = 0 /\ s.hs = {})

Good == {s \in Local : Coherent(s)}

(* The inductive invariant behind the type invariant.                      *)
Inv == KernelTypeOK /\ cl \in [Client -> Good]

-----------------------------------------------------------------------------
(* The resource hierarchies are hierarchies, and tree 0 is not one of them.*)
LEMMA Trees == ResTree \subseteq Tree /\ 0 \in Tree /\ 0 \notin ResTree
BY TreeAssumption DEF Tree, ResTree

(* num_tries starts within its range.                                      *)
LEMMA Tries == MaxTries \in 0..MaxTries /\ 0 \in 0..MaxTries
BY ClientAssumption

(* A client at rest is well typed; Pid is not empty.                       *)
LEMMA IdleGood == Idle \in Good
<1>1. (CHOOSE p \in Pid : TRUE) \in Pid
  BY TreeAssumption
<1>2. Root \in Name
  BY NameAssumption
<1>3. Idle \in Local
  BY <1>1, <1>2, Trees, Tries DEF Idle, Local, PC, Op, Admin
<1> QED
  BY <1>3 DEF Good, Coherent, Idle

(* So is one whose operation has just returned.                            *)
LEMMA DoneGood ==
    ASSUME NEW r \in {"ok", "error"}
    PROVE  Done(r) \in Good
<1>1. Done(r) \in Local
  BY IdleGood DEF Done, Good, Local
<1> QED
  BY <1>1, ZenonT(60) DEF Done, Idle, Good, Coherent

(* One that has just called an operation has the fields of Begin.          *)
LEMMA BeginTyped ==
    ASSUME NEW o \in Op, NEW n \in Name, NEW w \in PC
    PROVE  /\ Begin(o, n, w) \in Local
           /\ Begin(o, n, w).pc = w /\ Begin(o, n, w).op = o
           /\ Begin(o, n, w).target = n /\ Begin(o, n, w).cur = n
           /\ Begin(o, n, w).hs = {}
BY IdleGood, ZenonT(60) DEF Begin, Idle, Good, Local

(* Failing to delete tree k, in Destroy or in the rollback of Create.      *)
LEMMA DeleteFailedGood ==
    ASSUME NEW me \in Good, NEW k \in Tree, me.pc \in {"delete", "rmdir"}
    PROVE  DeleteFailed(me, k) \in Good
<1> DEFINE e == [Done("error") EXCEPT
                   !.released = k = 0 /\ ~JobMounted /\ me.cur = me.target]
           s == [me EXCEPT !.hs = {j \in @ : ResOf[j] # ResOf[k]}, !.rm = {},
                           !.pc = "delete"]
<1>1. Done("error") \in Good
  BY DoneGood
<1>2. e \in Local
  BY <1>1, ZenonT(60) DEF Good, Local
<1>3. e \in Good
  BY <1>2, ZenonT(60) DEF Good, Coherent, Done, Idle
<1>4. s \in Local
  BY ZenonT(60) DEF Good, Local, PC
<1>5. s \in Good
  BY <1>4, ZenonT(60) DEF Good, Coherent, Local
<1> QED
  BY <1>1, <1>3, <1>5 DEF DeleteFailed

(* Having deleted tree k.                                                  *)
LEMMA TreeDeletedGood ==
    ASSUME NEW me \in Good, me.pc = "rmdir"
    PROVE  TreeDeleted(me, me.tree) \in Good
<1> DEFINE s == [me EXCEPT !.hs = @ \ {me.tree}, !.rm = {}, !.pc = "delete"]
           t == [me EXCEPT !.todo = @ \ {me.cur}, !.rm = {}, !.pc = "next"]
<1>1. Done("error") \in Good /\ Done("ok") \in Good
  BY DoneGood
<1>2. s \in Local /\ t \in Local
  BY ZenonT(60) DEF Good, Local, PC
<1>3. s \in Good
  BY <1>2, ZenonT(60) DEF Good, Coherent, Local
<1>4. ASSUME me.op # "create", me.todo # {me.cur}
      PROVE  t \in Good
  <2>1. me.op = "destroy" /\ me.target \in Name /\ me.todo \subseteq Name
    BY <1>4 DEF Good, Coherent, Local
  <2>2. /\ me.todo \subseteq Under[me.target]
        /\ \A y \in me.todo : Order[y] <= Order[me.cur]
        /\ me.target \in me.todo /\ me.cur \in me.todo
    BY <2>1 DEF Good, Coherent
  <2>3. PICK y \in me.todo : y # me.cur
    BY <1>4, <2>2
  <2>4. me.cur # me.target
    <3> SUFFICES ASSUME me.cur = me.target PROVE FALSE
      OBVIOUS
    <3>1. Order[me.target] < Order[y]
      BY <2>1, <2>2, <2>3, NameAssumption
    <3>2. Order[y] \in Nat /\ Order[me.target] \in Nat
      BY <2>1, NameAssumption
    <3> QED
      BY <2>2, <3>1, <3>2
  <2> QED
    BY <1>2, <2>1, <2>2, <2>4, ZenonT(60) DEF Good, Coherent, Local
<1> QED
  BY <1>1, <1>3, <1>4 DEF TreeDeleted

(* Having killed all processes, or all threads.                            *)
LEMMA KilledGood ==
    ASSUME NEW me \in Good, me.pc = "list"
    PROVE  Killed(me) \in Good
<1> DEFINE s == [me EXCEPT !.pass = 2, !.tries = MaxTries]
           t == [me EXCEPT !.pc = "handlers", !.pass = 1, !.tries = 0]
<1>1. Done("ok") \in Good
  BY DoneGood
<1>2. s \in Local /\ t \in Local
  BY Tries, ZenonT(60) DEF Good, Local, PC
<1>3. s \in Good
  BY <1>2, ZenonT(60) DEF Good, Coherent, Local
<1>4. me.op # "killall" => t \in Good
  BY <1>2, ZenonT(60) DEF Good, Coherent, Local
<1> QED
  BY <1>1, <1>3, <1>4 DEF Killed

(* Having resolved the handlers to enter.                                  *)
LEMMA EnteringGood ==
    ASSUME NEW o \in {"enter", "run"}, NEW n \in Name, NEW p \in Pid,
           NEW s \in Entering(o, n, p)
    PROVE  s \in Good
<1>1. /\ Begin(o, n, "enter") \in Local
      /\ Begin(o, n, "enter").pc = "enter" /\ Begin(o, n, "enter").op = o
  BY BeginTyped DEF PC, Op
<1>2. PICK h \in [ResTree -> Name] :
         s = [Begin(o, n, "enter") EXCEPT !.hs = Tree, !.who = p, !.home = h]
  BY Zenon DEF Entering
<1>3. s \in Local
  BY <1>1, <1>2, Zenon DEF Local
<1>4. s.pc = "enter" /\ s.op = o
  BY <1>1, <1>2 DEF Local
<1> QED
  BY <1>3, <1>4 DEF Good, Coherent

-----------------------------------------------------------------------------
(* Updating one client with a good state keeps all good.                   *)
LEMMA BecomeGood ==
    ASSUME cl \in [Client -> Good], NEW c \in Client, NEW s \in Good,
           Become(c, s)
    PROVE  cl' \in [Client -> Good]
BY DEF Become

(* The kernel state stays well typed when a task disappears.               *)
LEMMA GoneTyped ==
    ASSUME KernelTypeOK, NEW p \in Pid, Gone(p), UNCHANGED <<dirs, frozen>>
    PROVE  KernelTypeOK'
<1>1. at' \in [Tree -> [Pid -> Name]]
  BY NameAssumption DEF KernelTypeOK, Gone
<1> QED
  BY <1>1 DEF KernelTypeOK, Gone

(* Inv is preserved by a step of a task.                                   *)
LEMMA TaskStepInv ==
    ASSUME Inv, TaskStep
    PROVE  Inv'
<1> USE DEF Inv
<1>1. ASSUME NEW p \in Pid, Exit(p), UNCHANGED cl
      PROVE  Inv'
  BY <1>1, GoneTyped DEF Exit
<1>2. ASSUME NEW p \in Pid, NEW q \in Pid, Fork(p, q), UNCHANGED cl
      PROVE  Inv'
  <2>1. at' \in [Tree -> [Pid -> Name]]
    BY <1>2 DEF KernelTypeOK, Fork
  <2> QED
    BY <1>2, <2>1 DEF KernelTypeOK, Fork
<1> QED
  BY <1>1, <1>2 DEF TaskStep

(* Inv is preserved by a call of any operation.                            *)
LEMMA CallInv ==
    ASSUME Inv, NEW c \in Client, Call(c)
    PROVE  Inv'
<1> USE DEF Inv
<1>1. ASSUME NEW n \in Name, NEW spec \in Specs, Create(c, n, spec)
      PROVE  Inv'
  <2> DEFINE w == IF spec = {} THEN "finish" ELSE "mkdir"
             b == Begin("create", n, w)
             s == [b EXCEPT !.hs = {k \in ResTree : ResOf[k] \in spec}]
  <2>1. b \in Local /\ b.pc = w /\ b.op = "create" /\ b.target = n /\ b.cur = n
    BY BeginTyped DEF PC, Op, Admin
  <2>2. s \in Local
    BY <2>1, Trees DEF Local
  <2>3. s \in Good
    BY <2>1, <2>2 DEF Good, Coherent, Local
  <2>4. cl' \in [Client -> Good]
    BY <1>1, <2>3, BecomeGood DEF Create
  <2>5. KernelTypeOK'
    BY <1>1, Zenon DEF Create, MkDir, KernelTypeOK
  <2> QED
    BY <2>4, <2>5
<1>2. ASSUME NEW n \in Name, Destroy(c, n)
      PROVE  Inv'
  <2> DEFINE b == Begin("destroy", n, "attach")
             s == [b EXCEPT !.todo = dirs[0] \cap Under[n]]
  <2>1. /\ b \in Local /\ b.pc = "attach" /\ b.op = "destroy"
        /\ b.target = n /\ b.hs = {}
    BY BeginTyped DEF PC, Op, Admin
  <2>2. s \in Local
    BY <2>1, NameAssumption, ZenonT(60) DEF Local
  <2>3. n \in dirs[0] \cap Under[n]
    BY <1>2, NameAssumption DEF Destroy
  <2>4. s \in Good
    BY <2>1, <2>2, <2>3, SMTT(30) DEF Good, Coherent, Local
  <2> QED
    BY <1>2, <2>4, BecomeGood DEF Destroy, kernel, KernelTypeOK
<1>3. ASSUME NEW n \in Name, KillAll(c, n)
      PROVE  Inv'
  <2> DEFINE b == Begin("killall", n, "list")
             s == [b EXCEPT !.tries = MaxTries]
  <2>1. b \in Local /\ b.pc = "list" /\ b.op = "killall"
    BY BeginTyped DEF PC, Op, Admin
  <2>2. s \in Local
    BY <2>1, Tries DEF Local
  <2>3. s \in Good
    BY <2>1, <2>2, SMTT(60) DEF Good, Coherent, Local
  <2> QED
    BY <1>3, <2>3, BecomeGood DEF KillAll, kernel, KernelTypeOK
<1>4. ASSUME NEW n \in Name, Pause(c, n) \/ Resume(c, n)
      PROVE  Inv'
  BY <1>4 DEF Pause, Resume, SetFreezerState, KernelTypeOK
<1>5. ASSUME NEW n \in Name, NEW p \in Pid, Enter(c, n, p)
      PROVE  Inv'
  <2>1. PICK s \in Entering("enter", n, p) : Become(c, s)
    BY <1>5 DEF Enter
  <2>2. s \in Good
    BY EnteringGood
  <2> QED
    BY <1>5, <2>1, <2>2, BecomeGood DEF Enter, kernel, KernelTypeOK
<1>6. ASSUME NEW n \in Name, NEW p \in Pid, Run(c, n, p)
      PROVE  Inv'
  <2>1. PICK s \in Entering("run", n, p) : Become(c, s)
    BY <1>6 DEF Run
  <2>2. s \in Good
    BY EnteringGood
  <2> QED
    BY <1>6, <2>1, <2>2, BecomeGood DEF Run, KernelTypeOK
<1> QED
  BY <1>1, <1>2, <1>3, <1>4, <1>5, <1>6 DEF Call

(* Inv is preserved by the steps of Create.                                *)
LEMMA CreateStepInv ==
    ASSUME Inv, NEW c \in Client,
           MkDirTree(c) \/ Configure(c) \/ FinishCreate(c)
    PROVE  Inv'
<1> DEFINE me == cl[c]
<1> USE DEF Inv
<1>a. me \in Good /\ me \in Local /\ me.op = "create"
  BY ZenonT(60) DEF MkDirTree, Configure, FinishCreate, Good, Coherent
<1>b. me.hs \subseteq ResTree /\ me.cur = me.target /\ me.target \in Name
  BY <1>a DEF Good, Coherent, Local
<1>c. ASSUME NEW h \in SUBSET me.made
      PROVE  Rollback(me, h) \in Good
  <2>1. h \subseteq ResTree /\ h \subseteq Tree
    BY <1>a, Trees DEF Local
  <2>2. Rollback(me, h) \in Local
    BY <1>a, <2>1, Zenon DEF Rollback, Local, PC
  <2> QED
    BY <1>a, <1>b, <2>1, <2>2, ZenonT(60) DEF Good, Coherent, Rollback, Local
<1>1. CASE MkDirTree(c)
  <2> DEFINE t(k) == [me EXCEPT
               !.tree = k, !.made = @ \cup {k}, !.hs = @ \ {k},
               !.pc = IF \E j \in me.hs \ {k} : ResOf[j] = ResOf[k]
                      THEN "mkdir" ELSE "config"]
  <2>1. PICK k \in me.hs :
          \/ MkDir(k, me.target) /\ Become(c, t(k))
          \/ Become(c, Rollback(me, CompleteBefore(me, k))) /\ UNCHANGED dirs
    BY <1>1, Zenon DEF MkDirTree
  <2>2. k \in ResTree /\ k \in Tree
    BY <1>b, <2>1, Trees, SMTT(60)
  <2>3. t(k) \in Local
    BY <1>a, <2>2, ZenonT(60) DEF Local, PC
  <2>4. t(k) \in Good
    <3>1. /\ t(k).pc \in {"mkdir", "config"}
          /\ t(k).op = "create" /\ t(k).cur = t(k).target
          /\ t(k).hs \subseteq ResTree
      BY <1>a, <1>b DEF Local
    <3> QED
      BY <2>3, <3>1, Zenon DEF Good, Coherent
  <2>5. Rollback(me, CompleteBefore(me, k)) \in Good
    BY <1>c DEF CompleteBefore
  <2>6. cl' \in [Client -> Good]
    BY <2>1, <2>4, <2>5, BecomeGood
  <2>7. dirs' \in [Tree -> SUBSET Name]
    BY <1>b, <2>1 DEF MkDir, KernelTypeOK
  <2> QED
    BY <1>1, <2>6, <2>7, ZenonT(60) DEF MkDirTree, KernelTypeOK
<1>2. CASE Configure(c)
  <2> DEFINE t == [me EXCEPT !.pc = IF me.hs = {} THEN "finish" ELSE "mkdir"]
  <2>1. t \in Local
    BY <1>a, SMTT(30) DEF Local, PC
  <2>2. t \in Good
    <3>1. /\ t.pc \in {"finish", "mkdir"}
          /\ t.op = "create" /\ t.cur = t.target
          /\ t.hs \subseteq ResTree
      BY <1>a, <1>b DEF Local
    <3> HIDE DEF t
    <3> QED
      BY <2>1, <3>1, Zenon DEF Good, Coherent
  <2>3. Rollback(me, CompleteBefore(me, me.tree)) \in Good
    BY <1>c DEF CompleteBefore
  <2>4. cl' \in [Client -> Good]
    BY <1>2, <2>2, <2>3, BecomeGood DEF Configure
  <2> QED
    BY <1>2, <2>4 DEF Configure, kernel, KernelTypeOK
<1>3. CASE FinishCreate(c)
  BY <1>3, <1>c, DoneGood, BecomeGood DEF FinishCreate, kernel, KernelTypeOK
<1> QED
  BY <1>1, <1>2, <1>3

(* Inv is preserved by the steps that delete a tree.                       *)
LEMMA DeleteStepInv ==
    ASSUME Inv, NEW c \in Client, ListTree(c) \/ DeleteDir(c)
    PROVE  Inv'
<1> DEFINE me == cl[c]
<1> USE DEF Inv
<1>a. /\ me \in Good /\ me \in Local
      /\ me.pc \in {"delete", "rmdir"}
      /\ me.op \in {"create", "destroy"}
      /\ me.cur \in Name /\ me.target \in Name
  BY ZenonT(60) DEF ListTree, DeleteDir, Good, Coherent, Local
<1>1. CASE ListTree(c)
  <2> DEFINE t(k) == [me EXCEPT !.tree = k, !.pc = "rmdir",
                                !.rm = ToDelete(k, me.cur)]
  <2>1. PICK k \in Tree :
          /\ NextTree(me, k)
          /\ \/ me.cur \in dirs[k] /\ Become(c, t(k))
             \/ Become(c, DeleteFailed(me, k))
    BY <1>1, Zenon DEF ListTree
  <2>a. /\ ToDelete(k, me.cur) \subseteq Name
        /\ ToDelete(k, me.cur) \subseteq Under[me.cur]
        /\ me.cur \in dirs[k] => me.cur \in ToDelete(k, me.cur)
    BY <1>a, NameAssumption DEF ToDelete, KernelTypeOK
  <2>2. t(k) \in Local
    BY <1>a, <2>a, Zenon DEF Local, PC
  <2>3. k \in me.hs \/ (k = 0 /\ me.hs = {})
    BY <2>1 DEF NextTree, First, FromBack
  <2>4. me.cur \in dirs[k] => t(k) \in Good
    BY <1>1, <1>a, <2>a, <2>2, <2>3, ZenonT(60) DEF Good, Coherent, Local, ListTree
  <2>5. DeleteFailed(me, k) \in Good
    BY <1>a, DeleteFailedGood
  <2>6. cl' \in [Client -> Good]
    BY <2>1, <2>4, <2>5, BecomeGood
  <2> QED
    BY <1>1, <2>6, ZenonT(60) DEF ListTree, kernel, KernelTypeOK
<1>2. CASE DeleteDir(c)
  <2>1. PICK m \in me.rm :
          /\ me.rm \cap Under[m] = {m}
          /\ \/ /\ RmDir(me.tree, m)
                /\ Become(c, IF me.rm = {m} THEN TreeDeleted(me, me.tree)
                             ELSE [me EXCEPT !.rm = @ \ {m}])
             \/ /\ Become(c, DeleteFailed(me, me.tree))
                /\ UNCHANGED <<dirs, frozen>>
    BY <1>2, Zenon DEF DeleteDir
  <2>2. me.pc = "rmdir" /\ me.tree \in Tree
    BY <1>2, <1>a DEF DeleteDir, Local
  <2>3. me.cur \in me.rm /\ me.rm \subseteq Under[me.cur]
    BY <2>2 DEF Good, Coherent
  <2>4. TreeDeleted(me, me.tree) \in Good /\ DeleteFailed(me, me.tree) \in Good
    BY <1>a, <2>2, TreeDeletedGood, DeleteFailedGood
  <2>5. me.rm # {m} => m # me.cur
    BY <2>1, <2>3
  <2>6. [me EXCEPT !.rm = @ \ {m}] \in Local
    BY <1>a DEF Local
  <2>7. me.rm # {m} => [me EXCEPT !.rm = @ \ {m}] \in Good
    BY <1>a, <2>2, <2>5, <2>6, ZenonT(60) DEF Good, Coherent, Local
  <2>8. cl' \in [Client -> Good]
    BY <2>1, <2>4, <2>7, BecomeGood
  <2>9. dirs' \in [Tree -> SUBSET Name] /\ frozen' \subseteq Name
    BY <2>1 DEF RmDir, KernelTypeOK
  <2> QED
    BY <1>2, <2>8, <2>9 DEF DeleteDir, KernelTypeOK
<1> QED
  BY <1>1, <1>2, SMTT(60)

(* Inv is preserved by the steps of Destroy between the deletions.         *)
LEMMA DestroyStepInv ==
    ASSUME Inv, NEW c \in Client,
           Attach(c) \/ DestroyNext(c) \/ ResolveHandlers(c)
    PROVE  Inv'
<1> DEFINE me == cl[c]
<1> USE DEF Inv
<1>a. me \in Good /\ me \in Local /\ me.op = "destroy"
  BY Zenon DEF Attach, DestroyNext, ResolveHandlers, Good, Coherent
<1>b. Done("error") \in Good
  BY DoneGood
<1>c. UNCHANGED kernel
  BY Zenon DEF Attach, DestroyNext, ResolveHandlers
<1>1. CASE Attach(c)
  <2>1. [me EXCEPT !.pc = "next"] \in Local
    BY <1>a DEF Local, PC
  <2>2. [me EXCEPT !.pc = "next"] \in Good
    BY <1>a, <2>1, SMTT(60) DEF Good, Coherent, Local
  <2> QED
    BY <1>1, <1>b, <1>c, <2>2, BecomeGood DEF Attach, kernel, KernelTypeOK
<1>2. CASE DestroyNext(c)
  <2> DEFINE t(x) == [me EXCEPT !.cur = x, !.pc = "list",
                                !.pass = 1, !.tries = MaxTries]
  <2>1. PICK x \in me.todo :
          /\ \A y \in me.todo : Order[y] <= Order[x]
          /\ Become(c, t(x)) \/ Become(c, Done("error"))
    BY <1>2, Zenon DEF DestroyNext
  <2>2. t(x) \in Local
    BY <1>a, Tries, Zenon DEF Local, PC
  <2>3. t(x) \in Good
    BY <1>a, <2>1, <2>2, ZenonT(60) DEF Good, Coherent, Local
  <2> QED
    BY <1>b, <1>c, <2>1, <2>3, BecomeGood DEF kernel, KernelTypeOK
<1>3. CASE ResolveHandlers(c)
  <2> DEFINE t == [me EXCEPT !.pc = "delete",
                !.hs = {k \in ResTree : Isolates(me.cur, ResOf[k])}]
  <2>1. t \in Local
    BY <1>a, Trees, Zenon DEF Local, PC
  <2>2. t \in Good
    BY <1>3, <1>a, <2>1, ZenonT(60) DEF Good, Coherent, Local, ResolveHandlers
  <2> QED
    BY <1>3, <1>c, <2>2, BecomeGood DEF ResolveHandlers, kernel, KernelTypeOK
<1> QED
  BY <1>1, <1>2, <1>3

(* Inv is preserved by the kill loop; num_tries stays a natural number.    *)
LEMMA KillStepInv ==
    ASSUME Inv, NEW c \in Client, KillList(c) \/ Signal(c)
    PROVE  Inv'
<1> DEFINE me == cl[c]
<1> USE DEF Inv
<1>a. me \in Good /\ me \in Local
  BY DEF Good
<1>1. CASE KillList(c)
  <2> DEFINE t == [me EXCEPT !.lst = Listed(me), !.pc = "signal"]
  <2>1. Listed(me) \subseteq Pid
    BY DEF Listed, Tasks, KernelTypeOK
  <2>2. t \in Local
    BY <1>a, <2>1, Zenon DEF Local, PC
  <2>3. ~GivesUp(me) => t \in Good
    BY <1>1, <1>a, <2>2, ZenonT(60) DEF KillList, GivesUp, Good, Coherent, Local
  <2>4. Done("error") \in Good /\ Killed(me) \in Good
    BY <1>1, <1>a, DoneGood, KilledGood DEF KillList
  <2>5. cl' \in [Client -> Good]
    BY <1>1, <2>3, <2>4, BecomeGood DEF KillList
  <2> QED
    BY <1>1, <2>5 DEF KillList, kernel, KernelTypeOK
<1>2. CASE Signal(c)
  <2> DEFINE t == [me EXCEPT !.lst = {}, !.tries = @ - 1, !.pc = "list"]
  <2>1. me.tries \in 0..MaxTries /\ me.tries # 0 /\ me.pc = "signal"
    BY <1>2, <1>a DEF Signal, Good, Coherent, Local
  <2>2. me.tries - 1 \in 0..MaxTries
    BY <2>1, ClientAssumption
  <2>3. t \in Local
    BY <1>a, <2>2, Zenon DEF Local, PC
  <2>4. t \in Good
    BY <1>a, <2>1, <2>3, ZenonT(60) DEF Good, Coherent, Local
  <2>5. cl' \in [Client -> Good]
    BY <1>2, <2>4, BecomeGood DEF Signal
  <2>6. KernelTypeOK'
    BY <1>2 DEF Signal, KernelTypeOK
  <2> QED
    BY <2>5, <2>6
<1> QED
  BY <1>1, <1>2, SMTT(60)

(* Inv is preserved by writing a task to a tree, and by a crash.           *)
LEMMA EnterOrCrashInv ==
    ASSUME Inv, NEW c \in Client, EnterTree(c) \/ Crash(c)
    PROVE  Inv'
<1> DEFINE me == cl[c]
<1> USE DEF Inv
<1>a. /\ me \in Good /\ me \in Local
      /\ me.who \in Pid /\ me.target \in Name /\ me.home \in [ResTree -> Name]
      /\ me.hs \subseteq Tree
  BY DEF Good, Local
<1>1. CASE EnterTree(c)
  <2> DEFINE t(k) == [me EXCEPT !.hs = @ \ {k}]
             m(k) == IF k = 0 THEN me.target ELSE me.home[k]
  <2>1. PICK k \in me.hs :
          \/ /\ at' = [at EXCEPT ![k][me.who] = m(k)]
             /\ Become(c, Done("ok")) \/ Become(c, t(k))
             /\ UNCHANGED <<live, doomed>>
          \/ /\ Become(c, Done("error"))
             /\ Gone(me.who) \/ UNCHANGED <<at, live, doomed>>
    BY <1>1, Zenon DEF EnterTree
  <2>2. k \in Tree /\ m(k) \in Name
    BY <1>a, <2>1, TreeAssumption DEF Tree, ResTree
  <2>3. t(k) \in Local
    BY <1>a, SMTT(30) DEF Local
  <2>4. t(k) \in Good
    <3>1. me.pc = "enter" /\ me.op \in {"enter", "run"}
      BY <1>1, <1>a, Zenon DEF EnterTree, Good, Coherent
    <3>2. t(k).pc = "enter" /\ t(k).op \in {"enter", "run"}
      BY <1>a, <3>1 DEF Local
    <3> HIDE DEF t
    <3> QED
      BY <2>3, <3>2 DEF Good, Coherent
  <2>5. cl' \in [Client -> Good]
    BY <2>1, <2>4, DoneGood, BecomeGood
  <2>6. UNCHANGED <<dirs, frozen>>
    BY <1>1 DEF EnterTree
  <2>7. CASE at' = [at EXCEPT ![k][me.who] = m(k)] /\ UNCHANGED <<live, doomed>>
    BY <2>2, <2>5, <2>6, <2>7, Zenon DEF KernelTypeOK
  <2>8. CASE Gone(me.who)
    BY <1>a, <2>5, <2>6, <2>8, GoneTyped
  <2>9. CASE UNCHANGED <<at, live, doomed>>
    BY <2>5, <2>6, <2>9 DEF KernelTypeOK
  <2> QED
    BY <2>1, <2>7, <2>8, <2>9
<1>2. CASE Crash(c)
  <2>1. cl' \in [Client -> Good]
    BY <1>2, IdleGood, BecomeGood DEF Crash
  <2>2. UNCHANGED <<dirs, frozen>>
    BY <1>2 DEF Crash
  <2>3. Gone(me.who) \/ UNCHANGED <<at, live, doomed>>
    BY <1>2 DEF Crash
  <2> QED
    BY <1>a, <2>1, <2>2, <2>3, GoneTyped DEF KernelTypeOK
<1> QED
  BY <1>1, <1>2, SMTT(60)

(* Inv holds when the hierarchies are freshly mounted.                     *)
LEMMA InitInv == Init => Inv
BY IdleGood, NameAssumption, Trees DEF Init, KernelInit, Inv, KernelTypeOK

(* Every step preserves Inv.                                               *)
LEMMA NextInv == Inv /\ [Next]_vars => Inv'
<1> SUFFICES ASSUME Inv, [Next]_vars PROVE Inv'
  OBVIOUS
<1>1. CASE UNCHANGED vars
  BY <1>1 DEF Inv, KernelTypeOK, vars, kernel
<1>2. CASE TaskStep
  BY <1>2, TaskStepInv
<1>3. ASSUME NEW c \in Client, Call(c) \/ Step(c) \/ Crash(c)
      PROVE  Inv'
  BY <1>3, CallInv, CreateStepInv, DeleteStepInv, DestroyStepInv,
     KillStepInv, EnterOrCrashInv DEF Step
<1> QED
  BY <1>1, <1>2, <1>3 DEF Next

(* Every reachable state satisfies Inv.                                    *)
THEOREM InvHolds == Spec => []Inv
BY InitInv, NextInv, PTL DEF Spec

(* Every reachable state is well typed, for any constants.                 *)
THEOREM TypeCorrect == Spec => []TypeOK
<1>1. Inv => TypeOK
  BY DEF Inv, TypeOK, Good
<1> QED
  BY <1>1, InvHolds, PTL

-----------------------------------------------------------------------------
(* Become changes one client only.                                         *)
LEMMA BecomeOne ==
    ASSUME cl \in [Client -> Good], NEW c \in Client, NEW s, Become(c, s)
    PROVE  cl'[c] = s /\ \A d \in Client \ {c} : cl'[d] = cl[d]
BY DEF Become

(* No step of an operation changes the operation or the container it is    *)
(* about, until it returns; with the job hierarchy mounted, none releases  *)
(* the tasks handler.                                                      *)
Continues(me, s) ==
    /\ s.op = "none" \/ (s.op = me.op /\ s.target = me.target)
    /\ JobMounted => s.released \in {FALSE, me.released}

SameCall(c) ==
    /\ \A d \in Client \ {c} : cl'[d] = cl[d]
    /\ Continues(cl[c], cl'[c])

(* Every step of every operation, Create to Destroy, goes on with the      *)
(* call.                                                                   *)
LEMMA StepSameCall ==
    ASSUME Inv, NEW c \in Client, Step(c) \/ Crash(c)
    PROVE  SameCall(c)
<1> DEFINE me == cl[c]
<1>a. cl \in [Client -> Good] /\ me \in Local
  BY DEF Inv, Good
<1>b. Continues(me, Idle) /\ \A r : Continues(me, Done(r))
  BY DEF Done, Idle, Continues
<1>c. ASSUME NEW s, Become(c, s), Continues(me, s)
      PROVE  SameCall(c)
  BY <1>a, <1>c, BecomeOne DEF SameCall
<1>e. ASSUME NEW h, Become(c, Rollback(me, h))
      PROVE  SameCall(c)
  <2>1. Continues(me, Rollback(me, h))
    BY <1>a DEF Rollback, Local, Continues
  <2> QED
    BY <1>c, <1>e, <2>1
<1>1. CASE MkDirTree(c)
  <2> DEFINE t(k) == [me EXCEPT
               !.tree = k, !.made = @ \cup {k}, !.hs = @ \ {k},
               !.pc = IF \E j \in me.hs \ {k} : ResOf[j] = ResOf[k]
                      THEN "mkdir" ELSE "config"]
  <2>1. PICK k \in me.hs :
          Become(c, t(k)) \/ Become(c, Rollback(me, CompleteBefore(me, k)))
    BY <1>1, Zenon DEF MkDirTree
  <2>2. Continues(me, t(k))
    BY <1>a DEF Local, Continues
  <2> QED
    BY <1>c, <1>e, <2>1, <2>2, SMTT(60)
<1>2. CASE Configure(c)
  <2> DEFINE t == [me EXCEPT !.pc = IF me.hs = {} THEN "finish" ELSE "mkdir"]
  <2>1. Become(c, t) \/ Become(c, Rollback(me, CompleteBefore(me, me.tree)))
    BY <1>2 DEF Configure
  <2>2. Continues(me, t)
    BY <1>a DEF Local, Continues
  <2> QED
    BY <1>c, <1>e, <2>1, <2>2
<1>3. CASE FinishCreate(c)
  BY <1>3, <1>b, <1>c, <1>e DEF FinishCreate
<1>d. ASSUME NEW k \in Tree
      PROVE  Continues(me, DeleteFailed(me, k))
  <2> DEFINE e == [Done("error") EXCEPT
                     !.released = k = 0 /\ ~JobMounted /\ me.cur = me.target]
             t == [me EXCEPT !.hs = {j \in @ : ResOf[j] # ResOf[k]}, !.rm = {},
                             !.pc = "delete"]
  <2>1. e.op = "none" /\ (JobMounted => e.released = FALSE)
    BY Zenon DEF Done, Idle
  <2>2. Continues(me, e)
    BY <2>1, Zenon DEF Continues
  <2>3. Continues(me, t)
    BY <1>a DEF Local, Continues
  <2> QED
    BY <1>b, <2>2, <2>3 DEF DeleteFailed
<1>4. CASE ListTree(c)
  <2>1. PICK k \in Tree :
          \/ Become(c, [me EXCEPT !.tree = k, !.pc = "rmdir",
                                  !.rm = ToDelete(k, me.cur)])
          \/ Become(c, DeleteFailed(me, k))
    BY <1>4, Zenon DEF ListTree
  <2>2. Continues(me, [me EXCEPT !.tree = k, !.pc = "rmdir",
                                 !.rm = ToDelete(k, me.cur)])
    BY <1>a DEF Local, Continues
  <2> QED
    BY <1>c, <1>d, <2>1, <2>2, SMTT(60)
<1>5. CASE DeleteDir(c)
  <2>1. PICK m \in me.rm :
          \/ Become(c, TreeDeleted(me, me.tree))
          \/ Become(c, [me EXCEPT !.rm = @ \ {m}])
          \/ Become(c, DeleteFailed(me, me.tree))
    BY <1>5, ZenonT(60) DEF DeleteDir
  <2>2. me.tree \in Tree
    BY <1>a DEF Local
  <2>3. /\ Continues(me, [me EXCEPT !.hs = @ \ {me.tree}, !.rm = {},
                                    !.pc = "delete"])
        /\ Continues(me, [me EXCEPT !.todo = @ \ {me.cur}, !.rm = {},
                                    !.pc = "next"])
        /\ Continues(me, [me EXCEPT !.rm = @ \ {m}])
    BY <1>a DEF Local, Continues
  <2>4. Continues(me, TreeDeleted(me, me.tree))
    BY <1>b, <2>3 DEF TreeDeleted
  <2> QED
    BY <1>c, <1>d, <2>1, <2>2, <2>3, <2>4
<1>6. CASE Attach(c) \/ DestroyNext(c) \/ ResolveHandlers(c)
  <2> DEFINE t(x) == [me EXCEPT !.cur = x, !.pc = "list",
                                !.pass = 1, !.tries = MaxTries]
             u == [me EXCEPT !.pc = "next"]
             v == [me EXCEPT !.pc = "delete",
                     !.hs = {k \in ResTree : Isolates(me.cur, ResOf[k])}]
  <2>1. \/ \E x \in me.todo : Become(c, t(x))
        \/ Become(c, Done("error")) \/ Become(c, u) \/ Become(c, v)
    BY <1>6, Zenon DEF Attach, DestroyNext, ResolveHandlers
  <2>2. Continues(me, u) /\ Continues(me, v) /\ \A x : Continues(me, t(x))
    BY <1>a DEF Local, Continues
  <2> QED
    BY <1>b, <1>c, <2>1, <2>2, Zenon
<1>7. CASE KillList(c) \/ Signal(c)
  <2> DEFINE t == [me EXCEPT !.lst = Listed(me), !.pc = "signal"]
             u == [me EXCEPT !.lst = {}, !.tries = @ - 1, !.pc = "list"]
  <2>1. /\ Continues(me, [me EXCEPT !.pass = 2, !.tries = MaxTries])
        /\ Continues(me, [me EXCEPT !.pc = "handlers", !.pass = 1, !.tries = 0])
        /\ Continues(me, t) /\ Continues(me, u)
    BY <1>a DEF Local, Continues
  <2>2. \/ Become(c, Done("error")) \/ Become(c, Killed(me))
        \/ Become(c, t) \/ Become(c, u)
    BY <1>7 DEF KillList, Signal
  <2>3. Continues(me, Killed(me))
    BY <1>b, <2>1 DEF Killed
  <2> QED
    BY <1>b, <1>c, <2>1, <2>2, <2>3
<1>8. CASE EnterTree(c) \/ Crash(c)
  <2> DEFINE t(k) == [me EXCEPT !.hs = @ \ {k}]
  <2>1. \/ \E k \in me.hs : Become(c, t(k))
        \/ Become(c, Done("error")) \/ Become(c, Done("ok")) \/ Become(c, Idle)
    BY <1>8 DEF EnterTree, Crash
  <2>2. \A k : Continues(me, t(k))
    BY <1>a, SMTT(30) DEF Local, Continues
  <2> QED
    BY <1>b, <1>c, <2>1, <2>2, Zenon
<1> QED
  BY <1>1, <1>2, <1>3, <1>4, <1>5, <1>6, <1>7, <1>8 DEF Step

(* A call starts an operation of the caller at its first step, with the    *)
(* tasks handler in place.                                                 *)
Starts(s) ==
    /\ s.pc \in {"mkdir", "finish", "attach", "list", "enter"}
    /\ s.released = FALSE

(* Each call that a client can make is such a start, or fails at once.     *)
LEMMA CallStarts ==
    ASSUME Inv, NEW c \in Client, Call(c)
    PROVE  /\ \A d \in Client \ {c} : cl'[d] = cl[d]
           /\ \/ UNCHANGED cl
              \/ Starts(cl'[c])
<1>a. cl \in [Client -> Good]
  BY DEF Inv
<1>1. ASSUME NEW s, Become(c, s), Starts(s)
      PROVE  /\ \A d \in Client \ {c} : cl'[d] = cl[d]
             /\ Starts(cl'[c])
  BY <1>a, <1>1, BecomeOne
<1>2. ASSUME NEW n \in Name, NEW spec \in Specs, Create(c, n, spec)
      PROVE  \E s : Become(c, s) /\ Starts(s)
  <2> DEFINE w == IF spec = {} THEN "finish" ELSE "mkdir"
             s == [Begin("create", n, w)
                     EXCEPT !.hs = {k \in ResTree : ResOf[k] \in spec}]
  <2>1. Starts(s)
    BY DEF Begin, Idle, Starts
  <2>2. Become(c, s)
    BY <1>2 DEF Create
  <2> HIDE DEF s
  <2> QED
    BY <2>1, <2>2
<1>3. ASSUME NEW n \in Name, Destroy(c, n)
      PROVE  \E s : Become(c, s) /\ Starts(s)
  <2> DEFINE s == [Begin("destroy", n, "attach")
                     EXCEPT !.todo = dirs[0] \cap Under[n]]
  <2>1. Starts(s)
    BY DEF Begin, Idle, Starts
  <2>2. Become(c, s)
    BY <1>3 DEF Destroy
  <2> HIDE DEF s
  <2> QED
    BY <2>1, <2>2
<1>4. ASSUME NEW n \in Name, KillAll(c, n)
      PROVE  \E s : Become(c, s) /\ Starts(s)
  <2> DEFINE s == [Begin("killall", n, "list") EXCEPT !.tries = MaxTries]
  <2>1. Starts(s)
    BY DEF Begin, Idle, Starts
  <2>2. Become(c, s)
    BY <1>4 DEF KillAll
  <2> HIDE DEF s
  <2> QED
    BY <2>1, <2>2
<1>5. ASSUME NEW n \in Name, NEW p \in Pid, Enter(c, n, p) \/ Run(c, n, p)
      PROVE  \E s : Become(c, s) /\ Starts(s)
  <2>1. PICK o \in {"enter", "run"} : \E s \in Entering(o, n, p) : Become(c, s)
    BY <1>5 DEF Enter, Run
  <2>2. PICK s \in Entering(o, n, p) : Become(c, s)
    BY <2>1, SMTT(60)
  <2>3. PICK h : s = [Begin(o, n, "enter") EXCEPT !.hs = Tree, !.who = p,
                                                  !.home = h]
    BY Zenon DEF Entering
  <2>4. Starts(s)
    BY <2>3, SMTT(60) DEF Begin, Idle, Starts
  <2> QED
    BY <2>2, <2>4
<1> QED
  BY <1>1, <1>2, <1>3, <1>4, <1>5 DEF Call, Pause, Resume, SetFreezerState

-----------------------------------------------------------------------------
(* A directory disappears only in DeleteDir.                               *)
LEMMA OnlyDeleteDirRemoves ==
    ASSUME Inv, [Next]_vars, NEW k \in Tree, NEW m \in dirs[k] \ dirs'[k]
    PROVE  \E c \in Client :
              /\ DeleteDir(c)
              /\ k = cl[c].tree
              /\ m \in cl[c].rm
              /\ RmDirOk(k, m)
<1>1. CASE UNCHANGED dirs
  BY <1>1
<1>2. ASSUME NEW j \in Tree, NEW n \in Name, MkDir(j, n)
      PROVE  FALSE
  BY <1>2 DEF MkDir, Inv, KernelTypeOK
<1>3. ASSUME NEW c \in Client, MkDirTree(c), dirs' # dirs
      PROVE  FALSE
  <2>1. PICK j \in cl[c].hs : MkDir(j, cl[c].target)
    BY <1>3 DEF MkDirTree
  <2>2. cl[c] \in Local
    BY DEF Inv, Good
  <2>3. cl[c].hs \subseteq Tree /\ cl[c].target \in Name
    BY <2>2 DEF Local
  <2> QED
    BY <1>2, <2>1, <2>3
<1>4. ASSUME NEW c \in Client, DeleteDir(c)
      PROVE  k = cl[c].tree /\ m \in cl[c].rm /\ RmDirOk(k, m)
  <2>1. PICK x \in cl[c].rm : RmDir(cl[c].tree, x) /\ RmDirOk(cl[c].tree, x)
    BY <1>1, <1>4 DEF DeleteDir
  <2> QED
    BY <2>1 DEF RmDir, Inv, KernelTypeOK
<1>5. ASSUME NEW c \in Client, NEW n \in Name, NEW spec \in Specs,
             Create(c, n, spec)
      PROVE  FALSE
  BY <1>2, <1>5, Trees DEF Create
<1>6. ASSUME NEW c \in Client, Call(c), dirs' # dirs
      PROVE  FALSE
  BY <1>5, <1>6, SMTT(60)
  DEF Call, Destroy, KillAll, Enter, Run, Pause, Resume, SetFreezerState, kernel
<1>7. ASSUME NEW c \in Client, Step(c), ~DeleteDir(c), ~MkDirTree(c)
      PROVE  UNCHANGED dirs
  BY <1>7, Zenon DEF Step, Configure, FinishCreate, ListTree, Attach, DestroyNext,
              ResolveHandlers, KillList, Signal, EnterTree, kernel
<1>8. TaskStep \/ (\E c \in Client : Crash(c)) \/ UNCHANGED vars =>
         UNCHANGED dirs
  BY DEF TaskStep, Exit, Fork, Crash, vars, kernel
<1> QED
  BY <1>1, <1>3, <1>4, <1>6, <1>7, <1>8 DEF Next

(* Create and Destroy remove nothing outside the container they were       *)
(* called on, and a rollback nothing that its Create did not make.         *)
THEOREM RemovalIsLocal == Spec => RemovesOnlyOwn
<1> DEFINE Removal ==
       \A k \in Tree : \A m \in dirs[k] \ dirs'[k] :
          \E c \in Client :
             /\ m \in Under[cl[c].target]
             /\ \/ cl[c].op = "destroy"
                \/ /\ cl[c].op = "create"
                   /\ m = cl[c].target => k \in cl[c].made \cup {0}
<1>1. Inv /\ [Next]_vars => Removal
  <2> SUFFICES ASSUME Inv, [Next]_vars,
                      NEW k \in Tree, NEW m \in dirs[k] \ dirs'[k]
               PROVE  \E c \in Client :
                         /\ m \in Under[cl[c].target]
                         /\ \/ cl[c].op = "destroy"
                            \/ /\ cl[c].op = "create"
                               /\ m = cl[c].target => k \in cl[c].made \cup {0}
    OBVIOUS
  <2>1. PICK c \in Client : DeleteDir(c) /\ k = cl[c].tree /\ m \in cl[c].rm
    BY OnlyDeleteDirRemoves
  <2> DEFINE me == cl[c]
  <2>2. me \in Good /\ me \in Local /\ me.pc = "rmdir"
    BY <2>1, SMTT(30) DEF Inv, Good, DeleteDir
  <2>3. /\ me.target \in Name /\ me.cur \in Name
        /\ me.rm \subseteq Under[me.cur]
        /\ me.op \in {"create", "destroy"}
        /\ me.tree \in me.hs \/ me.tree = 0
    BY <2>2, SMTT(30) DEF Good, Coherent, Local
  <2>4. /\ me.op = "create" => me.cur = me.target /\ me.hs \subseteq me.made
        /\ me.op = "destroy" => me.cur \in me.todo /\ me.todo \subseteq Under[me.target]
    BY <2>2, SMTT(30) DEF Good, Coherent
  <2> HIDE DEF me
  <2>5. me.cur \in Under[me.target]
    BY <2>3, <2>4, NameAssumption
  <2>6. m \in Under[me.target]
    BY <2>1, <2>3, <2>5, NameAssumption, SMTT(30) DEF me
  <2>7. me.op = "create" => me.tree \in me.made \cup {0}
    BY <2>3, <2>4
  <2> QED
    BY <2>1, <2>3, <2>6, <2>7 DEF me
<1>2. Inv /\ [Next]_vars => [Removal]_vars
  BY <1>1
<1> QED
  BY <1>2, InvHolds, PTL DEF Spec, RemovesOnlyOwn

-----------------------------------------------------------------------------
(* Why Destroy is complete: directories form trees, no two clients         *)
(* administer one container, and what a Destroy still has to delete of its *)
(* own container is in the list of handlers it resolved.                   *)

OneTreePerResource == \A j, k \in ResTree : ResOf[j] = ResOf[k] => j = k

Closed ==
    \A k \in Tree : \A m \in dirs[k] : \A n \in Name :
        m \in Under[n] => n \in dirs[k]

Exclusive ==
    \A c, d \in Client :
        c # d /\ cl[c].op \in Admin /\ cl[d].op \in Admin
            => cl[c].target # cl[d].target

Pending ==
    \A c \in Client :
        /\ cl[c].op = "destroy"
        /\ cl[c].pc \in {"delete", "rmdir"}
        /\ cl[c].cur = cl[c].target
        => \A k \in ResTree : cl[c].target \in dirs[k] => k \in cl[c].hs

Tidy == Inv /\ Closed /\ Exclusive /\ Pending

(* A directory appears in a tree only below an existing one, and in a      *)
(* resource's tree only by the Create of that container.                   *)
LEMMA OnlyCreateMakes ==
    ASSUME Inv, [Next]_vars, NEW k \in Tree, NEW m \in dirs'[k] \ dirs[k]
    PROVE  /\ m \in Name /\ Parent[m] \in dirs[k] /\ dirs[k] \subseteq dirs'[k]
           /\ k # 0 => \E c \in Client : MkDirTree(c) /\ cl[c].target = m
<1>1. ASSUME NEW j \in Tree, NEW n \in Name, MkDirOk(j, n), MkDir(j, n)
      PROVE  /\ m = n /\ k = j /\ Parent[m] \in dirs[k]
             /\ dirs[k] \subseteq dirs'[k]
  BY <1>1 DEF MkDir, MkDirOk, Inv, KernelTypeOK
<1>2. ASSUME NEW c \in Client, MkDirTree(c)
      PROVE  /\ m \in Name /\ Parent[m] \in dirs[k] /\ dirs[k] \subseteq dirs'[k]
             /\ cl[c].target = m
  <2>1. PICK j \in cl[c].hs : MkDirOk(j, cl[c].target) /\ MkDir(j, cl[c].target)
    BY <1>2 DEF MkDirTree
  <2>2. cl[c] \in Local
    BY DEF Inv, Good
  <2>3. cl[c].hs \subseteq Tree /\ cl[c].target \in Name
    BY <2>2 DEF Local
  <2> QED
    BY <1>1, <2>1, <2>3
<1>3. ASSUME NEW c \in Client, DeleteDir(c)
      PROVE  FALSE
  BY <1>3 DEF DeleteDir, RmDir, Inv, KernelTypeOK
<1>4. ASSUME NEW c \in Client, Call(c)
      PROVE  /\ m \in Name /\ Parent[m] \in dirs[k] /\ dirs[k] \subseteq dirs'[k]
             /\ k = 0
  <2>1. ASSUME NEW n \in Name, NEW spec \in Specs, Create(c, n, spec)
        PROVE  /\ m \in Name /\ Parent[m] \in dirs[k]
               /\ dirs[k] \subseteq dirs'[k] /\ k = 0
    BY <1>1, <2>1, Trees, SMTT(60) DEF Create
  <2> QED
    BY <1>4, <2>1 DEF Call, Destroy, KillAll, Enter, Run, Pause, Resume,
                      SetFreezerState, kernel
<1>5. ASSUME NEW c \in Client, Step(c), ~DeleteDir(c), ~MkDirTree(c)
      PROVE  UNCHANGED dirs
  BY <1>5, Zenon DEF Step, Configure, FinishCreate, ListTree, Attach, DestroyNext,
              ResolveHandlers, KillList, Signal, EnterTree, kernel
<1>6. TaskStep \/ (\E c \in Client : Crash(c)) \/ UNCHANGED vars =>
         UNCHANGED dirs
  BY DEF TaskStep, Exit, Fork, Crash, vars, kernel
<1> QED
  BY <1>2, <1>3, <1>4, <1>5, <1>6 DEF Next

(* The directories of a hierarchy remain closed under taking the parent.   *)
LEMMA NextClosed == Inv /\ Closed /\ [Next]_vars => Closed'
<1> SUFFICES ASSUME Inv, Closed, [Next]_vars,
                    NEW k \in Tree, NEW m \in dirs'[k], NEW n \in Name,
                    m \in Under[n]
             PROVE  n \in dirs'[k]
  BY DEF Closed
<1>1. CASE m \in dirs[k]
  <2>1. n \in dirs[k]
    BY <1>1 DEF Closed
  <2>2. SUFFICES ASSUME n \notin dirs'[k] PROVE FALSE
    OBVIOUS
  <2>3. ~HasChild(k, n)
    BY <2>1, <2>2, OnlyDeleteDirRemoves DEF RmDirOk
  <2>4. PICK x \in Name \ {n} : Parent[x] = n /\ m \in Under[x]
    BY <2>2, NameAssumption
  <2>5. x \in dirs[k]
    BY <1>1, <2>4 DEF Closed
  <2> QED
    BY <2>3, <2>4, <2>5 DEF HasChild
<1>2. CASE m \notin dirs[k]
  <2>1. m \in Name /\ Parent[m] \in dirs[k] /\ dirs[k] \subseteq dirs'[k]
    BY <1>2, OnlyCreateMakes
  <2>2. CASE m = n
    BY <2>2
  <2>3. CASE m # n
    BY <2>1, <2>3, NameAssumption DEF Closed
  <2> QED
    BY <2>2, <2>3
<1> QED
  BY <1>1, <1>2

(* Owners that synchronise keep administrative operations on a container   *)
(* exclusive.                                                              *)
LEMMA NextExclusive ==
    ASSUME OwnersSynchronize, Inv, Exclusive, [Next]_vars
    PROVE  Exclusive'
<1>a. cl \in [Client -> Good]
  BY DEF Inv
<1>1. CASE UNCHANGED cl
  BY <1>1 DEF Exclusive
<1>2. ASSUME NEW c \in Client, SameCall(c)
      PROVE  Exclusive'
  BY <1>2 DEF Exclusive, SameCall, Continues, Admin
<1>3. ASSUME NEW c \in Client, NEW s, Become(c, s),
             s.op \notin Admin \/ MayAdminister(s.target)
      PROVE  Exclusive'
  <2>1. cl'[c] = s /\ \A d \in Client \ {c} : cl'[d] = cl[d]
    BY <1>a, <1>3, BecomeOne, SMTT(30)
  <2> QED
    BY <1>3, <2>1 DEF Exclusive, MayAdminister
<1>4. ASSUME NEW c \in Client, Call(c)
      PROVE  Exclusive'
  <2>1. ASSUME NEW n \in Name, NEW spec \in Specs, Create(c, n, spec)
        PROVE  Exclusive'
    <3> DEFINE b == Begin("create", n, IF spec = {} THEN "finish" ELSE "mkdir")
               s == [b EXCEPT !.hs = {k \in ResTree : ResOf[k] \in spec}]
    <3>1. s.target = n
      BY DEF Begin, Idle
    <3> QED
      BY <1>3, <2>1, <3>1, Zenon DEF Create
  <2>2. ASSUME NEW n \in Name, Destroy(c, n)
        PROVE  Exclusive'
    <3> DEFINE s == [Begin("destroy", n, "attach")
                       EXCEPT !.todo = dirs[0] \cap Under[n]]
    <3>1. s.target = n
      BY DEF Begin, Idle
    <3> QED
      BY <1>3, <2>2, <3>1, Zenon DEF Destroy
  <2>3. ASSUME NEW n \in Name, KillAll(c, n)
        PROVE  Exclusive'
    <3> DEFINE s == [Begin("killall", n, "list") EXCEPT !.tries = MaxTries]
    <3>1. s.target = n
      BY DEF Begin, Idle
    <3> QED
      BY <1>3, <2>3, <3>1, Zenon DEF KillAll
  <2>4. ASSUME NEW n \in Name, NEW p \in Pid, Enter(c, n, p) \/ Run(c, n, p)
        PROVE  Exclusive'
    <3>a. PICK o \in {"enter", "run"} :
             \E s \in Entering(o, n, p) : Become(c, s)
      BY <2>4 DEF Enter, Run
    <3>1. PICK s \in Entering(o, n, p) : Become(c, s)
      BY <3>a
    <3>2. PICK h : s = [Begin(o, n, "enter") EXCEPT !.hs = Tree, !.who = p,
                                                    !.home = h]
      BY Zenon DEF Entering
    <3>3. s.op = o
      BY <3>2, SMTT(30) DEF Begin, Idle
    <3> QED
      BY <1>3, <3>1, <3>3, SMTT(30) DEF Admin
  <2> QED
    BY <1>1, <1>4, <2>1, <2>2, <2>3, <2>4
    DEF Call, Pause, Resume, SetFreezerState
<1> QED
  BY <1>1, <1>2, <1>4, StepSameCall DEF Next, TaskStep, vars

(* What Destroy has still to delete of its own container stays listed.     *)
LEMMA NextPending ==
    ASSUME OneTreePerResource, Inv, Exclusive, Pending, [Next]_vars,
           NEW c \in Client,
           cl'[c].op = "destroy", cl'[c].pc \in {"delete", "rmdir"},
           cl'[c].cur = cl'[c].target,
           NEW k \in ResTree, cl'[c].target \in dirs'[k]
    PROVE  k \in cl'[c].hs
<1> DEFINE me == cl[c]
<1>a. cl \in [Client -> Good] /\ me \in Good /\ me \in Local
  BY DEF Inv, Good
<1>b. k \in Tree /\ k # 0
  BY Trees
<1>1. CASE cl'[c] = cl[c]
  <2>1. CASE me.target \in dirs[k]
    BY <1>1, <2>1 DEF Pending
  <2>2. CASE me.target \notin dirs[k]
    <3>1. PICK d \in Client : MkDirTree(d) /\ cl[d].target = me.target
      BY <1>1, <1>b, <2>2, OnlyCreateMakes
    <3>2. cl[d].op = "create"
      BY <3>1 DEF Inv, Good, Coherent, MkDirTree
    <3> QED
      BY <1>1, <3>1, <3>2, SMTT(30) DEF Exclusive, Admin
  <2> QED
    BY <2>1, <2>2, SMTT(30)
<1>2. CASE ResolveHandlers(c)
  <2> DEFINE t == [me EXCEPT !.pc = "delete",
                     !.hs = {j \in ResTree : Isolates(me.cur, ResOf[j])}]
  <2>1. cl'[c] = t /\ UNCHANGED dirs
    BY <1>2, <1>a, BecomeOne DEF ResolveHandlers, kernel
  <2>2. t.cur = me.cur /\ t.target = me.target
        /\ t.hs = {j \in ResTree : Isolates(me.cur, ResOf[j])}
    BY <1>a DEF Local
  <2>3. me.cur \in dirs[k]
    BY <2>1, <2>2
  <2>4. Isolates(me.cur, ResOf[k])
    BY <2>3 DEF Isolates, OneTreePerResource
  <2> QED
    BY <2>1, <2>2, <2>4
<1>3. CASE ListTree(c)
  <2> DEFINE t(j) == [me EXCEPT !.tree = j, !.pc = "rmdir",
                                !.rm = ToDelete(j, me.cur)]
  <2>1. PICK j \in Tree : \/ Become(c, t(j))
                          \/ Become(c, DeleteFailed(me, j))
    BY <1>3, ZenonT(60) DEF ListTree
  <2>2. me.op = "destroy" /\ me.pc = "delete" /\ UNCHANGED dirs
    BY <1>3, StepSameCall, Zenon DEF ListTree, kernel, SameCall, Continues, Step
  <2>3. DeleteFailed(me, j).op = "none"
    BY <2>2 DEF DeleteFailed, Done, Idle
  <2>4. cl'[c] = t(j)
    BY <1>a, <2>1, <2>3, BecomeOne
  <2>5. t(j).cur = me.cur /\ t(j).target = me.target /\ t(j).hs = me.hs
    BY <1>a DEF Local
  <2> QED
    BY <2>2, <2>4, <2>5, SMTT(60) DEF Pending
<1>4. CASE DeleteDir(c)
  <2> DEFINE t(m) == [me EXCEPT !.rm = @ \ {m}]
             u == [me EXCEPT !.hs = @ \ {me.tree}, !.rm = {}, !.pc = "delete"]
             v == [me EXCEPT !.todo = @ \ {me.cur}, !.rm = {}, !.pc = "next"]
  <2>1. PICK m \in me.rm :
          \/ /\ RmDir(me.tree, m)
             /\ Become(c, IF me.rm = {m} THEN TreeDeleted(me, me.tree) ELSE t(m))
          \/ Become(c, DeleteFailed(me, me.tree))
    BY <1>4, Zenon DEF DeleteDir
  <2>2. /\ me.op = "destroy" /\ me.pc = "rmdir" /\ me.target = cl'[c].target
        /\ me.cur \in me.rm
    BY <1>4, <1>a, StepSameCall , Zenon
    DEF DeleteDir, SameCall, Continues, Good, Coherent, Step
  <2>3. DeleteFailed(me, me.tree).op = "none"
    BY <2>2 DEF DeleteFailed, Done, Idle
  <2>4. RmDir(me.tree, m) /\ me.tree \in Tree
    BY <1>a, <2>1, <2>3, BecomeOne DEF Local
  <2>5. dirs'[k] \subseteq dirs[k]
    BY <1>b, <2>4 DEF RmDir, Inv, KernelTypeOK
  <2>6. CASE me.rm # {m}
    <3>1. cl'[c] = t(m)
      BY <1>a, <2>1, <2>3, <2>6, BecomeOne
    <3>2. t(m).cur = me.cur /\ t(m).target = me.target /\ t(m).hs = me.hs
      BY <1>a DEF Local
    <3> QED
      BY <2>2, <2>5, <3>1, <3>2 DEF Pending
  <2>7. CASE me.rm = {m}
    <3>1. cl'[c] = TreeDeleted(me, me.tree)
      BY <1>a, <2>1, <2>3, <2>7, BecomeOne
    <3>2. v.pc = "next" /\ u.cur = me.cur /\ u.hs = me.hs \ {me.tree}
      BY <1>a DEF Local
    <3>3. cl'[c] = u /\ me.tree # 0
      BY <2>2, <3>1, <3>2 DEF TreeDeleted, Done, Idle
    <3>4. m = me.cur /\ me.cur = me.target
      BY <2>2, <2>7, <3>2, <3>3
    <3>5. me.target \notin dirs'[me.tree]
      BY <2>4, <3>4, SMTT(30) DEF RmDir, Inv, KernelTypeOK
    <3>6. k \in me.hs
      BY <2>2, <2>5, <3>4, SMTT(30) DEF Pending
    <3> QED
      BY <2>2, <3>2, <3>3, <3>5, <3>6
  <2> QED
    BY <2>6, <2>7
<1>5. ASSUME MkDirTree(c) \/ Configure(c) \/ FinishCreate(c) \/ EnterTree(c)
             \/ Crash(c)
      PROVE  FALSE
  <2>1. cl'[c].op = me.op
    BY <1>5, StepSameCall, ZenonT(60) DEF Step, SameCall, Continues
  <2>2. me.op # "destroy" \/ Crash(c)
    BY <1>5, <1>a, Zenon
    DEF MkDirTree, Configure, FinishCreate, EnterTree, Good, Coherent
  <2>3. Crash(c) => cl'[c] = Idle
    BY <1>a, BecomeOne, SMTT(30) DEF Crash
  <2> QED
    BY <2>1, <2>2, <2>3, SMTT(30) DEF Idle
<1>6. ASSUME Attach(c) \/ DestroyNext(c) \/ KillList(c) \/ Signal(c)
      PROVE  FALSE
  <2> DEFINE t(x) == [me EXCEPT !.cur = x, !.pc = "list",
                                !.pass = 1, !.tries = MaxTries]
             u == [me EXCEPT !.pc = "next"]
             v == [me EXCEPT !.lst = Listed(me), !.pc = "signal"]
             w == [me EXCEPT !.lst = {}, !.tries = @ - 1, !.pc = "list"]
  <2>1. \/ \E x \in me.todo : Become(c, t(x))
        \/ Become(c, Done("error")) \/ Become(c, u) \/ Become(c, v)
        \/ Become(c, w) \/ (Become(c, Killed(me)) /\ me.pc = "list")
    BY <1>6, Zenon DEF Attach, DestroyNext, KillList, Signal
  <2>2. /\ \A x : t(x).pc = "list"
        /\ u.pc = "next" /\ v.pc = "signal" /\ w.pc = "list"
    BY <1>a DEF Local
  <2>3. me.pc = "list" => Killed(me).pc \notin {"delete", "rmdir"}
    BY <1>a DEF Killed, Done, Idle, Local
  <2>4. Done("error").op = "none"
    BY DEF Done, Idle
  <2>5. \A s : Become(c, s) => cl'[c] = s
    BY <1>a, BecomeOne, SMTT(30)
  <2> HIDE DEF t, u, v, w
  <2> QED
    BY <2>1, <2>2, <2>3, <2>4, <2>5, SMTT(60)
<1>7. ASSUME NEW d \in Client, Call(d) \/ Step(d) \/ Crash(d)
      PROVE  cl'[c] = cl[c] \/ (c = d /\ (Step(c) \/ Crash(c)))
  BY <1>7, CallStarts, StepSameCall, ZenonT(60) DEF SameCall, Continues, Starts
<1>8. TaskStep \/ UNCHANGED vars => UNCHANGED cl
  BY DEF TaskStep, vars
<1> QED
  BY <1>1, <1>2, <1>3, <1>4, <1>5, <1>6, <1>7, <1>8, ZenonT(60) DEF Next, Step

(* Tidy is an invariant when owners synchronise and every resource has one *)
(* hierarchy.                                                              *)
LEMMA TidyHolds ==
    ASSUME OwnersSynchronize, OneTreePerResource
    PROVE  Spec => []Tidy
<1>1. Init => Tidy
  <2> SUFFICES ASSUME Init PROVE Tidy
    OBVIOUS
  <2>1. Closed
    <3>1. \A m \in Name : Root \in Under[m] => m = Root
      BY NameAssumption, SMTT(30)
    <3> QED
      BY <3>1 DEF Closed, Init, KernelInit
  <2>2. Exclusive /\ Pending
    <3>1. \A c \in Client : cl[c].op = "none"
      BY DEF Init, Idle
    <3> QED
      BY <3>1 DEF Exclusive, Pending, Admin
  <2> QED
    BY <2>1, <2>2, InitInv DEF Tidy
<1>2. Tidy /\ [Next]_vars => Tidy'
  BY NextInv, NextClosed, NextExclusive, NextPending DEF Tidy, Pending
<1> QED
  BY <1>1, <1>2, PTL DEF Spec

(* A Destroy that returns OK leaves no directory of the container behind.  *)
(* Owners must synchronise, as lmctfy.h asks, and every resource must have *)
(* a single hierarchy: a failed Create leaves the first of two behind.     *)
THEOREM DestroyIsComplete ==
    ASSUME OwnersSynchronize, OneTreePerResource
    PROVE  Spec => DestroyLeavesNothing
<1> DEFINE Left ==
       \A c \in Client : Returns(c, "destroy", "ok") =>
          \A k \in Tree : dirs'[k] \cap Under[cl[c].target] = {}
<1>1. Tidy /\ [Next]_vars => Left
  <2> SUFFICES ASSUME Tidy, [Next]_vars,
                      NEW c \in Client, Returns(c, "destroy", "ok"),
                      NEW k \in Tree, NEW n \in dirs'[k],
                      n \in Under[cl[c].target]
               PROVE  FALSE
    OBVIOUS
  <2> DEFINE me == cl[c]
  <2>a. /\ me.op = "destroy" /\ cl'[c].pc = "idle" /\ cl'[c].result = "ok"
        /\ me \in Good /\ me \in Local /\ cl \in [Client -> Good] /\ Inv
    BY DEF Returns, Tidy, Inv, Good
  <2>b. \A s : Become(c, s) => cl'[c] = s
    BY <2>a, BecomeOne
  <2>c. Done("error").result = "error" /\ Idle.result = "none"
    BY DEF Done, Idle
  <2>d. ASSUME NEW j \in Tree
        PROVE  DeleteFailed(me, j).result = "error"
    BY <2>a, SMTT(30) DEF DeleteFailed, Done, Idle
  <2>1. DeleteDir(c)
    <3>1. cl'[c] # cl[c]
      BY <2>a, SMTT(30) DEF Good, Coherent
    <3>2. Step(c) \/ Crash(c)
      BY <2>a, <3>1, CallStarts, StepSameCall, ZenonT(60)
      DEF Next, SameCall, Continues, Starts, TaskStep, vars
    <3>3. ~Crash(c)
      BY <2>a, <2>b, <2>c DEF Crash
    <3>4. ~(MkDirTree(c) \/ Configure(c) \/ FinishCreate(c) \/ EnterTree(c))
      BY <2>a, Zenon DEF MkDirTree, Configure, FinishCreate, EnterTree, Good, Coherent
    <3>5. ~ListTree(c)
      <4> DEFINE t(j) == [me EXCEPT !.tree = j, !.pc = "rmdir",
                                    !.rm = ToDelete(j, me.cur)]
      <4>1. \A j : t(j).pc = "rmdir"
        BY <2>a, SMTT(60) DEF Local
      <4>2. ListTree(c) => \E j \in Tree : Become(c, t(j))
                                        \/ Become(c, DeleteFailed(me, j))
        BY ZenonT(60) DEF ListTree
      <4> HIDE DEF t
      <4> QED
        BY <2>a, <2>b, <2>d, <4>1, <4>2
    <3>6. ~(Attach(c) \/ DestroyNext(c) \/ ResolveHandlers(c))
      <4> DEFINE t(x) == [me EXCEPT !.cur = x, !.pc = "list",
                                    !.pass = 1, !.tries = MaxTries]
                 u == [me EXCEPT !.pc = "next"]
                 v == [me EXCEPT !.pc = "delete",
                         !.hs = {j \in ResTree : Isolates(me.cur, ResOf[j])}]
      <4>1. u.pc = "next" /\ v.pc = "delete" /\ \A x : t(x).pc = "list"
        BY <2>a, SMTT(60) DEF Local
      <4>2. Attach(c) \/ DestroyNext(c) \/ ResolveHandlers(c) =>
              \/ \E x \in me.todo : Become(c, t(x))
              \/ Become(c, Done("error")) \/ Become(c, u) \/ Become(c, v)
        BY ZenonT(60) DEF Attach, DestroyNext, ResolveHandlers
      <4> HIDE DEF t, u, v
      <4> QED
        BY <2>a, <2>b, <2>c, <4>1, <4>2
    <3>7. ~(KillList(c) \/ Signal(c))
      <4> DEFINE t == [me EXCEPT !.lst = Listed(me), !.pc = "signal"]
                 u == [me EXCEPT !.lst = {}, !.tries = @ - 1, !.pc = "list"]
      <4>1. t.pc = "signal" /\ u.pc = "list"
        BY <2>a DEF Local
      <4>2. me.pc = "list" => Killed(me).pc \in {"list", "handlers"}
        BY <2>a DEF Killed, Local
      <4>3. KillList(c) \/ Signal(c) =>
              \/ Become(c, Done("error")) \/ Become(c, t) \/ Become(c, u)
              \/ Become(c, Killed(me)) /\ me.pc = "list"
        BY DEF KillList, Signal
      <4> HIDE DEF t, u
      <4> QED
        BY <2>a, <2>b, <2>c, <4>1, <4>2, <4>3
    <3> QED
      BY <3>2, <3>3, <3>4, <3>5, <3>6, <3>7, SMTT(30) DEF Step
  <2>2. /\ me.pc = "rmdir" /\ me.cur \in me.rm /\ me.tree \in Tree
        /\ me.target \in me.todo /\ me.target \in Name
        /\ me.hs \subseteq ResTree
        /\ me.tree \in me.hs \/ (me.tree = 0 /\ me.hs = {})
    BY <2>1, <2>a DEF DeleteDir, Good, Coherent, Local
  <2>3. PICK m \in me.rm :
          /\ RmDir(me.tree, m)
          /\ cl'[c] = IF me.rm = {m} THEN TreeDeleted(me, me.tree)
                      ELSE [me EXCEPT !.rm = @ \ {m}]
    BY <2>1, <2>2, <2>a, <2>b, <2>d, Zenon DEF DeleteDir
  <2>4. me.rm = {m} /\ cl'[c] = TreeDeleted(me, me.tree)
    <3>1. [me EXCEPT !.rm = @ \ {m}].pc = "rmdir"
      BY <2>2, <2>a DEF Local
    <3> QED
      BY <2>3, <2>a, <3>1
  <2>5. me.tree = 0 /\ me.todo = {me.cur}
    BY <2>4, <2>a, SMTT(30) DEF TreeDeleted, Local
  <2>6. m = me.target /\ me.cur = me.target /\ me.hs = {}
    BY <2>2, <2>4, <2>5, Trees, SMTT(30)
  <2>7. me.target \in dirs'[k]
    BY <2>2, NextClosed DEF Tidy, Closed
  <2>8. CASE k = 0
    BY <2>3, <2>5, <2>6, <2>7, <2>8, Trees, <2>a, SMTT(30) DEF RmDir, Inv, KernelTypeOK
  <2>9. CASE k # 0
    <3>1. k \in ResTree
      BY <2>9, TreeAssumption DEF Tree, ResTree
    <3>2. dirs'[k] = dirs[k]
      BY <2>3, <2>5, <2>9, <2>a DEF RmDir, Inv, KernelTypeOK
    <3> QED
      BY <2>2, <2>6, <2>7, <2>a, <3>1, <3>2 DEF Tidy, Pending
  <2> QED
    BY <2>8, <2>9
<1>2. Tidy /\ [Next]_vars => [Left]_vars
  BY <1>1
<1> QED
  BY <1>2, TidyHolds, PTL DEF Spec, DestroyLeavesNothing

(* Destroy leaves the caller an object that can be used again: with the    *)
(* job hierarchy mounted no failure, at whatever step, has released        *)
(* tasks_handler_.  Without it the freezer comes last and its failure      *)
(* does.                                                                   *)
THEOREM ObjectStaysUsable ==
    ASSUME JobMounted
    PROVE  Spec => []RetainedObjectUsable
<1>1. Init => RetainedObjectUsable
  BY DEF Init, Idle, RetainedObjectUsable
<1>2. Inv /\ RetainedObjectUsable /\ [Next]_vars => RetainedObjectUsable'
  <2> SUFFICES ASSUME Inv, RetainedObjectUsable, [Next]_vars, NEW d \in Client
               PROVE  ~cl'[d].released
    BY DEF RetainedObjectUsable
  <2>1. ASSUME NEW c \in Client, Call(c)
        PROVE  ~cl'[d].released
    BY <2>1, CallStarts, Zenon DEF RetainedObjectUsable, Starts
  <2>2. ASSUME NEW c \in Client, Step(c) \/ Crash(c)
        PROVE  ~cl'[d].released
    BY <2>2, StepSameCall, Zenon DEF RetainedObjectUsable, SameCall, Continues
  <2>3. CASE UNCHANGED cl
    BY <2>3 DEF RetainedObjectUsable
  <2> QED
    BY <2>1, <2>2, <2>3 DEF Next, TaskStep, vars
<1> QED
  BY <1>1, <1>2, InvHolds, PTL DEF Spec
=============================================================================
