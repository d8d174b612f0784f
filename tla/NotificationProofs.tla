-------------------------- MODULE NotificationProofs --------------------------
(***************************************************************************)
(* Proofs about Notifications, for any number of user threads, events,     *)
(* registrations and incarnations of the container.                        *)
(***************************************************************************)
EXTENDS Notifications, FiniteSetTheorems, TLAPS

(* A thread in the middle of RegisterNotification has an id from Add.      *)
IdsHandedOut ==
    \A t \in Thread : user[t].pc # "idle" => user[t].id \in 1..(next_id - 1)

(* What the listener holds at each step of its loop: no batch outside the  *)
(* handling of one, nothing to delete while it sleeps or polls, and before *)
(* it is started nothing at all.                                           *)
ListenerHolds ==
    /\ ~started => listener = Off
    /\ listener.pc \in {"off", "loop", "poll"} => listener.drop = {}
    /\ listener.pc \notin {"handle", "report", "deliver"} => listener.batch = {}
    /\ listener.pc \notin {"report", "deliver"} => listener.cur = 0
    /\ listener.cur \notin listener.batch

(* The threads that have found room and have not used it yet.              *)
Past == {t \in Thread : user[t].pc \in {"setup", "insert"}}

(* Whoever finds room finds less than MaxEvents names; the threads beyond  *)
(* the test, the one that has just made it included, are at most all.      *)
RoomTaken ==
    Cardinality(names) + Cardinality(Past) < MaxEvents + Cardinality(Thread)

(* The inductive invariant.                                                *)
IInv == TypeOK /\ IdsHandedOut /\ ListenerHolds /\ PointersValid /\ RoomTaken
-----------------------------------------------------------------------------
(* Zero is in the range of sizes, ids and incarnations.                    *)
LEMMA Zero == 0 \in 0..MaxId /\ 0 \in 0..MaxLife
BY NotificationAssumption

(* The names are finitely many: each has an id of its own.                 *)
LEMMA NamesFinite ==
    ASSUME TypeOK
    PROVE  /\ names \subseteq Id /\ IsFiniteSet(names)
           /\ Cardinality(names) \in 0..MaxId
<1>1. names \subseteq Id
  BY NotificationAssumption DEF TypeOK, Id
<1>2. IsFiniteSet(Id) /\ Cardinality(Id) = MaxId
  BY FS_Interval, NotificationAssumption DEF Id
<1>3. IsFiniteSet(names) /\ Cardinality(names) <= MaxId
  BY <1>1, <1>2, FS_Subset
<1>4. Cardinality(names) \in Nat
  BY <1>3, FS_CardinalityType
<1> QED
  BY <1>1, <1>3, <1>4, NotificationAssumption

(* So are the threads past the test, also after a step.                    *)
LEMMA PastFinite ==
    /\ IsFiniteSet(Past) /\ Cardinality(Past) \in 0..Cardinality(Thread)
    /\ IsFiniteSet(Past') /\ Cardinality(Past') \in 0..Cardinality(Thread)
    /\ Cardinality(Thread) \in Nat \ {0}
<1>1. Past \subseteq Thread /\ Past' \subseteq Thread
  BY DEF Past
<1>2. IsFiniteSet(Past) /\ Cardinality(Past) <= Cardinality(Thread)
  BY <1>1, FS_Subset, NotificationAssumption
<1>3. IsFiniteSet(Past') /\ Cardinality(Past') <= Cardinality(Thread)
  BY <1>1, FS_Subset, NotificationAssumption
<1>4. /\ Cardinality(Past) \in Nat /\ Cardinality(Past') \in Nat
      /\ Cardinality(Thread) \in Nat
  BY <1>2, <1>3, FS_CardinalityType, NotificationAssumption
<1>5. Cardinality(Thread) # 0
  BY FS_EmptySet, NotificationAssumption
<1> QED
  BY <1>2, <1>3, <1>4, <1>5

(* Room stays taken as long as neither set grows.                          *)
LEMMA RoomKept ==
    ASSUME TypeOK, RoomTaken, names' \subseteq names, Past' \subseteq Past
    PROVE  RoomTaken'
<1>1. Cardinality(names') <= Cardinality(names) /\ Cardinality(names') \in Nat
  BY NamesFinite, FS_Subset, FS_CardinalityType
<1>2. Cardinality(Past') <= Cardinality(Past)
  BY PastFinite, FS_Subset
<1> QED
  BY <1>1, <1>2, NamesFinite, PastFinite, NotificationAssumption DEF RoomTaken

(* Nothing is registered yet, and no thread is past the test.              *)
LEMMA InitIInv == Init => IInv
<1> SUFFICES ASSUME Init PROVE IInv
  OBVIOUS
<1>1. TypeOK
  <2>1. user \in [Thread -> User] /\ listener \in Listener
    BY NotificationAssumption DEF Init, User, Idle, Listener, Off, Id
  <2>2. watch \in [Id -> 0..MaxLife] /\ ready \subseteq Id /\ life \in 0..MaxLife
    BY NotificationAssumption DEF Init
  <2>3. /\ running \in BOOLEAN /\ started \in BOOLEAN /\ keep \in BOOLEAN
        /\ died \in BOOLEAN /\ dir \in BOOLEAN
    BY Zenon DEF Init
  <2>4. /\ next_id \in 1..(MaxId + 1)
        /\ active = {} /\ receivers = {} /\ names = {}
    BY NotificationAssumption DEF Init
  <2> QED
    BY <2>1, <2>2, <2>3, <2>4 DEF TypeOK
<1>2. IdsHandedOut /\ ListenerHolds /\ PointersValid
  BY DEF Init, Idle, Off, IdsHandedOut, ListenerHolds, PointersValid
<1>3. RoomTaken
  <2>1. Past = {} /\ names = {}
    BY DEF Init, Idle, Past
  <2>2. Cardinality(Past) = 0 /\ Cardinality(names) = 0
    BY <2>1, FS_EmptySet
  <2> QED
    BY <2>2, PastFinite, NotificationAssumption DEF RoomTaken
<1> QED
  BY <1>1, <1>2, <1>3 DEF IInv

-----------------------------------------------------------------------------
(* A thread that goes on with its registration, or leaves it.              *)
LEMMA UserMoves ==
    ASSUME TypeOK, IdsHandedOut, NEW t \in Thread, UNCHANGED next_id,
           \/ Return(t)
           \/ /\ user[t].pc # "idle"
              /\ \E w \in {"setup", "insert", "running", "start"} : Goto(t, w)
    PROVE  user' \in [Thread -> User] /\ IdsHandedOut'
<1>1. CASE Return(t)
  <2>1. Idle \in User
    BY NotificationAssumption DEF Idle, User
  <2> QED
    BY <1>1, <2>1 DEF TypeOK, Return, IdsHandedOut, Idle
<1>2. ASSUME NEW w \in {"setup", "insert", "running", "start"}, Goto(t, w),
             user[t].pc # "idle"
      PROVE  user' \in [Thread -> User] /\ IdsHandedOut'
  BY <1>2 DEF TypeOK, Goto, User, IdsHandedOut
<1> QED
  BY <1>1, <1>2

(* The steps of RegisterNotification keep the types.                       *)
LEMMA RegisterTyped ==
    ASSUME IInv, NEW t \in Thread, RegisterStep(t)
    PROVE  TypeOK' /\ IdsHandedOut'
<1> USE DEF IInv
<1>1. CASE Register(t)
  <2>1. next_id' = next_id + 1 /\ next_id \in 1..MaxId
    BY <1>1, NotificationAssumption DEF Register, TypeOK
  <2>2. /\ next_id' \in 1..(MaxId + 1) /\ active' \subseteq 1..(next_id' - 1)
        /\ 1..(next_id - 1) \subseteq 1..(next_id' - 1)
    BY <1>1, <2>1, NotificationAssumption DEF Register, AddId, TypeOK
  <2>3. user' \in [Thread -> User]
    BY <1>1, <2>1 DEF Register, TypeOK, User
  <2>4. TypeOK'
    BY <1>1, <2>2, <2>3 DEF Register, TypeOK, efd, cg
  <2>5. IdsHandedOut'
    BY <1>1, <2>1, <2>2 DEF Register, TypeOK, IdsHandedOut
  <2> QED
    BY <2>4, <2>5
<1>2. CASE CheckRoom(t)
  <2>1. user' \in [Thread -> User] /\ IdsHandedOut'
    BY <1>2, UserMoves DEF CheckRoom, api
  <2> QED
    BY <1>2, <2>1 DEF CheckRoom, TypeOK, api, efd, cg
<1>3. CASE SetupEvent(t)
  <2>1. user' \in [Thread -> User] /\ IdsHandedOut'
    BY <1>3, UserMoves DEF SetupEvent, api
  <2>2. watch' \in [Id -> 0..MaxLife]
    BY <1>3 DEF SetupEvent, TypeOK
  <2> QED
    BY <1>3, <2>1, <2>2 DEF SetupEvent, TypeOK, api, efd
<1>4. CASE InsertName(t)
  <2>1. user' \in [Thread -> User] /\ IdsHandedOut'
    BY <1>4, UserMoves DEF InsertName
  <2>2. /\ names' \subseteq 1..(next_id - 1)
        /\ receivers' \subseteq 1..(next_id - 1)
    BY <1>4, Zenon DEF InsertName, TypeOK, IdsHandedOut
  <2> QED
    BY <1>4, <2>1, <2>2 DEF InsertName, TypeOK, cg
<1>5. CASE IsNotRunning(t)
  <2>1. user' \in [Thread -> User] /\ IdsHandedOut'
    BY <1>5, UserMoves DEF IsNotRunning, api
  <2> QED
    BY <1>5, <2>1 DEF IsNotRunning, TypeOK, api, efd, cg
<1>6. CASE Start(t)
  <2>1. CASE Die
    <3>1. Idle \in User /\ Off \in Listener
      BY NotificationAssumption DEF Idle, User, Off, Listener
    <3>2. user' \in [Thread -> User] /\ listener' \in Listener
      BY <2>1, <3>1 DEF Die
    <3>3. watch' \in [Id -> 0..MaxLife] /\ ready' \subseteq Id
      BY <2>1, NotificationAssumption DEF Die
    <3>4. IdsHandedOut'
      BY <2>1 DEF Die, IdsHandedOut, Idle
    <3>5. /\ running' \in BOOLEAN /\ started' \in BOOLEAN
          /\ keep' \in BOOLEAN /\ died' \in BOOLEAN
      BY <2>1, Zenon DEF Die, TypeOK
    <3> QED
      BY <1>6, <3>2, <3>3, <3>4, <3>5 DEF Start, TypeOK, api
  <2>2. CASE ~Die
    <3>1. user' \in [Thread -> User] /\ IdsHandedOut'
      BY <1>6, <2>2, UserMoves DEF Start, api
    <3>2. listener' \in Listener
      BY <1>6, <2>2 DEF Start, TypeOK, Listener
    <3>3. running' \in BOOLEAN /\ started' \in BOOLEAN
      BY <1>6, <2>2, Zenon DEF Start
    <3> QED
      BY <1>6, <2>2, <3>1, <3>2, <3>3 DEF Start, TypeOK, api
  <2> QED
    BY <2>1, <2>2
<1> QED
  BY <1>1, <1>2, <1>3, <1>4, <1>5, <1>6 DEF RegisterStep

(* They add names that have receivers, and start a listener that holds     *)
(* nothing.                                                                *)
LEMMA RegisterPointers ==
    ASSUME IInv, NEW t \in Thread, RegisterStep(t)
    PROVE  ListenerHolds' /\ PointersValid'
<1> USE DEF IInv
<1>1. CASE Register(t) \/ CheckRoom(t) \/ SetupEvent(t) \/ IsNotRunning(t)
  <2>1. UNCHANGED <<started, listener, names, receivers>>
    BY <1>1 DEF Register, CheckRoom, SetupEvent, IsNotRunning, api, efd
  <2> QED
    BY <2>1 DEF ListenerHolds, PointersValid
<1>2. CASE InsertName(t)
  <2>1. /\ UNCHANGED <<started, listener>>
        /\ names \subseteq names' /\ names' \subseteq receivers'
    BY <1>2 DEF InsertName, PointersValid
  <2> QED
    BY <2>1 DEF ListenerHolds, PointersValid
<1>3. CASE Start(t)
  <2>1. UNCHANGED <<names, receivers>>
    BY <1>3 DEF Start, api
  <2>2. CASE Die
    BY <2>1, <2>2 DEF Die, ListenerHolds, PointersValid, Off
  <2>3. CASE ~Die
    <3>1. listener' = [Off EXCEPT !.pc = "loop"] /\ started'
      BY <1>3, <2>3 DEF Start, ListenerHolds
    <3> QED
      BY <2>1, <3>1 DEF ListenerHolds, PointersValid, Off
  <2> QED
    BY <2>2, <2>3
<1> QED
  BY <1>1, <1>2, <1>3 DEF RegisterStep

(* The test of EventfdListener::Add is not atomic with the insertion, yet  *)
(* it bounds both.                                                         *)
LEMMA RegisterRoom ==
    ASSUME IInv, NEW t \in Thread, RegisterStep(t)
    PROVE  RoomTaken'
<1> USE DEF IInv
<1>1. CASE Register(t) \/ SetupEvent(t) \/ IsNotRunning(t) \/ Start(t)
  <2>1. UNCHANGED names
    BY <1>1 DEF Register, SetupEvent, IsNotRunning, Start, efd
  <2>2. Past' \subseteq Past
    BY <1>1 DEF Register, SetupEvent, IsNotRunning, Start, Die, Return, Goto,
       TypeOK, User, Past, Idle
  <2> QED
    BY <2>1, <2>2, RoomKept
<1>2. CASE CheckRoom(t)
  <2>1. UNCHANGED names
    BY <1>2 DEF CheckRoom, efd
  <2>2. CASE Cardinality(names) >= MaxEvents
    <3>1. Past' \subseteq Past
      BY <1>2, <2>2 DEF CheckRoom, Return, TypeOK, User, Past, Idle
    <3> QED
      BY <2>1, <3>1, RoomKept
  <2>3. CASE Cardinality(names) < MaxEvents
    BY <2>1, <2>3, NamesFinite, PastFinite, NotificationAssumption
       DEF RoomTaken
  <2> QED
    BY <2>2, <2>3, NamesFinite, NotificationAssumption
<1>3. CASE InsertName(t)
  <2>1. t \in Past
    BY <1>3 DEF InsertName, Past
  <2>2. Past' = Past \ {t}
    BY <1>3 DEF InsertName, Goto, Return, TypeOK, User, Past, Idle
  <2>3. Cardinality(Past') = Cardinality(Past) - 1
    BY <2>1, <2>2, PastFinite, FS_RemoveElement
  <2>4. Cardinality(names') \in {Cardinality(names), Cardinality(names) + 1}
    BY <1>3, NamesFinite, FS_AddElement DEF InsertName
  <2> QED
    BY <2>3, <2>4, NamesFinite, PastFinite, NotificationAssumption
       DEF RoomTaken
<1> QED
  BY <1>1, <1>2, <1>3 DEF RegisterStep

-----------------------------------------------------------------------------
(* A step of the listener on its own locals, apart from resetting an       *)
(* eventfd, can only disturb what it holds.                                *)
LEMMA ListenerOnly ==
    ASSUME IInv, listener' \in Listener, ready' \subseteq ready,
           UNCHANGED <<api, user, efd, life, dir, watch>>
    PROVE  TypeOK' /\ IdsHandedOut' /\ RoomTaken'
<1>1. TypeOK' /\ IdsHandedOut'
  BY DEF IInv, TypeOK, IdsHandedOut, api, efd
<1>2. names' \subseteq names /\ Past' \subseteq Past
  BY DEF efd, Past
<1> QED
  BY <1>1, <1>2, RoomKept DEF IInv

(* The steps of the listener's loop before and after a batch.              *)
LEMMA LoopIInv ==
    ASSUME IInv, ReadSize \/ Poll \/ Leave \/ EndBatch \/ EndDrop
    PROVE  IInv'
<1> USE DEF IInv
<1>0. /\ ready' \subseteq ready
      /\ UNCHANGED <<api, user, efd, life, dir, watch>>
  BY Zenon DEF ReadSize, Poll, Leave, EndBatch, EndDrop, cg
<1>1. UNCHANGED <<started, names, receivers>>
  BY <1>0 DEF api, efd
<1>2. CASE ReadSize
  <2>1. listener' \in Listener
    BY <1>2, NamesFinite, Zenon DEF ReadSize, TypeOK, Listener
  <2>2. ListenerHolds' /\ PointersValid'
    BY <1>1, <1>2 DEF ReadSize, TypeOK, Listener, Off, ListenerHolds,
       PointersValid
  <2> QED
    BY <1>0, <2>1, <2>2, ListenerOnly
<1>3. ASSUME NEW batch \in SUBSET (ready \cap names), listener.pc = "poll",
             listener' = [listener EXCEPT
                   !.pc = IF batch = {} THEN "loop" ELSE "handle",
                   !.batch = batch, !.size = 0]
      PROVE  IInv'
  <2>1. listener' \in Listener
    <3>1. batch \in SUBSET Id
      BY NamesFinite
    <3> QED
      BY <1>3, <3>1, Zero, Zenon DEF TypeOK, Listener
  <2>2. 0 \notin names
    BY DEF TypeOK
  <2>3. ListenerHolds' /\ PointersValid'
    BY <1>1, <1>3, <2>2 DEF TypeOK, Listener, Off, ListenerHolds, PointersValid
  <2> QED
    BY <1>0, <2>1, <2>3, ListenerOnly
<1>4. ASSUME NEW b \in BOOLEAN, NEW w \in {"drop", "exit"},
             listener.pc \in {"poll", "loop"},
             listener'.pc = w, listener'.batch = listener.batch,
             listener'.cur = listener.cur, listener'.drop = names \X {b},
             listener' \in Listener
      PROVE  IInv'
  <2>1. 0 \notin names
    BY DEF TypeOK
  <2>2. ListenerHolds'
    BY <1>1, <1>4 DEF ListenerHolds, Off
  <2>3. PointersValid'
    BY <1>1, <1>4, <2>1, SMTT(60) DEF ListenerHolds, PointersValid
  <2> QED
    BY <1>0, <1>4, <2>2, <2>3, ListenerOnly
<1>5. CASE Poll
  <2>1. ASSUME listener' = [AndDrop(names \X {TRUE}) EXCEPT !.size = 0]
        PROVE  IInv'
    <3> DEFINE l == AndDrop(names \X {TRUE})
    <3>1. names \X {TRUE} \in SUBSET (Id \X BOOLEAN)
      BY NamesFinite, Zenon
    <3>2. /\ l \in Listener /\ l.pc = "drop"
          /\ l.batch = listener.batch /\ l.cur = listener.cur
          /\ l.drop = names \X {TRUE}
      BY <3>1, Zenon DEF AndDrop, TypeOK, Listener
    <3>3. listener' = [l EXCEPT !.size = 0]
      BY <2>1
    <3>4. /\ listener' \in Listener /\ listener'.pc = "drop"
          /\ listener'.batch = listener.batch /\ listener'.cur = listener.cur
          /\ listener'.drop = names \X {TRUE}
      BY <3>2, <3>3, Zero, Zenon DEF Listener
    <3> QED
      BY <1>4, <1>5, <3>4, Zenon DEF Poll
  <2> QED
    BY <1>3, <1>5, <2>1, ZenonT(60) DEF Poll
<1>6. CASE Leave
  <2>1. /\ listener' \in Listener /\ listener'.pc = "exit"
        /\ listener'.batch = listener.batch /\ listener'.cur = listener.cur
        /\ listener'.drop = names \X {FALSE}
    BY <1>6, NamesFinite, Zenon DEF Leave, TypeOK, Listener
  <2> QED
    BY <1>4, <1>6, <2>1, Zenon DEF Leave
<1>7. CASE EndBatch \/ EndDrop
  <2>1. listener' \in Listener
    BY <1>7 DEF EndBatch, EndDrop, TypeOK, Listener
  <2>2. ListenerHolds' /\ PointersValid'
    BY <1>1, <1>7 DEF EndBatch, EndDrop, TypeOK, Listener, Off, ListenerHolds,
       PointersValid
  <2> QED
    BY <1>0, <2>1, <2>2, ListenerOnly
<1> QED
  BY <1>2, <1>5, <1>6, <1>7, SMTT(60)

(* Queueing an event of names that is not queued yet.                      *)
LEMMA DropOneMore ==
    ASSUME PointersValid, UNCHANGED <<names, receivers>>,
           NEW e \in names, NEW b \in BOOLEAN,
           \A x \in listener.drop : x[1] # e,
           listener'.drop \subseteq listener.drop \cup {<<e, b>>},
           listener'.batch \subseteq listener.batch \ {e},
           listener'.cur \notin names, listener'.pc = "handle"
    PROVE  PointersValid'
<1>1. \A x \in listener'.drop : x \in listener.drop \/ x = <<e, b>>
  OBVIOUS
<1>2. <<e, b>>[1] = e
  OBVIOUS
<1>3. \A x \in listener'.drop :
         x[1] \in names /\ x[1] \notin listener'.batch \cup {listener'.cur}
  BY <1>1, <1>2 DEF PointersValid
<1>4. \A x, y \in listener'.drop : y[1] = x[1] => y = x
  <2> SUFFICES ASSUME NEW x \in listener'.drop, NEW y \in listener'.drop,
                      y[1] = x[1]
               PROVE  y = x
    OBVIOUS
  <2>1. CASE x \in listener.drop /\ y \in listener.drop
    BY <2>1 DEF PointersValid
  <2>2. CASE x = <<e, b>> \/ y = <<e, b>>
    BY <1>1, <1>2, <2>2
  <2> QED
    BY <1>1, <2>1, <2>2
<1> QED
  BY <1>3, <1>4 DEF PointersValid

(* An event moves from the batch to those to delete.                       *)
LEMMA QueueIInv ==
    ASSUME IInv, NEW e \in listener.batch, NEW b \in BOOLEAN, Queue(e, b),
           listener.pc = "handle", ready' \subseteq ready,
           UNCHANGED <<api, user, efd, life, dir, watch>>
    PROVE  IInv'
<1> USE DEF IInv
<1>1. e \in Id /\ e \in names /\ e # 0
  BY DEF TypeOK, Listener, PointersValid, Id
<1>2. listener' \in Listener
  <2>1. <<e, b>> \in Id \X BOOLEAN
    BY <1>1
  <2> QED
    BY <2>1, Zenon DEF Queue, TypeOK, Listener
<1>3. /\ listener'.pc = "handle" /\ listener'.cur = 0
      /\ listener'.batch = listener.batch \ {e}
      /\ listener'.drop = listener.drop \cup {<<e, b>>}
  BY DEF Queue, TypeOK, Listener, ListenerHolds
<1>4. ListenerHolds'
  BY <1>3 DEF ListenerHolds, Off, efd
<1>5. PointersValid'
  <2>1. UNCHANGED <<names, receivers>>
    BY DEF api, efd
  <2>2. \A x \in listener.drop : x[1] # e
    BY DEF PointersValid
  <2>3. listener'.cur \notin names
    BY <1>3 DEF TypeOK
  <2> QED
    BY <1>1, <1>3, <2>1, <2>2, <2>3, DropOneMore
<1> QED
  BY <1>2, <1>4, <1>5, ListenerOnly

(* The steps that handle one event of a batch.                             *)
LEMMA HandleIInv ==
    ASSUME IInv, NEW e \in listener.batch, HandlePolledEvent(e)
    PROVE  IInv'
<1> USE DEF IInv
<1>1. UNCHANGED <<api, user, efd, life, dir, watch>>
  BY DEF HandlePolledEvent
<1>2. ASSUME NEW b \in BOOLEAN, Queue(e, b), UNCHANGED ready
      PROVE  IInv'
  BY <1>1, <1>2, QueueIInv DEF HandlePolledEvent
<1>3. ASSUME listener' = [listener EXCEPT !.batch = @ \ {e}, !.cur = e,
                                          !.pc = "report"],
             ready' = ready \ {e}
      PROVE  IInv'
  <2>1. e \in Id /\ e \in names
    BY DEF TypeOK, Listener, PointersValid
  <2>2. listener' \in Listener
    <3>1. e \in 0..MaxId
      BY <2>1 DEF Id
    <3> QED
      BY <1>3, <3>1, Zenon DEF TypeOK, Listener
  <2>3. /\ listener'.pc = "report" /\ listener'.cur = e
        /\ listener'.batch = listener.batch \ {e}
        /\ listener'.drop = listener.drop
    BY <1>3 DEF TypeOK, Listener
  <2>4. ListenerHolds'
    BY <1>1, <2>3 DEF HandlePolledEvent, ListenerHolds, Off, efd
  <2>5. PointersValid'
    BY <1>1, <2>1, <2>3 DEF PointersValid, api, efd
  <2> QED
    BY <1>1, <1>3, <2>2, <2>4, <2>5, ListenerOnly
<1> QED
  BY <1>2, <1>3, Zenon DEF HandlePolledEvent

(* EventReceiver::ReportEvent and the user's callback.                     *)
LEMMA ReportIInv ==
    ASSUME IInv, ReportEvent \/ Deliver
    PROVE  IInv'
<1> USE DEF IInv
<1>1. UNCHANGED <<api, user, efd, life, dir, watch>> /\ ready' \subseteq ready
  BY DEF ReportEvent, Deliver, cg
<1>2. /\ listener.cur \in Id /\ listener.cur \in names
      /\ listener.cur \notin listener.batch
  BY NamesFinite DEF ReportEvent, Deliver, PointersValid, ListenerHolds
<1>3. listener.pc \in {"report", "deliver"}
  BY DEF ReportEvent, Deliver
<1>4. CASE listener' = [listener EXCEPT !.pc = "deliver"]
  <2>1. listener' \in Listener
    BY <1>4 DEF TypeOK, Listener
  <2>2. ListenerHolds' /\ PointersValid'
    BY <1>1, <1>3, <1>4 DEF TypeOK, Listener, ListenerHolds, PointersValid, Off,
       api, efd
  <2> QED
    BY <1>1, <2>1, <2>2, ListenerOnly
<1>5. ASSUME NEW more \in {{}, {<<listener.cur, FALSE>>}},
             listener' = [listener EXCEPT !.pc = "handle", !.cur = 0,
                                          !.drop = @ \cup more]
      PROVE  IInv'
  <2>1. listener' \in Listener
    <3>1. more \in SUBSET (Id \X BOOLEAN)
      <4>1. <<listener.cur, FALSE>> \in Id \X BOOLEAN
        BY <1>2, Zenon
      <4> QED
        BY <1>5, <4>1, Zenon
    <3> QED
      BY <1>5, <3>1, Zero, Zenon DEF TypeOK, Listener
  <2>2. /\ listener'.pc = "handle" /\ listener'.cur = 0
        /\ listener'.batch = listener.batch
        /\ listener'.drop = listener.drop \cup more
    BY <1>5 DEF TypeOK, Listener
  <2>3. 0 \notin names
    BY DEF TypeOK
  <2>4. ListenerHolds'
    BY <1>1, <1>3, <2>2, <2>3 DEF ListenerHolds, PointersValid, Off, efd
  <2>5. PointersValid'
    <3>1. UNCHANGED <<names, receivers>>
      BY <1>1 DEF api, efd
    <3>2. \A x \in listener.drop : x[1] # listener.cur
      BY DEF PointersValid
    <3>3. /\ listener'.drop \subseteq listener.drop \cup {<<listener.cur, FALSE>>}
          /\ listener'.batch \subseteq listener.batch \ {listener.cur}
      BY <1>2, <1>5, <2>2, Zenon
    <3> QED
      BY <1>2, <2>2, <2>3, <3>1, <3>2, <3>3, DropOneMore, Zenon
  <2> QED
    BY <1>1, <2>1, <2>4, <2>5, ListenerOnly
<1>6. CASE ReportEvent
  BY <1>4, <1>5, <1>6 DEF ReportEvent
<1>7. CASE Deliver
  <2>1. listener' = [listener EXCEPT !.pc = "handle", !.cur = 0,
                                     !.drop = @ \cup {}]
    BY <1>7, Zenon DEF Deliver, TypeOK, Listener
  <2> QED
    BY <1>5, <2>1
<1> QED
  BY <1>6, <1>7

(* The listener stops listening to an event: no other pointer it holds is  *)
(* to the EventInfo that goes.                                             *)
LEMMA DropIInv ==
    ASSUME IInv, NEW d \in listener.drop, ReportTermination(d)
    PROVE  IInv'
<1> USE DEF IInv
<1>1. /\ listener.pc \in {"drop", "exit"}
      /\ names' = names \ {d[1]} /\ UNCHANGED <<receivers, user, started, next_id>>
  BY DEF ReportTermination, api
<1>2. listener' \in Listener
  BY DEF ReportTermination, TypeOK, Listener
<1>3. /\ listener'.pc = listener.pc /\ listener'.cur = listener.cur
      /\ listener'.batch = listener.batch
      /\ listener'.drop = listener.drop \ {d}
  BY DEF ReportTermination, TypeOK, Listener
<1>4. TypeOK'
  <2>1. watch' \in [Id -> 0..MaxLife]
    BY Zero, Zenon DEF ReportTermination, TypeOK
  <2> QED
    BY <1>1, <1>2, <2>1 DEF ReportTermination, TypeOK, api
<1>5. IdsHandedOut' /\ ListenerHolds'
  BY <1>1, <1>3 DEF IdsHandedOut, ListenerHolds, Off
<1>6. PointersValid'
  <2>1. listener'.batch = {}
    BY <1>1, <1>3 DEF ListenerHolds
  <2> QED
    BY <1>1, <1>3, <2>1 DEF PointersValid
<1>7. RoomTaken'
  <2>1. names' \subseteq names /\ Past' \subseteq Past
    BY <1>1 DEF Past
  <2> QED
    BY <2>1, RoomKept
<1> QED
  BY <1>4, <1>5, <1>6, <1>7

-----------------------------------------------------------------------------
(* Clients, the kernel and the container leave threads, names and listener *)
(* alone; so does the end of the listener's thread, apart from its state.  *)
LEMMA OutsideIInv ==
    ASSUME IInv,
           \/ Stop \/ Destroy \/ Create \/ Exit
           \/ \E id \in Id : Unregister(id) \/ Event(id)
    PROVE  IInv'
<1> USE DEF IInv
<1>1. UNCHANGED <<names, receivers, user, started, next_id>>
  BY DEF Stop, Destroy, Create, Exit, Unregister, Event, api, efd
<1>2. \/ listener' = listener
      \/ /\ listener.pc = "exit" /\ listener.drop = {}
         /\ listener' = [listener EXCEPT !.pc = "off"]
  BY DEF Stop, Destroy, Create, Exit, Unregister, Event
<1>3. TypeOK'
  <2>1. listener' \in Listener
    BY <1>2 DEF TypeOK, Listener
  <2>2. active' \subseteq active
    BY DEF Stop, Destroy, Create, Exit, Unregister, Event, api
  <2>3. running' \in BOOLEAN /\ keep' \in BOOLEAN /\ died' \in BOOLEAN
        /\ dir' \in BOOLEAN
    BY Zenon DEF Stop, Destroy, Create, Exit, Unregister, Event, efd, cg, TypeOK
  <2>4. /\ life' \in 0..MaxLife /\ ready' \subseteq Id
        /\ UNCHANGED watch
    BY NotificationAssumption DEF Stop, Destroy, Create, Exit, Unregister, Event,
       cg, TypeOK
  <2> QED
    BY <1>1, <2>1, <2>2, <2>3, <2>4 DEF TypeOK
<1>4. IdsHandedOut' /\ ListenerHolds' /\ PointersValid'
  BY <1>1, <1>2 DEF IdsHandedOut, ListenerHolds, PointersValid, Off, TypeOK,
     Listener
<1>5. RoomTaken'
  <2>1. names' \subseteq names /\ Past' \subseteq Past
    BY <1>1 DEF Past
  <2> QED
    BY <2>1, RoomKept
<1> QED
  BY <1>3, <1>4, <1>5

(* The invariant is inductive.                                             *)
LEMMA NextIInv == IInv /\ [Next]_vars => IInv'
<1> SUFFICES ASSUME IInv, [Next]_vars PROVE IInv'
  OBVIOUS
<1>1. ASSUME NEW t \in Thread, RegisterStep(t)
      PROVE  IInv'
  BY <1>1, RegisterTyped, RegisterPointers, RegisterRoom DEF IInv
<1>2. CASE Run
  BY <1>2, LoopIInv, HandleIInv, ReportIInv, DropIInv, OutsideIInv DEF Run
<1>3. CASE UNCHANGED vars
  <2>1. TypeOK' /\ IdsHandedOut' /\ RoomTaken'
    BY <1>3, ListenerOnly DEF vars, cg, IInv, TypeOK
  <2> QED
    BY <1>3, <2>1 DEF vars, api, efd, IInv, ListenerHolds, PointersValid
<1> QED
  BY <1>1, <1>2, <1>3, OutsideIInv DEF Next

(* IInv holds in every reachable state.                                    *)
LEMMA SpecIInv == Spec => []IInv
BY InitIInv, NextIInv, PTL DEF Spec

-----------------------------------------------------------------------------
(* Every variable keeps its type: the ids in use are ids that              *)
(* ActiveNotifications::Add has handed out.                                *)
THEOREM Typing == Spec => []TypeOK
<1>1. IInv => TypeOK
  BY DEF IInv
<1> QED
  BY <1>1, SpecIInv, PTL

(* However many threads register, the EventInfo and EventReceiver pointers *)
(* the listener works with are alive, and the CHECK of ReportTermination   *)
(* does not fail.                                                          *)
THEOREM PointersStayValid == Spec => []PointersValid
<1>1. IInv => PointersValid
  BY DEF IInv
<1> QED
  BY <1>1, SpecIInv, PTL

(* The test and the insertion of EventfdListener::Add are two critical     *)
(* sections; with N threads the number of events stays below the limit     *)
(* plus N, for every N and every limit.                                    *)
THEOREM OvershootIsBounded == Spec => []OvershootBounded
<1>1. IInv => OvershootBounded
  <2> SUFFICES ASSUME IInv PROVE OvershootBounded
    OBVIOUS
  <2> QED
    BY NamesFinite, PastFinite, NotificationAssumption
       DEF IInv, RoomTaken, OvershootBounded
<1> QED
  BY <1>1, SpecIInv, PTL
=============================================================================
