---------------------------- MODULE Notifications ----------------------------
(***************************************************************************)
(* Event notifications of a container: ActiveNotifications, the            *)
(* EventFdNotifications of a ContainerApi, and the thread of its           *)
(* EventfdListener.  User threads register and unregister while the        *)
(* listener polls the eventfds and runs the callbacks, and while the       *)
(* container is destroyed and created again under the same name.           *)
(*                                                                         *)
(* A step is what happens under one lock, or one system call.  A           *)
(* registration is known by its id, which also stands for its eventfd, its *)
(* EventInfo and its EventReceiver.                                        *)
(***************************************************************************)
EXTENDS Integers, FiniteSets

CONSTANTS
    Thread,    \* user threads
    MaxEvents, \* max_multiplexed_events_
    MaxId,     \* bound on the registrations
    MaxLife,   \* bound on how often the container is created
    MayFail    \* system calls of the listener may fail

ASSUME NotificationAssumption ==
    /\ IsFiniteSet(Thread) /\ Thread # {}
    /\ MaxEvents \in Nat /\ MaxId \in Nat /\ MaxLife \in Nat
    /\ MayFail \in BOOLEAN

VARIABLES
    active,    \* active_: ids not unregistered
    next_id,   \* next_id_
    user,      \* where each user thread is in RegisterNotification
    receivers, \* event_receivers_
    names,     \* names_, and what epoll_fd_ watches
    listener,  \* the listener thread
    running,   \* running_ of the EventfdListener
    started,   \* running_ of its Thread
    keep,      \* keep_running_
    died,      \* a CHECK has failed
    life, dir, \* the container's cgroup: its incarnation, and whether it is there
    watch,     \* the incarnation an open eventfd watches, or 0
    ready      \* readable eventfds

api  == <<active, next_id, receivers>>
efd  == <<names, running, started, keep, died>>
cg   == <<life, dir, watch, ready>>
vars == <<api, user, listener, efd, cg>>

Id   == 1..MaxId
User == [pc : {"idle", "count", "setup", "insert", "running", "start"}, id : 0..MaxId]
Idle == [pc |-> "idle", id |-> 0]

Listener ==
    [pc    : {"off", "loop", "poll", "handle", "report", "deliver", "drop", "exit"},
     size  : 0..MaxId,             \* size
     batch : SUBSET Id,            \* polled events not yet looked at
     cur   : 0..MaxId,             \* the one being reported
     drop  : SUBSET (Id \X BOOLEAN)] \* pending_delete: ids, with an error or not
Off == [pc |-> "off", size |-> 0, batch |-> {}, cur |-> 0, drop |-> {}]

(* Every variable has its type, and every id in use was handed out by      *)
(* ActiveNotifications::Add.                                               *)
TypeOK ==
    /\ next_id \in 1..(MaxId + 1)
    /\ active \subseteq 1..(next_id - 1)
    /\ receivers \subseteq 1..(next_id - 1)
    /\ names \subseteq 1..(next_id - 1)
    /\ user \in [Thread -> User]
    /\ listener \in Listener
    /\ running \in BOOLEAN /\ started \in BOOLEAN /\ keep \in BOOLEAN
    /\ died \in BOOLEAN
    /\ life \in 0..MaxLife /\ dir \in BOOLEAN
    /\ watch \in [Id -> 0..MaxLife]
    /\ ready \subseteq Id

-----------------------------------------------------------------------------
(* RegisterNotification, by a user thread.  A failure after Add leaves the *)
(* id active for good.                                                     *)

Goto(t, pc) == user' = [user EXCEPT ![t].pc = pc]
Return(t)   == user' = [user EXCEPT ![t] = Idle]

AddEarly(id) == active \cup {id + 1} \* mutant: ++next_id_ for next_id_++
AddId(id)    == active \cup {id}

Register(t) ==
    /\ user[t].pc = "idle" /\ dir /\ keep
    /\ next_id <= MaxId
    /\ active' = AddId(next_id)
    /\ next_id' = next_id + 1
    /\ user' = [user EXCEPT ![t] = [pc |-> "count", id |-> next_id]]
    /\ UNCHANGED <<receivers, listener, efd, cg>>

NoLimit(t) == \* mutant: the number of events is not looked at
    /\ user[t].pc = "count"
    /\ Goto(t, "setup")
    /\ UNCHANGED <<api, listener, efd, cg>>

(* EventfdListener::Add reads the number of events and lets go of the lock.*)
CheckRoom(t) ==
    /\ user[t].pc = "count"
    /\ IF Cardinality(names) >= MaxEvents THEN Return(t) ELSE Goto(t, "setup")
    /\ UNCHANGED <<api, listener, efd, cg>>

SetupEvent(t) ==
    /\ user[t].pc = "setup"
    /\ \/ dir /\ watch' = [watch EXCEPT ![user[t].id] = life] /\ Goto(t, "insert")
       \/ (~dir \/ MayFail) /\ Return(t) /\ UNCHANGED watch
    /\ UNCHANGED <<api, listener, efd, life, dir, ready>>

(* The rest of Add; a failing AddToEpoll leaves the eventfd open.          *)
InsertName(t) ==
    /\ user[t].pc = "insert"
    /\ \/ /\ names' = names \cup {user[t].id}
          /\ receivers' = receivers \cup {user[t].id}
          /\ Goto(t, "running")
       \/ MayFail /\ Return(t) /\ UNCHANGED <<names, receivers>>
    /\ UNCHANGED <<active, next_id, listener, running, started, keep, died, cg>>

IsNotRunning(t) ==
    /\ user[t].pc = "running"
    /\ IF running THEN Return(t) ELSE Goto(t, "start")
    /\ UNCHANGED <<api, listener, efd, cg>>

(* A failed CHECK ends the process: its threads and eventfds are gone.     *)
Die ==
    /\ died' = TRUE /\ running' = FALSE /\ keep' = FALSE
    /\ user' = [t \in Thread |-> Idle]
    /\ listener' = Off
    /\ watch' = [id \in Id |-> 0] /\ ready' = {}
    /\ UNCHANGED started

(* EventfdListener::Start, and the CHECK(!running_) of Thread::Start.      *)
Start(t) ==
    /\ user[t].pc = "start"
    /\ \/ started /\ Die
       \/ /\ ~started
          /\ running' = TRUE /\ started' = TRUE
          /\ listener' = [listener EXCEPT !.pc = "loop"]
          /\ Return(t)
          /\ UNCHANGED <<keep, died, watch, ready>>
    /\ UNCHANGED <<api, names, life, dir>>

(* A client unregisters an id that a call has returned to it.              *)
Returned(id) == id \in receivers /\ \A t \in Thread : user[t].id # id

Unregister(id) ==
    /\ dir /\ keep /\ Returned(id)
    /\ id \in active
    /\ active' = active \ {id}
    /\ UNCHANGED <<next_id, receivers, user, listener, efd, cg>>

(* ~EventFdNotifications, once no thread uses the api: StopSoon, then wait *)
(* for running_ to become false.                                           *)
Stop ==
    /\ keep
    /\ \A t \in Thread : user[t].pc = "idle"
    /\ keep' = FALSE
    /\ UNCHANGED <<api, user, listener, names, running, started, died, cg>>

-----------------------------------------------------------------------------
(* The listener thread: EventfdListener::Run.                              *)

AndDrop(drop) == [listener EXCEPT !.pc = "drop", !.drop = drop]

(* With no events the thread sleeps and looks again.                       *)
ReadSize ==
    /\ listener.pc = "loop" /\ keep
    /\ names # {}
    /\ listener' = [listener EXCEPT !.pc = "poll", !.size = Cardinality(names)]
    /\ UNCHANGED <<api, user, efd, cg>>

(* epoll_wait returns as many of the readable eventfds as the size allows, *)
(* or none after the timeout.                                              *)
Poll ==
    /\ listener.pc = "poll"
    /\ \/ \E batch \in SUBSET (ready \cap names) :
             /\ \/ batch = ready \cap names /\ Cardinality(batch) <= listener.size
                \/ Cardinality(batch) = listener.size
             /\ listener' = [listener EXCEPT
                   !.pc = IF batch = {} THEN "loop" ELSE "handle",
                   !.batch = batch, !.size = 0]
       \/ /\ MayFail
          /\ listener' = [AndDrop(names \X {TRUE}) EXCEPT !.size = 0]
    /\ UNCHANGED <<api, user, efd, cg>>

SizeFirst == \* mutant: size is looked at before keep_running_
    /\ listener.pc = "loop" /\ ~keep /\ names # {}
    /\ listener' = [listener EXCEPT !.pc = "exit", !.drop = names \X {FALSE}]
    /\ UNCHANGED <<api, user, efd, cg>>

Leave ==
    /\ listener.pc = "loop" /\ ~keep
    /\ listener' = [listener EXCEPT !.pc = "exit", !.drop = names \X {FALSE}]
    /\ UNCHANGED <<api, user, efd, cg>>

Queue(e, error) ==
    listener' = [listener EXCEPT !.batch = @ \ {e}, !.drop = @ \cup {<<e, error>>}]

NoContinue(e) == \* mutant: goes on to read when the control file is gone
    /\ listener.pc = "handle"
    /\ \/ ~dir /\ listener' = [listener EXCEPT !.drop = @ \cup {<<e, FALSE>>}] /\ UNCHANGED ready
       \/ MayFail /\ Queue(e, TRUE) /\ UNCHANGED ready
       \/ /\ listener' = [listener EXCEPT !.batch = @ \ {e}, !.cur = e, !.pc = "report"]
          /\ ready' = ready \ {e}
    /\ UNCHANGED <<api, user, efd, life, dir, watch>>

NoReset(e) == \* mutant: the eventfd counter is not read
    /\ listener.pc = "handle"
    /\ \/ ~dir /\ Queue(e, FALSE)
       \/ dir /\ listener' = [listener EXCEPT !.batch = @ \ {e}, !.cur = e, !.pc = "report"]
    /\ UNCHANGED <<api, user, efd, cg>>

(* Access to the control file, then the read that resets the counter.      *)
HandlePolledEvent(e) ==
    /\ listener.pc = "handle"
    /\ \/ ~dir /\ Queue(e, FALSE) /\ UNCHANGED ready
       \/ dir /\ MayFail /\ Queue(e, TRUE) /\ UNCHANGED ready
       \/ /\ dir
          /\ listener' = [listener EXCEPT !.batch = @ \ {e}, !.cur = e, !.pc = "report"]
          /\ ready' = ready \ {e}
    /\ UNCHANGED <<api, user, efd, life, dir, watch>>

(* EventReceiver::ReportEvent: Contains, then the user's callback.         *)
ReportEvent ==
    /\ listener.pc = "report"
    /\ listener' =
         IF listener.cur \in active
         THEN [listener EXCEPT !.pc = "deliver"]
         ELSE [listener EXCEPT !.pc = "handle", !.cur = 0,
                               !.drop = @ \cup {<<listener.cur, FALSE>>}]
    /\ UNCHANGED <<api, user, efd, cg>>

Deliver ==
    /\ listener.pc = "deliver"
    /\ listener' = [listener EXCEPT !.pc = "handle", !.cur = 0]
    /\ UNCHANGED <<api, user, efd, cg>>

EndBatch ==
    /\ listener.pc = "handle" /\ listener.batch = {}
    /\ listener' = [listener EXCEPT !.pc = "drop"]
    /\ UNCHANGED <<api, user, efd, cg>>

(* With an error the callback is told so, else the exit is logged.         *)
ReportTermination(d) ==
    /\ listener.pc \in {"drop", "exit"}
    /\ listener' = [listener EXCEPT !.drop = @ \ {d}]
    /\ names' = names \ {d[1]}
    /\ watch' = [watch EXCEPT ![d[1]] = 0]
    /\ ready' = ready \ {d[1]}
    /\ UNCHANGED <<api, user, running, started, keep, died, life, dir>>

EndDrop ==
    /\ listener.pc = "drop" /\ listener.drop = {}
    /\ listener' = [listener EXCEPT !.pc = "loop"]
    /\ UNCHANGED <<api, user, efd, cg>>

Exit ==
    /\ listener.pc = "exit" /\ listener.drop = {}
    /\ listener' = [listener EXCEPT !.pc = "off"]
    /\ running' = FALSE
    /\ UNCHANGED <<api, user, names, started, keep, died, cg>>

Run ==
    \/ ReadSize \/ Poll \/ Leave
    \/ \E e \in listener.batch : HandlePolledEvent(e)
    \/ ReportEvent \/ Deliver \/ EndBatch
    \/ \E d \in listener.drop : ReportTermination(d)
    \/ EndDrop \/ Exit

-----------------------------------------------------------------------------
(* The container and the kernel.  Removing a cgroup signals the eventfds   *)
(* that watch it.                                                          *)

Event(id) ==
    /\ dir /\ watch[id] = life
    /\ ready' = ready \cup {id}
    /\ UNCHANGED <<api, user, listener, efd, life, dir, watch>>

Destroy ==
    /\ dir
    /\ dir' = FALSE
    /\ ready' = ready \cup {id \in Id : watch[id] = life}
    /\ UNCHANGED <<api, user, listener, efd, life, watch>>

Create ==
    /\ ~dir /\ life < MaxLife
    /\ dir' = TRUE
    /\ life' = life + 1
    /\ UNCHANGED <<api, user, listener, efd, watch, ready>>

-----------------------------------------------------------------------------
Init ==
    /\ active = {} /\ next_id = 1 /\ receivers = {}
    /\ user = [t \in Thread |-> Idle]
    /\ names = {} /\ running = FALSE /\ started = FALSE /\ keep = TRUE
    /\ died = FALSE
    /\ listener = Off
    /\ life = 0 /\ dir = FALSE
    /\ watch = [id \in Id |-> 0] /\ ready = {}

RegisterStep(t) ==
    \/ Register(t) \/ CheckRoom(t) \/ SetupEvent(t) \/ InsertName(t)
    \/ IsNotRunning(t) \/ Start(t)

Next ==
    \/ \E t \in Thread : RegisterStep(t)
    \/ \E id \in Id : Unregister(id) \/ Event(id)
    \/ Stop \/ Run \/ Destroy \/ Create

Spec == Init /\ [][Next]_vars

(* The listener's thread is scheduled, and user callbacks return.          *)
LiveSpec == Spec /\ WF_vars(Run)

-----------------------------------------------------------------------------
(* The EventInfo and EventReceiver pointers the listener works with are    *)
(* alive whatever the user threads do meanwhile, and no eventfd is queued  *)
(* twice for deletion: the CHECK(it != names_.end()) of ReportTermination  *)
(* cannot fail.                                                            *)
PointersValid ==
    /\ names \subseteq receivers
    /\ listener.batch \subseteq names
    /\ listener.pc \in {"report", "deliver"} => listener.cur \in names
    /\ \A d \in listener.drop :
          /\ d[1] \in names
          /\ d[1] \notin listener.batch \cup {listener.cur}
          /\ \A e \in listener.drop : e[1] = d[1] => e = d

(* A registered event is never lost: once its eventfd is readable and      *)
(* listened to, the running listener reads it or stops listening to it,    *)
(* also when it fired before it was added to epoll.                        *)
EventsHandled ==
    \A id \in Id :
        (started /\ id \in ready \cap names) ~> (id \notin ready \cap names)

(* ~EventFdNotifications returns: after StopSoon the thread ends, also     *)
(* when it has no events or is in the middle of a batch.                   *)
StopReturns == ~keep ~> ~running

(* "Will reject any further Add() calls after that number is reached.":    *)
(* Add tests the number in one critical section and inserts in a later     *)
(* one, so each other thread may bring it one beyond, and no more.         *)
OvershootBounded ==
    Cardinality(names) < MaxEvents + Cardinality(Thread)

(* "Class is thread-safe.": concurrent registrations start the listener's  *)
(* thread once, so that no CHECK fails.                                    *)
StartedOnce == ~died
=============================================================================
