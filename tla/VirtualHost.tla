---------------------------- MODULE VirtualHost ----------------------------
(***************************************************************************)
(* How a call finds the init process of a virtual host                     *)
(* (lmctfy/resources/nscon_namespace_handler.cc) and joins its namespaces  *)
(* (nscon/namespace_controller_impl.cc, nscon/ns_handle.cc) while          *)
(* processes fork, exit, change parents and PIDs are used again.           *)
(*                                                                         *)
(* There is one virtual host, a container below "/" with its own PID       *)
(* namespace.  One call is followed; of other Runs there are the nscon     *)
(* processes they start.                                                   *)
(***************************************************************************)
EXTENDS Integers

CONSTANTS
    Pid,       \* the PIDs, 1 and 2 among them
    MaxBirths, \* bound on the processes that start and on the Runs
    kMaxTries  \* 10 in the code

ASSUME VirtualHostAssumption ==
    /\ {1, 2} \subseteq Pid /\ Pid \subseteq Nat \ {0}
    /\ MaxBirths \in Nat /\ kMaxTries \in Nat \ {0}

VARIABLES
    proc,   \* PID -> the process that has it
    init,   \* the init process of the virtual host, 0 when it is dead
    births, \* processes that started, and Runs, so far
    call,   \* the call in progress
    past    \* history: what was so while the call was searching

vars == <<proc, init, births, call, past>>

(* A process has a namespace, a parent and the cgroup it is in: "self",    *)
(* "sub" of a subcontainer, "out".                                         *)
Free            == [ns |-> "none", ppid |-> 0, cgroup |-> "out"]
Process(n, p, c) == [ns |-> n, ppid |-> p, cgroup |-> c]

Alive(p)  == proc[p].ns # "none"
Unused    == {p \in Pid : ~Alive(p)}
In(c)     == {p \in Pid : proc[p].cgroup = c}

-----------------------------------------------------------------------------
(* External: the kernel and the processes of the machine.                  *)

(* The children of a process that exits go to the init of its namespace;   *)
(* with the init of the virtual host all its processes die.                *)
Gone(p) == IF p = init THEN {q \in Pid : proc[q].ns = "vh"} ELSE {p}
Heir(p) == IF proc[p].ns = "vh" /\ init # p THEN init ELSE 1

Without(dead) ==
    [q \in Pid |->
        IF q \in dead THEN Free
        ELSE IF proc[q].ppid \in dead THEN [proc[q] EXCEPT !.ppid = Heir(proc[q].ppid)]
        ELSE proc[q]]

Exit(p) ==
    /\ Alive(p) /\ p # 1 /\ p # call.helper
    /\ proc' = Without(Gone(p))
    /\ init' = IF p = init THEN 0 ELSE init
    /\ call' = [call EXCEPT !.cookie = @ /\ call.handle \notin Gone(p)]
    /\ UNCHANGED births

Start(q, process) ==
    /\ q \in Unused
    /\ proc' = [proc EXCEPT ![q] = process]

Count == births < MaxBirths /\ births' = births + 1

(* A process of the virtual host forks; one starts outside; another Run    *)
(* starts nscon, in the container and with the namespaces of the host.     *)
Fork(p, q) ==
    /\ Count /\ proc[p].ns = "vh"
    /\ Start(q, Process("vh", p, proc[p].cgroup))
    /\ UNCHANGED <<init, call>>

Spawn(q) ==
    /\ Count
    /\ Start(q, Process("root", 1, "out"))
    /\ UNCHANGED <<init, call>>

OtherRun(q) ==
    /\ Count
    /\ Start(q, Process("root", 1, "self"))
    /\ UNCHANGED <<init, call>>

(* A process is moved into a subcontainer.                                 *)
Move(p) ==
    /\ proc[p].ns = "vh" /\ proc[p].cgroup = "self"
    /\ proc' = [proc EXCEPT ![p].cgroup = "sub"]
    /\ UNCHANGED <<init, births, call>>

-----------------------------------------------------------------------------
(* The calls.                                                              *)
NoCall == [pc |-> "idle", op |-> "lookup", helper |-> 0, current |-> 0,
           previous |-> 0, tries |-> 0, found |-> 0, handle |-> 0, cookie |-> FALSE,
           command |-> 0, result |-> "none"]

Goto(pc)     == [call EXCEPT !.pc = pc]
Fail(result) ==
    [NoCall EXCEPT !.pc = "end", !.op = call.op, !.helper = call.helper, !.result = result]

(* CrawlTreeToFindInit is tried again on NOT_FOUND.                        *)
Forever == [call EXCEPT !.pc = "list"] \* mutant
Retry ==
    IF call.tries + 1 < kMaxTries
    THEN [call EXCEPT !.pc = "list", !.tries = @ + 1, !.current = 0, !.previous = 0]
    ELSE Fail("UNAVAILABLE")

(* Spec, Enter and others look the handler up.  So does Run, from a thread *)
(* it has entered into the container: a tourist, whose process is not      *)
(* listed in it.                                                           *)
Lookup ==
    /\ call.pc = "idle"
    /\ call' = [NoCall EXCEPT !.pc = "front", !.op = "lookup"]
    /\ UNCHANGED <<proc, init, births>>

Run ==
    /\ call.pc = "idle" /\ Count
    /\ call' = [NoCall EXCEPT !.pc = "front", !.op = "run"]
    /\ UNCHANGED <<proc, init>>

(* GetProcesses: those in the container, or else those in subcontainers.   *)
GetProcesses == IF In("self") # {} THEN In("self") ELSE In("sub")

(* IsVirtualHost compares the namespace of the first process listed with   *)
(* the caller's; GetHandler then goes up to "/", whose init is 1.          *)
UseRoot == [call EXCEPT !.pc = "handle", !.current = 0, !.found = 1]

ListFront ==
    /\ call.pc = "front"
    /\ \/ /\ GetProcesses = {}
          /\ call' = UseRoot
       \/ \E p \in GetProcesses : call' = [call EXCEPT !.pc = "isvh", !.current = p]
    /\ UNCHANGED <<proc, init, births>>

IsVirtualHost ==
    /\ call.pc = "isvh"
    /\ call' = IF ~Alive(call.current) THEN Fail("INTERNAL")
               ELSE IF proc[call.current].ns = "root" THEN UseRoot
               ELSE [Goto("list") EXCEPT !.current = 0]
    /\ UNCHANGED <<proc, init, births>>

CrawlStart ==
    /\ call.pc = "list"
    /\ \/ /\ GetProcesses = {}
          /\ call' = Fail("INVALID_ARGUMENT")
       \/ \E p \in GetProcesses : call' = [call EXCEPT !.pc = "parent", !.current = p]
    /\ UNCHANGED <<proc, init, births>>

GetParentPid ==
    /\ call.pc = "parent"
    /\ call' = IF ~Alive(call.current) THEN Retry
               ELSE [call EXCEPT !.pc = "namespace", !.previous = call.current,
                                 !.current = proc[call.current].ppid]
    /\ UNCHANGED <<proc, init, births>>

GetNamespaceId ==
    /\ call.pc = "namespace"
    /\ call' = IF ~Alive(call.current) THEN Fail("INTERNAL")
               ELSE IF proc[call.current].ns = "root" THEN Goto("verify") ELSE Goto("parent")
    /\ UNCHANGED <<proc, init, births>>

(* The parent must still be the one of the crawl, the process be in the    *)
(* container itself.                                                       *)
NotVerified == /\ call.pc = "verify" \* mutant
               /\ call' = Goto("detect") /\ UNCHANGED <<proc, init, births>>
VerifyParent ==
    /\ call.pc = "verify"
    /\ call' = IF ~Alive(call.previous) \/ proc[call.previous].ppid # call.current THEN Retry
               ELSE Goto("detect")
    /\ UNCHANGED <<proc, init, births>>

Detect ==
    /\ call.pc = "detect"
    /\ call' = IF proc[call.previous].cgroup # "self" THEN Retry
               ELSE [call EXCEPT !.pc = "handle", !.found = call.previous,
                                 !.current = 0, !.previous = 0, !.tries = 0]
    /\ UNCHANGED <<proc, init, births>>

(* NsHandleFactory::Get: the handle is the PID with its start time, which  *)
(* is the PID's ("cookie") for as long as that process lives.               *)
GetHandle ==
    /\ call.pc = "handle"
    /\ call' = IF ~Alive(call.found) THEN Fail("INTERNAL")
               ELSE [call EXCEPT !.handle = call.found, !.cookie = TRUE, !.found = 0,
                                 !.pc = IF call.op = "run" THEN "start" ELSE "end",
                                 !.result = IF call.op = "run" THEN "none" ELSE "OK"]
    /\ UNCHANGED <<proc, init, births>>

IsValid == Alive(call.handle) /\ call.cookie

(* NamespaceControllerImpl::Run starts nscon inside the container.         *)
StartNscon(q) ==
    /\ call.pc = "start"
    /\ IF IsValid /\ Unused # {}
       THEN Start(q, Process("root", 1, "self")) /\ call' = [Goto("nscon") EXCEPT !.helper = q]
       ELSE call' = Fail("INTERNAL") /\ UNCHANGED proc
    /\ UNCHANGED <<init, births>>

(* nscon checks the handle again, then attaches to the namespaces of       *)
(* whatever has the PID and forks.                                         *)
CheckHandle ==
    /\ call.pc = "nscon"
    /\ call' = IF IsValid THEN Goto("attach") ELSE Fail("INTERNAL")
    /\ UNCHANGED <<proc, init, births>>

Attach(q) ==
    /\ call.pc = "attach"
    /\ IF Alive(call.handle) /\ Unused # {}
       THEN /\ Start(q, Process(proc[call.handle].ns, call.helper, "self"))
            /\ call' = [Goto("end") EXCEPT !.command = q, !.result = "OK"]
       ELSE call' = Fail("INTERNAL") /\ UNCHANGED proc
    /\ UNCHANGED <<init, births>>

(* The intermediate process exits and leaves the command to the init of    *)
(* its namespace; nscon exits.                                             *)
Return ==
    /\ call.pc = "end"
    /\ proc' = [q \in Pid |->
          IF q = call.helper THEN Free
          ELSE IF q = call.command /\ proc[q].ppid = call.helper
          THEN [proc[q] EXCEPT !.ppid = IF proc[q].ns = "vh" THEN init ELSE 1]
          ELSE proc[q]]
    /\ call' = NoCall
    /\ UNCHANGED <<init, births>>

-----------------------------------------------------------------------------
NoPast == [tree |-> TRUE, inits |-> {}, given |-> [p \in Pid |-> 0]]

Init ==
    /\ proc = [p \in Pid |->
          CASE p = 1 -> [ns |-> "root", ppid |-> 1, cgroup |-> "out"]
            [] p = 2 -> [ns |-> "vh", ppid |-> 1, cgroup |-> "self"]
            [] OTHER -> Free]
    /\ init = 2
    /\ births = 0
    /\ call = NoCall
    /\ past = NoPast

Environment ==
    \/ \E p \in Pid : Exit(p) \/ Move(p) \/ Spawn(p) \/ OtherRun(p)
    \/ \E p, q \in Pid : Fork(p, q)

Search ==
    \/ ListFront \/ IsVirtualHost \/ CrawlStart \/ GetParentPid \/ GetNamespaceId
    \/ VerifyParent \/ Detect \/ GetHandle

Join == CheckHandle \/ Return \/ \E q \in Pid : StartNscon(q) \/ Attach(q)

(* "All PIDs in a VirtualHost container form a tree around init": in it    *)
(* are the init, children of its members and no process of the host.       *)
Tree ==
    \A p \in In("self") \cup In("sub") :
        p = init \/ (proc[p].ns = "vh" /\ proc[proc[p].ppid].ns = "vh")

Step == Environment \/ Lookup \/ Run \/ Search \/ Join

Searching ==
    call.pc \in {"front", "isvh", "list", "parent", "namespace", "verify", "detect", "handle"}

(* The search is over with the handle; of the inits the whole call counts. *)
History ==
    past' = [tree  |-> Searching' => past.tree /\ Tree',
             inits |-> IF call'.pc = "idle" THEN {} ELSE past.inits \cup {init'},
             given |-> [p \in Pid |->
                 IF ~Searching' THEN 0
                 ELSE past.given[p] + IF p \in Unused \ Unused' THEN 1 ELSE 0]]

Next == Step /\ History

Spec == Init /\ [][Next]_vars /\ WF_call(Search \/ Join)

-----------------------------------------------------------------------------
(* The PID has been given out during the search, and one, itself or        *)
(* another, twice.                                                         *)
Recycled(p) == past.given[p] > 0 /\ \E q \in Pid : past.given[q] > 1

(* As long as the assumption of DetectInit holds, the process it finds is  *)
(* or was, during the call, the init of the virtual host, whichever of the *)
(* processes on the way exit and whatever takes their PIDs, unless its own *)
(* PID was given out again and some PID a second time.                     *)
DetectsInit ==
    call.found \notin {0, 1} /\ past.tree /\ ~Recycled(call.found)
        => call.found \in past.inits

(* A call ends, with an answer or an error: an unlucky crawl is repeated   *)
(* kMaxTries times.                                                        *)
CallEnds == call.pc # "idle" ~> call.pc = "idle"

(* A command that Run starts while the virtual host has its init is in the *)
(* namespaces of the virtual host ("Run the specified command inside the   *)
(* container. Multiple instances of run can be active simultaneously.").   *)
RunsInside ==
    call.command # 0 /\ 0 \notin past.inits /\ Alive(call.command)
        => proc[call.command].ns = "vh"
=============================================================================
