--------------------------- MODULE ProcessLauncher ---------------------------
(***************************************************************************)
(* Starting a process in namespaces: the library's NamespaceController     *)
(* (nscon/namespace_controller_impl.cc), the nscon program it runs, and the*)
(* ProcessLauncher in it (nscon/process_launcher.cc) with its IpcAgents    *)
(* (nscon/ipc_agent.cc).                                                   *)
(*                                                                         *)
(* L is the lmctfy process.  For Create, nscon is the launcher T: it clones*)
(* the child C (CloneAndLaunch), runs the configurators from outside, lets *)
(* C go on, and learns from a pipe whether C has exec'ed or failed.  For   *)
(* Run, nscon is P, which forks T to do this and learns C's pid from a     *)
(* message of C (NewNsProcessInTarget).                                    *)
(*                                                                         *)
(* An IpcAgent is a listening socket, where a message waits to be accepted,*)
(* and a pipe, which is at its end once no process holds its write end.    *)
(* "out" is the pipe that carries nscon's output to L.                     *)
(***************************************************************************)
EXTENDS Integers, Sequences

CONSTANTS
    Outside, \* number of configurators with something to set up outside
    MayFail, \* setup, clone, fork, connect and execve may fail
    MayDie   \* a process of the container may be killed

ASSUME LauncherAssumption ==
    /\ Outside \in Nat
    /\ MayFail \in BOOLEAN /\ MayDie \in BOOLEAN

VARIABLES
    mode,    \* which of the two calls is made
    pc,      \* where each process is
    sock,    \* the senders of the messages waiting at each agent's socket
    writers, \* who holds the write end of each agent's pipe
    bytes,   \* bytes in each agent's pipe
    setup,   \* configurators run outside so far
    moved,   \* C no longer sees the sockets' paths
    said,    \* what nscon prints: a status, and whose pid or error message
    result   \* what the call of L has returned

vars == <<mode, pc, sock, writers, bytes, setup, moved, said, result>>

Proc  == {"L", "P", "T", "C"}
Agent == {"sync", "err", "pid", "out"}
Nscon == IF mode = "new" THEN "T" ELSE "P"
Pc    == [L : {"start", "read", "wait", "done"},
          P : {"none", "fork", "wait", "pid", "error", "print", "done",
               "killed"},
          T : {"none", "clone", "outside", "wait", "read", "report", "signal",
               "print", "done", "killed"},
          C : {"none", "read", "pid", "inside", "exec", "fail", "signal",
               "running", "dead", "killed"}]
None  == [status |-> "none", from |-> "none"]

(* Every variable has its type, and an agent never has more than one       *)
(* message or one byte waiting: each side consumes what the other sends.   *)
TypeOK ==
    /\ mode \in {"new", "target"}
    /\ pc \in Pc
    /\ sock \in [Agent -> {<<>>} \cup {<<p>> : p \in Proc}]
    /\ writers \in [Agent -> SUBSET Proc]
    /\ bytes \in [Agent -> 0..1]
    /\ setup \in 0..Outside
    /\ moved \in BOOLEAN
    /\ {said, result} \subseteq
         [status : {"none", "ok", "error"}, from : Proc \cup {"none"}]

-----------------------------------------------------------------------------
(* IpcAgent.                                                               *)

Goto(p, to)  == pc' = [pc EXCEPT ![p] = to]
Send(a, p)   == sock' = [sock EXCEPT ![a] = Append(@, p)]
Accept(a)    == sock[a] # <<>> /\ sock' = [sock EXCEPT ![a] = Tail(@)]
Signal(a)    == bytes' = [bytes EXCEPT ![a] = @ + 1]
CloseEnds(p) == writers' = [a \in Agent |-> writers[a] \ {p}]

(* WaitForChild closes the caller's own write end, then reads.             *)
KeepsEnd(a, p) == bytes[a] = 0 /\ writers[a] = {} \* mutant: end not closed
AtEnd(a, p)    == bytes[a] = 0 /\ writers[a] \subseteq {p}
Signalled(a)   == bytes[a] > 0

-----------------------------------------------------------------------------
(* CloneAndLaunch, in T.                                                   *)

(* nscon prints what its call returns.  In the process that                *)
(* NewNsProcessInTarget has forked, success is a plain exit and an error   *)
(* is reported to P first.                                                 *)
Say(status, from) == said' = [status |-> status, from |-> from]

LaunchReturn(status, from) ==
    \/ mode = "new" /\ Goto("T", "print") /\ Say(status, from) /\ UNCHANGED writers
    \/ /\ mode = "target"
       /\ IF status = "ok" THEN Goto("T", "done") /\ CloseEnds("T")
                           ELSE Goto("T", "report") /\ UNCHANGED writers
       /\ UNCHANGED said

Clone ==
    /\ pc.T = "clone"
    /\ \/ /\ pc' = [pc EXCEPT !.T = "outside", !.C = "read"]
          /\ writers' = [a \in Agent |->
                           IF a = "sync" \/ "T" \in writers[a]
                           THEN writers[a] \cup {"T", "C"} ELSE writers[a]]
          /\ UNCHANGED said
       \/ MayFail /\ LaunchReturn("error", "T")
    /\ UNCHANGED <<mode, sock, bytes, setup, moved, result>>

ResumeEarly == \* mutant: the child goes on before the last configurator
    /\ pc.T = "outside" /\ setup + 1 >= Outside
    /\ Send("sync", "T") /\ Goto("T", "wait")
    /\ UNCHANGED <<mode, bytes, setup, moved, writers, said, result>>

Resume ==
    /\ pc.T = "outside" /\ (mode = "new" => setup = Outside)
    /\ \/ Send("sync", "T") /\ Goto("T", "wait") /\ UNCHANGED <<writers, said>>
       \/ MayFail /\ LaunchReturn("error", "T") /\ UNCHANGED sock
    /\ UNCHANGED <<mode, bytes, setup, moved, result>>

SetupOutside ==
    /\ pc.T = "outside" /\ mode = "new" /\ setup < Outside
    /\ \/ setup' = setup + 1 /\ UNCHANGED <<pc, writers, said>>
       \/ MayFail /\ LaunchReturn("error", "T") /\ UNCHANGED setup
    /\ UNCHANGED <<mode, sock, bytes, moved, result>>

CancelledIsError == \* mutant: the end of the pipe is taken for an error
    /\ pc.T = "wait"
    /\ \/ AtEnd("sync", "T") /\ LaunchReturn("error", "T")
       \/ Signalled("sync") /\ Goto("T", "read") /\ UNCHANGED <<writers, said>>
    /\ UNCHANGED <<mode, sock, bytes, setup, moved, result>>

(* "No error message from child. Assume exec succeeded."                   *)
WaitForChild ==
    /\ pc.T = "wait"
    /\ \/ AtEnd("sync", "T") /\ LaunchReturn("ok", "C")
       \/ Signalled("sync") /\ Goto("T", "read") /\ UNCHANGED <<writers, said>>
    /\ UNCHANGED <<mode, sock, bytes, setup, moved, result>>

ReadError ==
    /\ pc.T = "read"
    /\ Accept("sync")
    /\ LaunchReturn("error", Head(sock["sync"]))
    /\ UNCHANGED <<mode, bytes, setup, moved, result>>

(* The tail of NewNsProcessInTarget's forked process.                      *)
ReportError ==
    /\ pc.T = "report"
    /\ Send("err", "T") /\ Goto("T", "signal")
    /\ UNCHANGED <<mode, writers, bytes, setup, moved, said, result>>

ExitError ==
    /\ pc.T = "signal"
    /\ Signal("err") /\ CloseEnds("T") /\ Goto("T", "done")
    /\ UNCHANGED <<mode, sock, setup, moved, said, result>>

-----------------------------------------------------------------------------
(* CloneFn and CloneFnInvoker, in C.                                       *)

Continue(to) == Goto("C", to) \/ (MayFail /\ Goto("C", "fail"))

NoRead == \* mutant: the child does not wait for its parent
    /\ pc.C = "read"
    /\ Goto("C", IF mode = "target" THEN "pid" ELSE "inside")
    /\ UNCHANGED <<mode, sock, writers, bytes, setup, moved, said, result>>

ReadResume ==
    /\ pc.C = "read"
    /\ Accept("sync")
    /\ Goto("C", IF mode = "target" THEN "pid" ELSE "inside")
    /\ UNCHANGED <<mode, writers, bytes, setup, moved, said, result>>

WritePid ==
    /\ pc.C = "pid"
    /\ \/ Send("pid", "C") /\ Goto("C", "inside")
       \/ MayFail /\ Goto("C", "fail") /\ UNCHANGED sock
    /\ UNCHANGED <<mode, writers, bytes, setup, moved, said, result>>

(* A failing setup may have changed the root already.                      *)
SetupInside ==
    /\ pc.C = "inside"
    /\ Continue("exec")
    /\ moved' \in {FALSE, mode = "new"}
    /\ UNCHANGED <<mode, sock, writers, bytes, setup, said, result>>

(* RunSpecConfigurator::Configure and execve, which closes the write ends. *)
Exec ==
    /\ pc.C = "exec"
    /\ \/ Goto("C", "running") /\ CloseEnds("C")
       \/ MayFail /\ Goto("C", "fail") /\ UNCHANGED writers
    /\ UNCHANGED <<mode, sock, bytes, setup, moved, said, result>>

(* An error of WriteData is ignored: the parent is signalled all the same. *)
WriteError ==
    /\ pc.C = "fail"
    /\ IF moved THEN UNCHANGED sock ELSE Send("sync", "C")
    /\ Goto("C", "signal")
    /\ UNCHANGED <<mode, writers, bytes, setup, moved, said, result>>

NoSignal == \* mutant: exits without SignalParent
    /\ pc.C = "signal"
    /\ CloseEnds("C") /\ Goto("C", "dead")
    /\ UNCHANGED <<mode, sock, bytes, setup, moved, said, result>>

SignalParent ==
    /\ pc.C = "signal"
    /\ Signal("sync") /\ CloseEnds("C") /\ Goto("C", "dead")
    /\ UNCHANGED <<mode, sock, setup, moved, said, result>>

(* A process of nscon may be killed before the command runs.               *)
Killed(p) ==
    /\ MayDie
    /\ p # "L" /\ pc[p] \notin {"none", "running", "dead", "done", "killed"}
    /\ Goto(p, "killed")
    /\ CloseEnds(p)
    /\ UNCHANGED <<mode, sock, bytes, setup, moved, said, result>>

-----------------------------------------------------------------------------
(* NewNsProcessInTarget, in P.                                             *)

Fork ==
    /\ pc.P = "fork"
    /\ \/ /\ pc' = [pc EXCEPT !.P = "wait", !.T = "clone"]
          /\ writers' = [writers EXCEPT !["err"] = {"P", "T"}, !["pid"] = {"P", "T"},
                                       !["out"] = @ \cup {"T"}]
          /\ UNCHANGED said
       \/ MayFail /\ Goto("P", "print") /\ Say("error", "P") /\ UNCHANGED writers
    /\ UNCHANGED <<mode, sock, bytes, setup, moved, result>>

WaitForLaunch ==
    /\ pc.P = "wait"
    /\ \/ AtEnd("err", "P") /\ Goto("P", "pid")
       \/ Signalled("err") /\ Goto("P", "error")
    /\ UNCHANGED <<mode, sock, writers, bytes, setup, moved, said, result>>

ReadPid ==
    /\ pc.P = "pid"
    /\ Accept("pid")
    /\ Goto("P", "print") /\ Say("ok", Head(sock["pid"]))
    /\ UNCHANGED <<mode, writers, bytes, setup, moved, result>>

ReadLaunchError ==
    /\ pc.P = "error"
    /\ Accept("err")
    /\ Goto("P", "print") /\ Say("error", Head(sock["err"]))
    /\ UNCHANGED <<mode, writers, bytes, setup, moved, result>>

-----------------------------------------------------------------------------
(* NsconRunner::Run prints and exits; NamespaceControllerImpl, in L, reads *)
(* the output once and then waits for nscon.                               *)

PrintAndExit ==
    /\ pc[Nscon] = "print"
    /\ Signal("out") /\ CloseEnds(Nscon) /\ Goto(Nscon, "done")
    /\ UNCHANGED <<mode, sock, setup, moved, said, result>>

StartNscon ==
    /\ pc.L = "start"
    /\ \/ /\ pc' = [pc EXCEPT !.L = "read",
                             ![Nscon] = IF mode = "new" THEN "clone" ELSE "fork"]
          /\ writers' = [writers EXCEPT !["out"] = {Nscon}]
          /\ UNCHANGED result
       \/ /\ MayFail
          /\ Goto("L", "done")
          /\ result' = [status |-> "error", from |-> "L"]
          /\ UNCHANGED writers
    /\ UNCHANGED <<mode, sock, bytes, setup, moved, said>>

GetPipeOutput ==
    /\ pc.L = "read"
    /\ Signalled("out") \/ AtEnd("out", "L")
    /\ Goto("L", "wait")
    /\ UNCHANGED <<mode, sock, writers, bytes, setup, moved, said, result>>

(* Without output there is nothing to parse.                               *)
WaitNscon ==
    /\ pc.L = "wait" /\ pc[Nscon] \in {"done", "killed"}
    /\ Goto("L", "done")
    /\ result' = IF Signalled("out") THEN said ELSE [status |-> "error", from |-> "L"]
    /\ UNCHANGED <<mode, sock, writers, bytes, setup, moved, said>>

-----------------------------------------------------------------------------
Init ==
    /\ mode \in {"new", "target"}
    /\ pc = [L |-> "start", P |-> "none", T |-> "none", C |-> "none"]
    /\ sock = [a \in Agent |-> <<>>]
    /\ writers = [a \in Agent |-> {}] /\ bytes = [a \in Agent |-> 0]
    /\ setup = 0 /\ moved = FALSE
    /\ said = None /\ result = None

LibraryStep  == StartNscon \/ GetPipeOutput \/ WaitNscon
TargetStep   == Fork \/ WaitForLaunch \/ ReadPid \/ ReadLaunchError
LauncherStep == Clone \/ SetupOutside \/ Resume \/ WaitForChild \/ ReadError
                \/ ReportError \/ ExitError
ChildStep    == ReadResume \/ WritePid \/ SetupInside \/ Exec \/ WriteError
                \/ SignalParent

Next ==
    \/ LibraryStep \/ TargetStep \/ LauncherStep \/ ChildStep \/ PrintAndExit
    \/ \E p \in Proc : Killed(p)

Spec == Init /\ [][Next]_vars

(* Each process is scheduled.                                              *)
LiveSpec ==
    /\ Spec
    /\ WF_vars(LibraryStep) /\ WF_vars(TargetStep) /\ WF_vars(LauncherStep)
    /\ WF_vars(ChildStep) /\ WF_vars(PrintAndExit)

-----------------------------------------------------------------------------
Undisturbed == \A p \in Proc : pc[p] # "killed"

(* "OK iff successful": unless a process of nscon is killed, an error is   *)
(* returned only when C has not exec'ed and never will, so that the caller *)
(* may launch again.                                                       *)
ErrorMeansNoExec == result.status = "error" /\ Undisturbed => pc.C # "running"

(* "OK iff successful. On success, the PID of the launched command is      *)
(* returned.": unless a process of nscon is killed, the pid is C's, and C  *)
(* has exec'ed.                                                            *)
OkMeansExec ==
    result.status = "ok" /\ Undisturbed => pc.C = "running" /\ result.from = "C"

(* "CloneFn will wait for us to run all the configurators first.": whoever *)
(* is killed meanwhile, C never goes on before that.                       *)
SetupBeforeExec ==
    mode = "new" /\ pc.C \in {"inside", "exec", "running"} => setup = Outside

(* "Parent waits till the child execs successfully (no signal from child). *)
(* If child failed, it retrieves the error and reports it.": the call      *)
(* returns, whatever fails on the way, unless a process is killed, or the  *)
(* child fails after it has changed its root: then the error message does  *)
(* not reach the socket and its parent waits for it for ever.              *)
LaunchReturns ==
    <>(result.status # "none" \/ ~Undisturbed \/ (moved /\ pc.C = "dead"))
=============================================================================
