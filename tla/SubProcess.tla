----------------------------- MODULE SubProcess -----------------------------
(***************************************************************************)
(* util/process/subprocess.cc: a parent forks a child, learns over a       *)
(* socket pair whether the child could set itself up, reads what the       *)
(* program and its own children write to the piped channels, and reaps it. *)
(***************************************************************************)
EXTENDS Integers, FiniteSets

CONSTANTS
    MaxWrites,   \* bound on what a process writes to a channel
    Capacity,    \* of a piped channel
    CallsMayFail \* system calls may fail, processes be killed

ASSUME SubProcessAssumption ==
    /\ MaxWrites \in Nat /\ Capacity \in Nat \ {0}
    /\ CallsMayFail \in BOOLEAN

(* How a process ended: its exit status, or the signal that ended it.      *)
SIGKILL == -9
SIGPIPE == -13

Channel == {"stdout", "stderr"}
Writer  == {"child", "grandchild"}

VARIABLES
    parent,   \* where the parent is, and the exit code it has
    piped,    \* the channels with ACTION_PIPE
    left,     \* descriptors_left: the channels still polled
    lost,     \* the channels that poll or read gave an error for
    child,    \* Writer -> where the process is
    code,     \* what the child exited with
    todo,     \* Writer -> what it has still to write
    message,  \* the control message in the socket pair
    shut,     \* the child has shut the socket pair down
    pipe,     \* what is in each channel
    ends,     \* who holds the writing end
    reading   \* the channels whose reading end is open

sub_vars == <<parent, piped, left, lost, child, code, todo, message, shut, pipe, ends, reading>>

Nothing == [c \in Channel |-> 0]
Zero    == [w \in Writer |-> Nothing]

At(pc)           == parent.pc = pc
ParentGoesTo(pc) == parent' = [parent EXCEPT !.pc = pc]
Become(w, s)     == child' = [child EXCEPT ![w] = s]
Release(e, who)  == [c \in Channel |-> e[c] \ who]

-----------------------------------------------------------------------------
(* The parent: Start.                                                      *)
SetupPipesForChannels ==
    /\ At("new")
    /\ \/ /\ CallsMayFail
          /\ ParentGoesTo("failed")
          /\ UNCHANGED <<ends, reading>>
       \/ /\ ParentGoesTo("fork")
          /\ ends' = [c \in Channel |-> IF c \in piped THEN {"parent"} ELSE {}]
          /\ reading' = piped
    /\ UNCHANGED <<piped, left, lost, child, code, todo, message, shut, pipe>>

(* The result of fork is not looked at.                                    *)
ForkChild ==
    /\ At("fork")
    /\ ParentGoesTo("receive")
    /\ \/ /\ CallsMayFail
          /\ UNCHANGED <<child, ends>>
       \/ /\ Become("child", "setup")
          /\ ends' = [c \in Channel |-> IF c \in piped THEN {"parent", "child"} ELSE {}]
    /\ UNCHANGED <<piped, left, lost, code, todo, message, shut, pipe, reading>>

(* recvmsg returns a message, or nothing once the socket is shut down: the *)
(* parent holds the child's end too, so the child's death does not do.     *)
ReceiveMessageFromChild ==
    /\ At("receive")
    /\ message # "none" \/ shut
    /\ message' = "none"
    /\ IF message = "ok"
       THEN /\ ParentGoesTo("started")
            /\ ends' = Release(ends, {"parent"})
            /\ UNCHANGED reading
       ELSE /\ ParentGoesTo("failed")
            /\ ends' = Release(ends, {"parent"})
            /\ reading' = {}
    /\ UNCHANGED <<piped, left, lost, child, code, todo, shut, pipe>>

ReceiveFails ==
    /\ At("receive") /\ CallsMayFail
    /\ ParentGoesTo("failed")
    /\ ends' = Release(ends, {"parent"})
    /\ reading' = {}
    /\ UNCHANGED <<piped, left, lost, child, code, todo, message, shut, pipe>>

(* The child: from ChildFork to the program.                               *)
SendMessage(m) ==
    /\ message' = m
    /\ UNCHANGED <<parent, piped, left, lost, code, todo, shut, pipe, ends, reading>>

ChildSetup ==
    /\ child["child"] = "setup"
    /\ \/ Become("child", "sent") /\ SendMessage("ok")
       \/ CallsMayFail /\ Become("child", "sent") /\ SendMessage("none")
       \/ CallsMayFail /\ Become("child", "fatal") /\ SendMessage("error")

KeepsOpen == \* mutant
    /\ child["child"] = "sent"
    /\ Become("child", "exec")
    /\ UNCHANGED <<parent, piped, left, lost, code, todo, message, shut, pipe, ends, reading>>
Shutdown ==
    /\ child["child"] = "sent"
    /\ Become("child", "exec")
    /\ shut' = TRUE
    /\ UNCHANGED <<parent, piped, left, lost, code, todo, message, pipe, ends, reading>>

(* A process that ends closes what it holds; the child is a zombie until   *)
(* it is waited for.                                                       *)
Exit(w, c) ==
    /\ Become(w, IF w = "child" THEN "zombie" ELSE "gone")
    /\ code' = IF w = "child" THEN c ELSE code
    /\ ends' = Release(ends, {w})
    /\ UNCHANGED <<parent, piped, left, lost, todo, message, shut, pipe, reading>>

Fatal == child["child"] = "fatal" /\ Exit("child", 2)

ChildKilled == CallsMayFail /\ child["child"] \in {"setup", "running"} /\ Exit("child", SIGKILL)

ExecChild ==
    /\ child["child"] = "exec"
    /\ \/ CallsMayFail /\ Exit("child", 1)
       \/ \E plan \in [Channel -> 0 .. MaxWrites] :
             /\ Become("child", "running")
             /\ todo' = [todo EXCEPT !["child"] = plan]
             /\ UNCHANGED <<parent, piped, left, lost, code, message, shut, pipe, ends, reading>>

-----------------------------------------------------------------------------
(* External: the program, which may fork a process that outlives it.       *)
ForksOne ==
    /\ child["child"] = "running" /\ child["grandchild"] = "none"
    /\ Become("grandchild", "running")
    /\ \E plan \in [Channel -> 0 .. MaxWrites] : todo' = [todo EXCEPT !["grandchild"] = plan]
    /\ ends' = [c \in Channel |-> ends[c] \cup IF c \in piped THEN {"grandchild"} ELSE {}]
    /\ UNCHANGED <<parent, piped, left, lost, code, message, shut, pipe, reading>>

(* A write waits while the channel is full; SIGPIPE ends a process whose   *)
(* reader is gone.  What is not piped goes elsewhere.                      *)
Write(w, c) ==
    /\ child[w] = "running" /\ todo[w][c] > 0
    /\ \/ /\ c \in reading /\ pipe[c] < Capacity
          /\ pipe' = [pipe EXCEPT ![c] = @ + 1]
          /\ todo' = [todo EXCEPT ![w][c] = @ - 1]
          /\ UNCHANGED <<parent, piped, left, lost, child, code, message, shut, ends, reading>>
       \/ /\ c \notin piped
          /\ todo' = [todo EXCEPT ![w][c] = @ - 1]
          /\ UNCHANGED <<parent, piped, left, lost, child, code, message, shut, pipe, ends, reading>>
       \/ c \in piped \ reading /\ Exit(w, SIGPIPE)

Finish(w) ==
    /\ child[w] = "running" /\ todo[w] = Nothing
    /\ Exit(w, 0)

-----------------------------------------------------------------------------
(* The parent: Communicate, and Wait for a child without pipes.            *)
Communicate ==
    /\ At("started")
    /\ ParentGoesTo("poll")
    /\ left' = piped
    /\ UNCHANGED <<piped, lost, child, code, todo, message, shut, pipe, ends, reading>>

StdoutFirst(c) == c \in left /\ (c = "stdout" \/ "stdout" \notin left) \* mutant
Polled(c) == c \in left

ChildOnly(c) == pipe[c] = 0 /\ "child" \notin ends[c] \* mutant
ChannelAtEnd(c) == pipe[c] = 0 /\ ends[c] = {}

Read(c) ==
    /\ At("poll") /\ Polled(c) /\ pipe[c] > 0
    /\ pipe' = [pipe EXCEPT ![c] = 0]
    /\ UNCHANGED <<parent, piped, left, lost, child, code, todo, message, shut, ends, reading>>

Close(cs) ==
    /\ left' = left \ cs
    /\ reading' = reading \ cs
    /\ UNCHANGED <<parent, piped, child, code, todo, message, shut, pipe, ends>>

EndOfFile(c) == At("poll") /\ Polled(c) /\ ChannelAtEnd(c) /\ Close({c}) /\ UNCHANGED lost

(* A read that fails closes its channel, a poll that fails closes all.     *)
ReadOrPollFails ==
    /\ At("poll") /\ CallsMayFail
    /\ \E cs \in {left} \cup {{c} : c \in left} :
          cs # {} /\ Close(cs) /\ lost' = lost \cup cs

StatusOnly == IF code < 0 THEN 0 ELSE code \* mutant: WEXITSTATUS without WIFEXITED
exit_code == IF code < 0 THEN -1 ELSE code

Wait ==
    /\ (At("poll") /\ left = {}) \/ (At("started") /\ piped = {})
    /\ child["child"] = "zombie"
    /\ Become("child", "gone")
    /\ \/ parent' = [pc |-> "done", exit |-> exit_code]
       \/ CallsMayFail /\ parent' = [pc |-> "done", exit |-> -1]
    /\ UNCHANGED <<piped, left, lost, code, todo, message, shut, pipe, ends, reading>>

-----------------------------------------------------------------------------
SubInit ==
    /\ parent = [pc |-> "new", exit |-> 0]
    /\ piped \in SUBSET Channel
    /\ left = {} /\ lost = {}
    /\ child = [w \in Writer |-> "none"]
    /\ code = 0 /\ todo = Zero
    /\ message = "none" /\ shut = FALSE
    /\ pipe = Nothing /\ ends = [c \in Channel |-> {}] /\ reading = {}

ParentStep ==
    \/ SetupPipesForChannels \/ ForkChild \/ ReceiveMessageFromChild \/ Communicate \/ Wait
    \/ \E c \in Channel : Read(c) \/ EndOfFile(c)

SubChildStep   == ChildSetup \/ Shutdown \/ Fatal \/ ExecChild
ProgramStep(w) == Finish(w) \/ \E c \in Channel : Write(w, c)

SubNext ==
    \/ ParentStep \/ ReceiveFails \/ ReadOrPollFails \/ SubChildStep \/ ChildKilled \/ ForksOne
    \/ \E w \in Writer : ProgramStep(w)

(* The three processes are scheduled, and a program that is not held up    *)
(* writes what it has to and ends.                                         *)
SubSpec ==
    /\ SubInit /\ [][SubNext]_sub_vars
    /\ WF_sub_vars(ParentStep) /\ WF_sub_vars(SubChildStep)
    /\ \A w \in Writer : WF_sub_vars(ProgramStep(w))

-----------------------------------------------------------------------------
(* When Communicate returns, every piped channel has been read to the end  *)
(* and nobody can write to it any more, be it a process the child has left *)
(* behind, unless poll or read failed.                                     *)
ReadToTheEnd ==
    At("done") => \A c \in piped \ lost : pipe[c] = 0 /\ ends[c] = {}

(* An exit code of 0 is that of a program which came to its end, never of  *)
(* one that a signal stopped half-way or that was not executed.            *)
ZeroMeansFinished ==
    At("done") /\ parent.exit = 0 => code = 0 /\ todo["child"] = Nothing

(* The parent waits for a message that nobody will send: fork failed, or   *)
(* the child was killed before it had said anything.                       *)
NobodySends ==
    /\ At("receive") /\ message = "none" /\ ~shut
    /\ child["child"] = "none" \/ (child["child"] = "zombie" /\ code = SIGKILL)

(* Start returns: the child says that it is set up, that it is not, or     *)
(* shuts the socket pair down without having said anything.                *)
StartReturns == At("new") ~> At("failed") \/ At("started") \/ NobodySends

(* Communicate returns: a program is not left waiting for room in one      *)
(* channel while its parent waits for the other.                           *)
CommunicateReturns == At("started") ~> At("done")
=============================================================================
