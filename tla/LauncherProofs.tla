--------------------------- MODULE LauncherProofs ---------------------------
(***************************************************************************)
(* Proofs about ProcessLauncher, for any number of configurators, whatever *)
(* fails and whoever is killed, and about the SubProcess in which the      *)
(* library runs nscon.                                                     *)
(***************************************************************************)
EXTENDS ProcessLauncher, SubProcess, TLAPS

(* C before execve: it holds the write ends it has inherited.              *)
ChildBusy == pc.C \in {"read", "pid", "inside", "exec", "fail", "signal"}

(* T while it has not returned or exited.                                  *)
LauncherBusy ==
    pc.T \in {"clone", "outside", "wait", "read", "report", "signal"}

(* C has failed, or waits for a message that nobody will send: it does not *)
(* exec any more.                                                          *)
NeverExecs ==
    /\ pc.T \notin {"clone", "outside"}
    /\ \/ pc.C \in {"none", "dead", "killed"}
       \/ pc.C = "read" /\ sock["sync"] = <<>>

Execed == pc.C \in {"running", "killed"}

(* Which process may be where while another one is somewhere.              *)
Control ==
    /\ pc.L = "start" => pc[Nscon] = "none"
    /\ pc.L \in {"read", "wait"} => pc[Nscon] # "none"
    /\ pc.T \in {"none", "clone"} => pc.C = "none"
    /\ pc.T = "outside" => pc.C \in {"read", "killed"}
    /\ pc.T = "wait" => pc.C # "none"
    /\ pc.T = "read" => pc.C = "dead"
    /\ mode = "new" => pc.P = "none" /\ pc.T \notin {"report", "signal"}
    /\ mode = "target" =>
          /\ pc.T # "print"
          /\ pc.P \in {"none", "fork"} => pc.T = "none"
          /\ pc.P \in {"wait", "pid", "error"} => pc.T # "none"

(* What is in the sockets and in the pipes tells who has sent it.          *)
Messages ==
    /\ sock["sync"] \in {<<>>, <<"T">>, <<"C">>}
    /\ pc.T \in {"none", "clone", "outside"} => sock["sync"] = <<>>
    /\ sock["sync"] = <<"T">> => pc.C \in {"read", "killed"}
    /\ sock["sync"] = <<"C">> => pc.C \in {"signal", "dead", "killed"}
    /\ sock["err"] \in {<<>>, <<"T">>}
    /\ sock["err"] # <<>> => pc.T \in {"signal", "done", "killed"}
    /\ sock["pid"] \in {<<>>, <<"C">>}
    /\ sock["pid"] # <<>> => pc.C \notin {"none", "read", "pid"}
    /\ bytes["sync"] = IF pc.C = "dead" THEN 1 ELSE 0
    /\ bytes["err"] = 1 => pc.T = "done"
    /\ bytes["out"] = IF pc[Nscon] = "done" THEN 1 ELSE 0

(* A pipe is at its end only when those who might signal have gone.        *)
Ends ==
    /\ ChildBusy => "C" \in writers["sync"]
    /\ mode = "target" /\ LauncherBusy => "T" \in writers["err"]
    /\ mode = "target" /\ ChildBusy => "C" \in writers["err"]

(* C has been told to go on only after the last configurator.              *)
Waits ==
    mode = "new" =>
        \/ setup = Outside
        \/ pc.C \in {"none", "killed"}
        \/ pc.C = "read" /\ sock["sync"] = <<>>

(* What each side knows about C once it has learnt the outcome.            *)
Outcome ==
    /\ pc.T \in {"report", "signal"} => NeverExecs
    /\ mode = "target" /\ pc.T = "done" =>
          IF bytes["err"] = 0 THEN Execed ELSE NeverExecs
    /\ pc.P = "pid" => Execed \/ pc.T = "killed"
    /\ pc.P = "error" => bytes["err"] = 1
    /\ said.status = "ok" => said.from = "C" /\ (Execed \/ pc.T = "killed")
    /\ said.status = "error" =>
          NeverExecs /\ pc[Nscon] \in {"print", "done", "killed"}
    /\ \/ result = None
       \/ /\ pc.L = "done" /\ pc[Nscon] \in {"none", "killed"}
          /\ result = [status |-> "error", from |-> "L"]
       \/ pc.L = "done" /\ pc[Nscon] = "done" /\ result = said

(* The inductive invariant.                                                *)
IInv == TypeOK /\ Control /\ Messages /\ Ends /\ Waits /\ Outcome
-----------------------------------------------------------------------------
(* A message sent to an empty socket is the one that is accepted.          *)
LEMMA OneMessage ==
    ASSUME NEW p
    PROVE  /\ Append(<<>>, p) = <<p>> /\ <<p>> # <<>>
           /\ Head(<<p>>) = p /\ Tail(<<p>>) = <<>>
OBVIOUS

(* What Send does to a socket where no message waits.                      *)
LEMMA SendTyped ==
    ASSUME TypeOK, NEW a \in Agent, NEW p \in Proc, sock[a] = <<>>, Send(a, p)
    PROVE  /\ sock' \in [Agent -> {<<>>} \cup {<<q>> : q \in Proc}]
           /\ sock'[a] = <<p>>
           /\ \A b \in Agent \ {a} : sock'[b] = sock[b]
<1>1. Append(sock[a], p) = <<p>>
  BY OneMessage
<1>2. sock' = [sock EXCEPT ![a] = <<p>>]
  BY DEF Send
<1> QED
  BY <1>2 DEF TypeOK

(* What Accept does: it takes the one message that waits.                  *)
LEMMA AcceptTyped ==
    ASSUME TypeOK, NEW a \in Agent, Accept(a)
    PROVE  /\ \E p \in Proc : sock[a] = <<p>> /\ Head(sock[a]) = p
           /\ sock' \in [Agent -> {<<>>} \cup {<<q>> : q \in Proc}]
           /\ sock'[a] = <<>>
           /\ \A b \in Agent \ {a} : sock'[b] = sock[b]
<1>1. PICK p \in Proc : sock[a] = <<p>>
  BY DEF TypeOK, Accept
<1>2. Head(sock[a]) = p /\ Tail(sock[a]) = <<>>
  BY <1>1
<1>3. sock' = [sock EXCEPT ![a] = <<>>]
  BY <1>2, Zenon DEF Accept
<1> QED
  BY <1>1, <1>3 DEF TypeOK

(* The ways out of CloneAndLaunch keep the types.                          *)
LEMMA LaunchReturnTyped ==
    ASSUME TypeOK, NEW r \in {"ok", "error"}, NEW f \in Proc, LaunchReturn(r, f)
    PROVE  /\ pc' \in Pc
           /\ writers' \in [Agent -> SUBSET Proc]
           /\ said' \in [status : {"none", "ok", "error"}, from : Proc \cup {"none"}]
<1>1. pc' \in Pc
  BY DEF TypeOK, Pc, LaunchReturn, Goto
<1>2. writers' \in [Agent -> SUBSET Proc]
  BY DEF TypeOK, LaunchReturn, CloseEnds
<1>3. said' \in [status : {"none", "ok", "error"}, from : Proc \cup {"none"}]
  BY DEF TypeOK, LaunchReturn, Say
<1> QED
  BY <1>1, <1>2, <1>3

(* Nothing has happened yet.                                               *)
LEMMA InitIInv == Init => IInv
<1> SUFFICES ASSUME Init PROVE IInv
  OBVIOUS
<1>1. TypeOK
  <2>1. pc \in Pc
    BY DEF Init, Pc
  <2>2. sock \in [Agent -> {<<>>} \cup {<<p>> : p \in Proc}]
    BY DEF Init
  <2>3. {said, result} \subseteq
         [status : {"none", "ok", "error"}, from : Proc \cup {"none"}]
    BY DEF Init, None
  <2>4. writers \in [Agent -> SUBSET Proc] /\ bytes \in [Agent -> 0..1]
    BY DEF Init
  <2>5. setup \in 0..Outside
    BY LauncherAssumption DEF Init
  <2>6. moved \in BOOLEAN /\ mode \in {"new", "target"}
    BY Zenon DEF Init
  <2> QED
    BY <2>1, <2>2, <2>3, <2>4, <2>5, <2>6 DEF TypeOK
<1> QED
  BY <1>1 DEF Init, IInv, Control, Messages, Ends, Waits, Outcome, Nscon,
     ChildBusy, LauncherBusy, Agent, None

(* The steps of the library.                                             *)
LEMMA LibraryIInv ==
    ASSUME IInv, LibraryStep
    PROVE  IInv'
<1> USE DEF IInv
<1>1. CASE StartNscon
  <2>1. TypeOK'
    <3>1. pc' \in Pc
      BY <1>1, ZenonT(60) DEF TypeOK, Pc, StartNscon, Goto, Nscon
    <3>2. writers' \in [Agent -> SUBSET Proc]
      BY <1>1 DEF TypeOK, StartNscon, Nscon, Proc
    <3>3. result' \in [status : {"none", "ok", "error"}, from : Proc \cup {"none"}]
      BY <1>1 DEF TypeOK, StartNscon, Proc
    <3> QED
      BY <1>1, <3>1, <3>2, <3>3 DEF TypeOK, StartNscon
  <2>2. Control'
    BY <1>1, ZenonT(60) DEF TypeOK, Pc, StartNscon, Goto, Nscon, Control
  <2>3. Messages'
    BY <1>1, ZenonT(60) DEF TypeOK, Pc, StartNscon, Goto, Nscon, Control, Messages
  <2>4. Ends'
    BY <1>1, ZenonT(60) DEF TypeOK, Pc, Agent, StartNscon, Goto, Ends, ChildBusy,
       LauncherBusy
  <2>5. Waits'
    BY <1>1, Zenon DEF TypeOK, Pc, StartNscon, Goto, Nscon, Waits
  <2>6. Outcome'
    BY <1>1, OneMessage, ZenonT(60) DEF TypeOK, Pc, StartNscon, Goto, Nscon, Control,
       Outcome, Execed
  <2> QED
    BY <2>1, <2>2, <2>3, <2>4, <2>5, <2>6
<1>2. CASE GetPipeOutput
  <2>1. TypeOK'
    BY <1>2 DEF TypeOK, Pc, GetPipeOutput, Goto
  <2>2. Control'
    BY <1>2 DEF GetPipeOutput, Goto, Nscon, Control
  <2>3. Messages'
    BY <1>2 DEF GetPipeOutput, Goto, Nscon, Messages
  <2>4. Ends'
    BY <1>2 DEF GetPipeOutput, Goto, Ends, ChildBusy, LauncherBusy
  <2>5. Waits'
    BY <1>2 DEF GetPipeOutput, Goto, Waits
  <2>6. Outcome'
    BY <1>2, OneMessage DEF TypeOK, Pc, Agent, GetPipeOutput, Goto, Nscon,
       Outcome, NeverExecs, Execed
  <2> QED
    BY <2>1, <2>2, <2>3, <2>4, <2>5, <2>6
<1>3. CASE WaitNscon
  <2>1. TypeOK'
    BY <1>3 DEF TypeOK, Pc, Proc, WaitNscon, Goto
  <2>2. Control'
    BY <1>3 DEF TypeOK, Pc, WaitNscon, Goto, Control
  <2>3. Messages'
    BY <1>3 DEF WaitNscon, Goto, Nscon, Messages
  <2>4. Ends'
    BY <1>3 DEF WaitNscon, Goto, Ends, ChildBusy, LauncherBusy
  <2>5. Waits'
    BY <1>3 DEF WaitNscon, Goto, Waits
  <2>6. Outcome'
    BY <1>3, OneMessage DEF TypeOK, Pc, WaitNscon, Goto, Signalled, Nscon,
       Messages, Outcome, NeverExecs, Execed
  <2> QED
    BY <2>1, <2>2, <2>3, <2>4, <2>5, <2>6
<1> QED
  BY <1>1, <1>2, <1>3 DEF LibraryStep

(* The steps of the process that Run has nscon fork from.                *)
LEMMA TargetIInv ==
    ASSUME IInv, TargetStep
    PROVE  IInv'
<1> USE DEF IInv
<1>1. CASE Fork
  <2>1. TypeOK'
    <3>1. pc' \in Pc
      BY <1>1, Zenon DEF TypeOK, Pc, Fork, Goto
    <3>2. writers' \in [Agent -> SUBSET Proc]
      BY <1>1 DEF TypeOK, Fork, Proc
    <3>3. said' \in [status : {"none", "ok", "error"}, from : Proc \cup {"none"}]
      BY <1>1 DEF TypeOK, Fork, Say, Proc
    <3> QED
      BY <1>1, <3>1, <3>2, <3>3 DEF TypeOK, Fork
  <2>2. Control'
    BY <1>1, ZenonT(60) DEF TypeOK, Pc, Fork, Goto, Nscon, Control
  <2>3. Messages'
    BY <1>1, Zenon DEF TypeOK, Pc, Fork, Goto, Nscon, Control, Messages
  <2>4. Ends'
    <3>1. pc.T = "none" /\ pc.C = "none"
      BY <1>1 DEF Fork, Control, TypeOK
    <3>2. pc'.C = "none"
      BY <1>1, <3>1, Zenon DEF TypeOK, Pc, Fork, Goto
    <3>3. LauncherBusy' => "T" \in writers'["err"]
      BY <1>1, <3>1 DEF TypeOK, Pc, Agent, Fork, Goto, LauncherBusy
    <3> QED
      BY <3>2, <3>3 DEF Ends, ChildBusy
  <2>5. Waits'
    BY <1>1, Zenon DEF TypeOK, Pc, Fork, Goto, Waits
  <2>6. Outcome'
    <3>1. /\ pc.T = "none" /\ pc.C = "none" /\ mode = "target"
          /\ said.status \notin {"ok", "error"} /\ result = None
      BY <1>1 DEF Fork, Control, TypeOK, Nscon, Outcome, Execed
    <3>2. CASE pc' = [pc EXCEPT !.P = "wait", !.T = "clone"] /\ UNCHANGED said
      BY <1>1, <3>1, <3>2 DEF Fork, Outcome
    <3>3. CASE Goto("P", "print") /\ Say("error", "P")
      BY <1>1, <3>1, <3>3 DEF TypeOK, Pc, Fork, Goto, Say, Nscon,
         Outcome, NeverExecs
    <3> QED
      BY <1>1, <3>2, <3>3 DEF Fork
  <2> QED
    BY <2>1, <2>2, <2>3, <2>4, <2>5, <2>6
<1>2. CASE WaitForLaunch
  <2>1. TypeOK'
    BY <1>2 DEF TypeOK, Pc, WaitForLaunch, Goto
  <2>2. Control'
    BY <1>2 DEF TypeOK, Pc, WaitForLaunch, Goto, Nscon, Control
  <2>3. Messages'
    BY <1>2 DEF TypeOK, Pc, WaitForLaunch, Goto, Nscon, Messages
  <2>4. Ends'
    BY <1>2 DEF TypeOK, Pc, WaitForLaunch, Goto, Ends, ChildBusy,
       LauncherBusy
  <2>5. Waits'
    BY <1>2 DEF TypeOK, Pc, WaitForLaunch, Goto, Waits
  <2>6. Outcome'
    BY <1>2, OneMessage DEF TypeOK, Pc, Agent, WaitForLaunch, Goto, AtEnd,
       Signalled, Nscon, Control, Ends, Outcome, NeverExecs, Execed,
       LauncherBusy
  <2> QED
    BY <2>1, <2>2, <2>3, <2>4, <2>5, <2>6
<1>3. CASE ReadPid
  <2>0. /\ \E p \in Proc : sock["pid"] = <<p>> /\ Head(sock["pid"]) = p
        /\ sock' \in [Agent -> {<<>>} \cup {<<q>> : q \in Proc}]
        /\ sock'["pid"] = <<>>
        /\ \A b \in Agent \ {"pid"} : sock'[b] = sock[b]
    BY <1>3, AcceptTyped DEF ReadPid, Agent
  <2>1. TypeOK'
    <3>1. pc' \in Pc
      BY <1>3 DEF TypeOK, Pc, ReadPid, Goto
    <3>2. said' \in [status : {"none", "ok", "error"}, from : Proc \cup {"none"}]
      BY <1>3, <2>0 DEF ReadPid, Say
    <3> QED
      BY <1>3, <2>0, <3>1, <3>2 DEF TypeOK, ReadPid
  <2>2. Control'
    BY <1>3 DEF ReadPid, Goto, Nscon, Control
  <2>3. Messages'
    BY <1>3, <2>0 DEF Agent, ReadPid, Goto, Nscon, Messages
  <2>4. Ends'
    BY <1>3 DEF ReadPid, Goto, Ends, ChildBusy, LauncherBusy
  <2>5. Waits'
    BY <1>3, <2>0 DEF Agent, ReadPid, Goto, Waits
  <2>6. Outcome'
    BY <1>3, <2>0 DEF TypeOK, Pc, ReadPid, Goto, Say, Nscon, Control,
       Messages, Outcome, NeverExecs, Execed
  <2> QED
    BY <2>1, <2>2, <2>3, <2>4, <2>5, <2>6
<1>4. CASE ReadLaunchError
  <2>0. /\ \E p \in Proc : sock["err"] = <<p>> /\ Head(sock["err"]) = p
        /\ sock' \in [Agent -> {<<>>} \cup {<<q>> : q \in Proc}]
        /\ sock'["err"] = <<>>
        /\ \A b \in Agent \ {"err"} : sock'[b] = sock[b]
    BY <1>4, AcceptTyped DEF ReadLaunchError, Agent
  <2>1. TypeOK'
    <3>1. pc' \in Pc
      BY <1>4 DEF TypeOK, Pc, ReadLaunchError, Goto
    <3>2. said' \in [status : {"none", "ok", "error"}, from : Proc \cup {"none"}]
      BY <1>4, <2>0 DEF ReadLaunchError, Say
    <3> QED
      BY <1>4, <2>0, <3>1, <3>2 DEF TypeOK, ReadLaunchError
  <2>2. Control'
    BY <1>4 DEF ReadLaunchError, Goto, Nscon, Control
  <2>3. Messages'
    BY <1>4, <2>0 DEF Agent, ReadLaunchError, Goto, Nscon, Messages
  <2>4. Ends'
    BY <1>4 DEF ReadLaunchError, Goto, Ends, ChildBusy, LauncherBusy
  <2>5. Waits'
    BY <1>4, <2>0 DEF Agent, ReadLaunchError, Goto, Waits
  <2>6. Outcome'
    BY <1>4, <2>0 DEF TypeOK, Pc, Agent, ReadLaunchError, Goto, Say, Nscon,
       Control, Messages, Outcome, NeverExecs
  <2> QED
    BY <2>1, <2>2, <2>3, <2>4, <2>5, <2>6
<1> QED
  BY <1>1, <1>2, <1>3, <1>4 DEF TargetStep

(* The steps of the launcher.                                            *)
LEMMA LauncherIInv ==
    ASSUME IInv, LauncherStep
    PROVE  IInv'
<1> USE DEF IInv
<1>1. CASE Clone
  <2>1. TypeOK'
    <3>1. pc' \in Pc
      BY <1>1, LaunchReturnTyped, ZenonT(60) DEF TypeOK, Pc, Clone, Proc
    <3>2. writers' \in [Agent -> SUBSET Proc]
      BY <1>1, LaunchReturnTyped DEF TypeOK, Clone, Proc
    <3>3. said' \in [status : {"none", "ok", "error"}, from : Proc \cup {"none"}]
      BY <1>1, LaunchReturnTyped DEF TypeOK, Clone, Proc
    <3> QED
      BY <1>1, <3>1, <3>2, <3>3 DEF TypeOK, Clone
  <2>2. Control'
    BY <1>1, ZenonT(60) DEF TypeOK, Pc, Clone, LaunchReturn, Goto, CloseEnds, Say,
       Nscon, Control, Messages, Ends, ChildBusy, LauncherBusy
  <2>3. Messages'
    BY <1>1, ZenonT(60) DEF TypeOK, Pc, Clone, LaunchReturn, Goto, Nscon, Control,
       Messages
  <2>4. Ends'
    BY <1>1 DEF TypeOK, Pc, Agent, Clone, LaunchReturn, Goto, Ends,
       ChildBusy, LauncherBusy
  <2>5. Waits'
    BY <1>1, Zenon DEF TypeOK, Pc, Clone, LaunchReturn, Goto, Messages, Waits
  <2>6. Outcome'
    <3>1. /\ pc.T = "clone" /\ pc.C = "none"
          /\ said.status \notin {"ok", "error"}
      BY <1>1 DEF Clone, Control, Outcome, Execed, NeverExecs
    <3>2. result = None \/ mode = "target"
      BY <3>1 DEF Outcome, Nscon, TypeOK
    <3>3. CASE pc' = [pc EXCEPT !.T = "outside", !.C = "read"] /\ UNCHANGED said
      BY <1>1, <3>1, <3>3, ZenonT(60) DEF TypeOK, Pc, Clone, Nscon, Outcome, Execed
    <3>4. CASE LaunchReturn("error", "T")
      BY <1>1, <3>1, <3>4 DEF TypeOK, Pc, Clone, LaunchReturn, Goto, Say,
         Nscon, Outcome, NeverExecs, Execed
    <3> QED
      BY <1>1, <3>3, <3>4 DEF Clone
  <2> QED
    BY <2>1, <2>2, <2>3, <2>4, <2>5, <2>6
<1>2. CASE SetupOutside
  <2>1. TypeOK'
    <3>1. pc' \in Pc
      BY <1>2, LaunchReturnTyped DEF TypeOK, SetupOutside, Proc
    <3>2. writers' \in [Agent -> SUBSET Proc]
      BY <1>2, LaunchReturnTyped DEF TypeOK, SetupOutside, Proc
    <3>3. said' \in [status : {"none", "ok", "error"}, from : Proc \cup {"none"}]
      BY <1>2, LaunchReturnTyped DEF TypeOK, SetupOutside, Proc
    <3>4. setup' \in 0..Outside
      BY <1>2, LauncherAssumption DEF TypeOK, SetupOutside
    <3> QED
      BY <1>2, <3>1, <3>2, <3>3, <3>4 DEF TypeOK, SetupOutside
  <2>2. Control'
    BY <1>2 DEF TypeOK, Pc, SetupOutside, LaunchReturn, Goto, Nscon,
       Control
  <2>3. Messages'
    BY <1>2 DEF TypeOK, Pc, SetupOutside, LaunchReturn, Goto, Nscon,
       Messages
  <2>4. Ends'
    BY <1>2 DEF TypeOK, Pc, SetupOutside, LaunchReturn, Goto, Ends,
       ChildBusy
  <2>5. Waits'
    BY <1>2 DEF TypeOK, Pc, SetupOutside, LaunchReturn, Goto, Waits
  <2>6. Outcome'
    BY <1>2, OneMessage DEF TypeOK, Pc, Agent, SetupOutside, LaunchReturn,
       Goto, Say, Nscon, Control, Messages, Outcome, NeverExecs, Execed
  <2> QED
    BY <2>1, <2>2, <2>3, <2>4, <2>5, <2>6
<1>3. CASE Resume
  <2>0. /\ sock' \in [Agent -> {<<>>} \cup {<<q>> : q \in Proc}]
        /\ \/ sock' = sock
           \/ /\ Send("sync", "T")
              /\ sock["sync"] = <<>> /\ sock'["sync"] = <<"T">>
              /\ \A b \in Agent \ {"sync"} : sock'[b] = sock[b]
    <3>1. sock["sync"] = <<>>
      BY <1>3 DEF Resume, Messages
    <3>2. CASE Send("sync", "T")
      BY <3>1, <3>2, SendTyped DEF Agent, Proc
    <3>3. CASE UNCHANGED sock
      BY <3>3 DEF TypeOK
    <3> QED
      BY <1>3, <3>2, <3>3 DEF Resume
  <2>1. TypeOK'
    <3>1. pc' \in Pc
      BY <1>3, LaunchReturnTyped DEF TypeOK, Pc, Resume, Goto, Proc
    <3>2. writers' \in [Agent -> SUBSET Proc]
      BY <1>3, LaunchReturnTyped DEF TypeOK, Resume, Proc
    <3>3. said' \in [status : {"none", "ok", "error"}, from : Proc \cup {"none"}]
      BY <1>3, LaunchReturnTyped DEF TypeOK, Resume, Proc
    <3> QED
      BY <1>3, <2>0, <3>1, <3>2, <3>3 DEF TypeOK, Resume
  <2>2. Control'
    BY <1>3 DEF TypeOK, Pc, Resume, Goto, LaunchReturn, Nscon, Control
  <2>3. Messages'
    BY <1>3, <2>0 DEF TypeOK, Pc, Agent, Resume, Goto, LaunchReturn, Nscon,
       Control, Messages
  <2>4. Ends'
    BY <1>3 DEF TypeOK, Pc, Resume, Goto, LaunchReturn, Ends, ChildBusy,
       LauncherBusy
  <2>5. Waits'
    BY <1>3 DEF Resume, Waits
  <2>6. Outcome'
    BY <1>3, <2>0 DEF TypeOK, Pc, Agent, Resume, Goto, LaunchReturn, Say,
       Nscon, Control, Messages, Outcome, NeverExecs, Execed
  <2> QED
    BY <2>1, <2>2, <2>3, <2>4, <2>5, <2>6
<1>4. CASE WaitForChild
  <2>1. TypeOK'
    BY <1>4, OneMessage DEF TypeOK, Pc, Proc, WaitForChild, Goto,
       LaunchReturn, CloseEnds, Say
  <2>2. Control'
    BY <1>4 DEF TypeOK, Pc, WaitForChild, Goto, Signalled, LaunchReturn,
       Nscon, Control, Messages
  <2>3. Messages'
    BY <1>4, OneMessage DEF TypeOK, Pc, WaitForChild, Goto, LaunchReturn,
       Nscon, Messages
  <2>4. Ends'
    BY <1>4 DEF TypeOK, Pc, WaitForChild, Goto, AtEnd, LaunchReturn, Ends,
       ChildBusy, LauncherBusy
  <2>5. Waits'
    BY <1>4, OneMessage DEF TypeOK, Pc, WaitForChild, Goto, LaunchReturn,
       Waits
  <2>6. Outcome'
    BY <1>4, OneMessage DEF TypeOK, Pc, Agent, WaitForChild, Goto, AtEnd,
       LaunchReturn, Say, Nscon, Control, Messages, Ends, Outcome,
       NeverExecs, Execed, ChildBusy
  <2> QED
    BY <2>1, <2>2, <2>3, <2>4, <2>5, <2>6
<1>5. CASE ReadError
  <2>0. /\ \E p \in Proc : sock["sync"] = <<p>> /\ Head(sock["sync"]) = p
        /\ sock' \in [Agent -> {<<>>} \cup {<<q>> : q \in Proc}]
        /\ sock'["sync"] = <<>>
        /\ \A b \in Agent \ {"sync"} : sock'[b] = sock[b]
    BY <1>5, AcceptTyped DEF ReadError, Agent
  <2>1. TypeOK'
    <3>1. PICK p \in Proc : Head(sock["sync"]) = p
      BY <2>0
    <3>2. /\ pc' \in Pc /\ writers' \in [Agent -> SUBSET Proc]
          /\ said' \in [status : {"none", "ok", "error"}, from : Proc \cup {"none"}]
      BY <1>5, <3>1, LaunchReturnTyped DEF ReadError
    <3> QED
      BY <1>5, <2>0, <3>2 DEF TypeOK, ReadError
  <2>2. Control'
    BY <1>5 DEF TypeOK, Pc, ReadError, LaunchReturn, Goto, Nscon, Control
  <2>3. Messages'
    BY <1>5, <2>0 DEF TypeOK, Pc, Agent, ReadError, LaunchReturn, Goto,
       Nscon, Messages
  <2>4. Ends'
    BY <1>5 DEF TypeOK, Pc, ReadError, LaunchReturn, Goto, Ends, ChildBusy,
       LauncherBusy
  <2>5. Waits'
    BY <1>5, <2>0 DEF TypeOK, Pc, ReadError, LaunchReturn, Goto, Waits
  <2>6. Outcome'
    BY <1>5, <2>0 DEF TypeOK, Pc, Agent, ReadError, LaunchReturn, Goto,
       Say, Nscon, Control, Outcome, NeverExecs, Execed
  <2> QED
    BY <2>1, <2>2, <2>3, <2>4, <2>5, <2>6
<1>6. CASE ReportError
  <2>0. /\ sock' \in [Agent -> {<<>>} \cup {<<q>> : q \in Proc}]
        /\ \/ sock' = sock
           \/ /\ Send("err", "T")
              /\ sock["err"] = <<>> /\ sock'["err"] = <<"T">>
              /\ \A b \in Agent \ {"err"} : sock'[b] = sock[b]
    <3>1. sock["err"] = <<>>
      BY <1>6 DEF ReportError, Messages
    <3>2. CASE Send("err", "T")
      BY <3>1, <3>2, SendTyped DEF Agent, Proc
    <3>3. CASE UNCHANGED sock
      BY <3>3 DEF TypeOK
    <3> QED
      BY <1>6, <3>2 DEF ReportError
  <2>1. TypeOK'
    <3>1. pc' \in Pc
      BY <1>6 DEF TypeOK, Pc, ReportError, Goto
    <3> QED
      BY <1>6, <2>0, <3>1 DEF TypeOK, ReportError
  <2>2. Control'
    BY <1>6 DEF ReportError, Goto, Nscon, Control
  <2>3. Messages'
    BY <1>6, <2>0 DEF TypeOK, Pc, Agent, ReportError, Goto, Nscon, Messages
  <2>4. Ends'
    BY <1>6 DEF ReportError, Goto, Ends, ChildBusy, LauncherBusy
  <2>5. Waits'
    BY <1>6, <2>0 DEF Agent, ReportError, Goto, Waits
  <2>6. Outcome'
    BY <1>6, <2>0 DEF TypeOK, Agent, ReportError, Goto, Nscon, Outcome,
       NeverExecs, Execed
  <2> QED
    BY <2>1, <2>2, <2>3, <2>4, <2>5, <2>6
<1>7. CASE ExitError
  <2>1. TypeOK'
    BY <1>7 DEF TypeOK, Pc, Agent, ExitError, Goto, Signal, CloseEnds,
       Messages
  <2>2. Control'
    BY <1>7 DEF ExitError, Goto, Nscon, Control
  <2>3. Messages'
    BY <1>7 DEF TypeOK, Pc, ExitError, Goto, Signal, Nscon, Control,
       Messages
  <2>4. Ends'
    BY <1>7 DEF TypeOK, Pc, Agent, ExitError, Goto, CloseEnds, Ends,
       ChildBusy, LauncherBusy
  <2>5. Waits'
    BY <1>7 DEF ExitError, Goto, Waits
  <2>6. Outcome'
    BY <1>7, OneMessage DEF TypeOK, Pc, Agent, ExitError, Goto, Signal,
       Nscon, Messages, Outcome, NeverExecs, Execed
  <2> QED
    BY <2>1, <2>2, <2>3, <2>4, <2>5, <2>6
<1> QED
  BY <1>1, <1>2, <1>3, <1>4, <1>5, <1>6, <1>7 DEF LauncherStep

(* The steps of the child.                                               *)
LEMMA ChildIInv ==
    ASSUME IInv, ChildStep
    PROVE  IInv'
<1> USE DEF IInv
<1>1. CASE ReadResume
  <2>0. /\ \E p \in Proc : sock["sync"] = <<p>> /\ Head(sock["sync"]) = p
        /\ sock' \in [Agent -> {<<>>} \cup {<<q>> : q \in Proc}]
        /\ sock'["sync"] = <<>>
        /\ \A b \in Agent \ {"sync"} : sock'[b] = sock[b]
    BY <1>1, AcceptTyped DEF ReadResume, Agent
  <2>1. TypeOK'
    BY <1>1, <2>0 DEF TypeOK, Pc, ReadResume, Goto
  <2>2. Control'
    BY <1>1, <2>0 DEF ReadResume, Goto, Nscon, Control, Messages
  <2>3. Messages'
    BY <1>1, <2>0 DEF Agent, ReadResume, Goto, Nscon, Messages
  <2>4. Ends'
    BY <1>1 DEF ReadResume, Goto, Ends, ChildBusy, LauncherBusy
  <2>5. Waits'
    BY <1>1, <2>0 DEF ReadResume, Waits
  <2>6. Outcome'
    BY <1>1, <2>0 DEF TypeOK, ReadResume, Goto, Nscon, Outcome, NeverExecs,
       Execed
  <2> QED
    BY <2>1, <2>2, <2>3, <2>4, <2>5, <2>6
<1>2. CASE WritePid
  <2>0. /\ sock' \in [Agent -> {<<>>} \cup {<<q>> : q \in Proc}]
        /\ \/ sock' = sock
           \/ /\ Send("pid", "C")
              /\ sock["pid"] = <<>> /\ sock'["pid"] = <<"C">>
              /\ \A b \in Agent \ {"pid"} : sock'[b] = sock[b]
    <3>1. sock["pid"] = <<>>
      BY <1>2 DEF WritePid, Messages
    <3>2. CASE Send("pid", "C")
      BY <3>1, <3>2, SendTyped DEF Agent, Proc
    <3>3. CASE UNCHANGED sock
      BY <3>3 DEF TypeOK
    <3> QED
      BY <1>2, <3>2, <3>3 DEF WritePid
  <2>1. TypeOK'
    <3>1. pc' \in Pc
      BY <1>2 DEF TypeOK, Pc, WritePid, Goto
    <3> QED
      BY <1>2, <2>0, <3>1 DEF TypeOK, WritePid
  <2>2. Control'
    BY <1>2 DEF TypeOK, Pc, WritePid, Goto, Nscon, Control
  <2>3. Messages'
    BY <1>2, <2>0 DEF TypeOK, Pc, Agent, WritePid, Goto, Nscon, Messages
  <2>4. Ends'
    BY <1>2 DEF TypeOK, Pc, WritePid, Goto, Ends, ChildBusy, LauncherBusy
  <2>5. Waits'
    BY <1>2 DEF WritePid, Waits
  <2>6. Outcome'
    BY <1>2, <2>0 DEF TypeOK, Pc, WritePid, Goto, Nscon, Outcome,
       NeverExecs, Execed
  <2> QED
    BY <2>1, <2>2, <2>3, <2>4, <2>5, <2>6
<1>3. CASE SetupInside
  <2>1. TypeOK'
    BY <1>3, Zenon DEF TypeOK, Pc, SetupInside, Continue, Goto
  <2>2. Control'
    BY <1>3 DEF TypeOK, Pc, SetupInside, Continue, Goto, Nscon, Control
  <2>3. Messages'
    BY <1>3 DEF TypeOK, Pc, SetupInside, Continue, Goto, Nscon, Messages
  <2>4. Ends'
    BY <1>3 DEF TypeOK, Pc, SetupInside, Continue, Goto, Ends, ChildBusy,
       LauncherBusy
  <2>5. Waits'
    BY <1>3 DEF SetupInside, Waits
  <2>6. Outcome'
    BY <1>3, OneMessage DEF TypeOK, Pc, SetupInside, Continue, Goto, Nscon,
       Outcome, NeverExecs, Execed
  <2> QED
    BY <2>1, <2>2, <2>3, <2>4, <2>5, <2>6
<1>4. CASE Exec
  <2>1. TypeOK'
    BY <1>4 DEF TypeOK, Pc, Exec, Goto, CloseEnds
  <2>2. Control'
    BY <1>4 DEF TypeOK, Pc, Exec, Goto, Nscon, Control
  <2>3. Messages'
    BY <1>4 DEF TypeOK, Pc, Exec, Goto, Nscon, Messages
  <2>4. Ends'
    BY <1>4 DEF TypeOK, Pc, Agent, Exec, Goto, CloseEnds, Ends, ChildBusy,
       LauncherBusy
  <2>5. Waits'
    BY <1>4 DEF Exec, Waits
  <2>6. Outcome'
    BY <1>4, OneMessage DEF TypeOK, Pc, Exec, Goto, Nscon, Outcome,
       NeverExecs, Execed
  <2> QED
    BY <2>1, <2>2, <2>3, <2>4, <2>5, <2>6
<1>5. CASE WriteError
  <2>0. /\ sock' \in [Agent -> {<<>>} \cup {<<q>> : q \in Proc}]
        /\ \/ sock' = sock
           \/ /\ Send("sync", "C")
              /\ sock["sync"] = <<>> /\ sock'["sync"] = <<"C">>
              /\ \A b \in Agent \ {"sync"} : sock'[b] = sock[b]
    <3>1. sock["sync"] = <<>>
      BY <1>5 DEF WriteError, Messages
    <3>2. CASE Send("sync", "C")
      BY <3>1, <3>2, SendTyped DEF Agent, Proc
    <3>3. CASE UNCHANGED sock
      BY <3>3 DEF TypeOK
    <3> QED
      BY <1>5, <3>2, <3>3 DEF WriteError
  <2>1. TypeOK'
    <3>1. pc' \in Pc
      BY <1>5 DEF TypeOK, Pc, WriteError, Goto
    <3> QED
      BY <1>5, <2>0, <3>1 DEF TypeOK, WriteError
  <2>2. Control'
    BY <1>5 DEF WriteError, Goto, Nscon, Control
  <2>3. Messages'
    BY <1>5, <2>0 DEF TypeOK, Pc, Agent, WriteError, Goto, Nscon, Control,
       Messages
  <2>4. Ends'
    BY <1>5 DEF WriteError, Goto, Ends, ChildBusy, LauncherBusy
  <2>5. Waits'
    BY <1>5 DEF WriteError, Waits
  <2>6. Outcome'
    BY <1>5, <2>0 DEF TypeOK, WriteError, Goto, Nscon, Outcome, NeverExecs,
       Execed
  <2> QED
    BY <2>1, <2>2, <2>3, <2>4, <2>5, <2>6
<1>6. CASE SignalParent
  <2>1. TypeOK'
    BY <1>6 DEF TypeOK, Pc, Agent, SignalParent, Goto, Signal, CloseEnds,
       Messages
  <2>2. Control'
    BY <1>6 DEF SignalParent, Goto, Nscon, Control
  <2>3. Messages'
    BY <1>6 DEF TypeOK, Pc, Agent, SignalParent, Goto, Signal, Nscon,
       Messages
  <2>4. Ends'
    BY <1>6 DEF TypeOK, Pc, Agent, SignalParent, Goto, CloseEnds, Ends,
       ChildBusy, LauncherBusy
  <2>5. Waits'
    BY <1>6 DEF SignalParent, Waits
  <2>6. Outcome'
    BY <1>6, OneMessage DEF TypeOK, Pc, Agent, SignalParent, Goto, Signal,
       Nscon, Outcome, NeverExecs, Execed
  <2> QED
    BY <2>1, <2>2, <2>3, <2>4, <2>5, <2>6
<1> QED
  BY <1>1, <1>2, <1>3, <1>4, <1>5, <1>6, SMTT(30) DEF ChildStep

(* nscon prints what it was told and exits.                                *)
LEMMA PrintIInv ==
    ASSUME IInv, PrintAndExit
    PROVE  IInv'
<1> USE DEF IInv
<1>1. TypeOK'
  <2>1. pc' \in Pc
    BY DEF TypeOK, Pc, PrintAndExit, Goto
  <2>2. writers' \in [Agent -> SUBSET Proc]
    BY DEF TypeOK, PrintAndExit, CloseEnds
  <2>3. bytes' \in [Agent -> 0..1]
    BY DEF TypeOK, PrintAndExit, Signal, Messages, Agent
  <2> QED
    BY <2>1, <2>2, <2>3 DEF TypeOK, PrintAndExit
<1>2. Control'
  BY DEF PrintAndExit, Goto, Nscon, Control
<1>3. Messages'
  BY DEF TypeOK, Pc, Agent, PrintAndExit, Signal, Goto, Nscon, Messages
<1>4. Ends' /\ Waits'
  BY DEF Agent, PrintAndExit, CloseEnds, Goto, Ends, Waits, ChildBusy,
     LauncherBusy
<1>5. Outcome'
  BY DEF PrintAndExit, Signal, Goto, Nscon, Outcome, NeverExecs, Execed
<1> QED
  BY <1>1, <1>2, <1>3, <1>4, <1>5

(* A process of nscon is killed.                                           *)
LEMMA KilledIInv ==
    ASSUME IInv, NEW p \in Proc, Killed(p)
    PROVE  IInv'
<1> USE DEF IInv
<1>1. writers' \in [Agent -> SUBSET Proc]
  BY DEF TypeOK, Killed, CloseEnds
<1>2. CASE p = "P"
  <2>1. TypeOK'
    BY <1>1 DEF TypeOK, Pc, Killed, Goto
  <2>2. Control' /\ Messages'
    BY DEF Killed, Goto, Nscon, Control, Messages
  <2>3. Ends' /\ Waits'
    BY <1>2 DEF Agent, Killed, Goto, CloseEnds, Ends, Waits, ChildBusy,
       LauncherBusy
  <2>4. Outcome'
    BY DEF Killed, Goto, Nscon, Outcome, NeverExecs, Execed
  <2> QED
    BY <2>1, <2>2, <2>3, <2>4
<1>3. CASE p = "T"
  <2>1. TypeOK'
    BY <1>1 DEF TypeOK, Pc, Killed, Goto
  <2>2. Control' /\ Messages'
    BY DEF Killed, Goto, Nscon, Control, Messages
  <2>3. Ends' /\ Waits'
    BY DEF TypeOK, Pc, Agent, Killed, Goto, CloseEnds, Ends, Waits,
       ChildBusy, LauncherBusy
  <2>4. Outcome'
    BY <1>3 DEF TypeOK, Pc, Killed, Goto, Nscon, Outcome, NeverExecs
  <2> QED
    BY <2>1, <2>2, <2>3, <2>4
<1>4. CASE p = "C"
  <2>1. TypeOK'
    BY <1>1 DEF TypeOK, Pc, Killed, Goto
  <2>2. Control' /\ Messages'
    BY DEF Killed, Goto, Nscon, Control, Messages
  <2>3. Ends' /\ Waits'
    BY DEF TypeOK, Pc, Agent, Killed, Goto, CloseEnds, Ends, Waits,
       ChildBusy, LauncherBusy
  <2>4. Outcome'
    BY DEF Killed, Goto, Nscon, Outcome, NeverExecs, Execed
  <2> QED
    BY <2>1, <2>2, <2>3, <2>4
<1> QED
  BY <1>2, <1>3, <1>4 DEF Killed, Proc

(* The invariant is inductive.                                             *)
LEMMA NextIInv == IInv /\ [Next]_vars => IInv'
<1> SUFFICES ASSUME IInv, [Next]_vars PROVE IInv'
  BY SMTT(30)
<1>1. CASE UNCHANGED vars
  <2>1. TypeOK' /\ Control'
    BY <1>1 DEF vars, IInv, TypeOK, Control, Nscon
  <2>2. Messages' /\ Ends'
    BY <1>1 DEF vars, IInv, Messages, Ends, ChildBusy, LauncherBusy, Nscon
  <2>3. Waits' /\ Outcome'
    BY <1>1 DEF vars, IInv, Waits, Outcome, NeverExecs, Execed, Nscon
  <2> QED
    BY <2>1, <2>2, <2>3 DEF IInv
<1> QED
  BY <1>1, LibraryIInv, TargetIInv, LauncherIInv, ChildIInv, PrintIInv,
     KilledIInv DEF Next

(* IInv holds in every reachable state.                                    *)
LEMMA SpecIInv == Spec => []IInv
BY InitIInv, NextIInv, PTL DEF Spec

-----------------------------------------------------------------------------
(* Every variable keeps its type, and no agent ever has more than one      *)
(* message or byte waiting, whatever fails and whoever is killed.          *)
THEOREM Typing == Spec => []TypeOK
<1>1. IInv => TypeOK
  BY DEF IInv
<1> QED
  BY <1>1, SpecIInv, PTL

(* Unless a process of nscon is killed, a launch that returns OK has       *)
(* started the command and names its pid: the end of the pipe is seen only *)
(* after execve has closed the last write end.                             *)
THEOREM OkIsExec == Spec => []OkMeansExec
<1>1. IInv => OkMeansExec
  BY DEF IInv, Proc, Outcome, Execed, OkMeansExec, Undisturbed, None
<1> QED
  BY <1>1, SpecIInv, PTL

(* Unless one is killed, a launch that returns an error has not started    *)
(* the command and never will: C is dead, or waits for a message that T no *)
(* longer sends.                                                           *)
THEOREM ErrorIsNoExec == Spec => []ErrorMeansNoExec
<1>1. IInv => ErrorMeansNoExec
  BY DEF IInv, TypeOK, Proc, Control, Outcome, NeverExecs, ErrorMeansNoExec,
     Undisturbed, None, Nscon
<1> QED
  BY <1>1, SpecIInv, PTL

(* However many configurators there are, C goes on only after the last one.*)
THEOREM SetupComesFirst == Spec => []SetupBeforeExec
<1>1. IInv => SetupBeforeExec
  BY DEF IInv, Waits, SetupBeforeExec
<1> QED
  BY <1>1, SpecIInv, PTL

-----------------------------------------------------------------------------
(* The SubProcess through which L runs nscon, for any amount of output and *)
(* any capacity of the channels: what Communicate returns.  A channel is   *)
(* closed at its end when nobody holds it, so neither the child nor a      *)
(* process of its own is running that could write to it or hand it on; an  *)
(* exit status of 0 is set by a finished program only.                     *)
Holder == {"parent", "child", "grandchild"}
Stage  == {"new", "fork", "receive", "failed", "started", "poll", "done"}
State  == {"none", "setup", "sent", "fatal", "exec", "running", "zombie", "gone"}

Alive(w) == child[w] \in {"setup", "sent", "fatal", "exec", "running"}
Ended    == child["child"] \in {"zombie", "gone"}

SubTypes ==
    /\ parent \in [pc : Stage, exit : Int]
    /\ piped \subseteq Channel /\ left \subseteq piped /\ reading \subseteq piped
    /\ child \in [Writer -> State]
    /\ code \in Int
    /\ todo \in [Writer -> [Channel -> Nat]]
    /\ message \in {"none", "ok", "error"}
    /\ pipe \in [Channel -> Nat]
    /\ ends \in [Channel -> SUBSET Holder]

(* A living process holds every piped channel; a channel that Communicate  *)
(* has closed at its end is held by nobody and empty; and the status is 0  *)
(* only for a program that has written everything.                         *)
SubIInv ==
    /\ SubTypes
    /\ \A w \in Writer : \A c \in piped : Alive(w) => w \in ends[c]
    /\ At("new") \/ At("fork") => \A w \in Writer : child[w] = "none"
    /\ ~At("poll") => left = {}
    /\ At("poll") \/ At("done") =>
          \A c \in piped \ (left \cup lost) : pipe[c] = 0 /\ ends[c] = {}
    /\ Ended /\ code = 0 => todo["child"] = Nothing
    /\ At("done") => Ended /\ (parent.exit = 0 => code = 0)

(* A new subprocess has started nothing.                                   *)
LEMMA InitSubIInv == SubInit => SubIInv
BY SMTT(60) DEF SubInit, SubIInv, SubTypes, Stage, State, Holder, Alive, Ended,
       At, Writer, Zero, Nothing

(* The parent's steps: Start, Communicate and Wait.                        *)
LEMMA SubParentIInv ==
    ASSUME SubIInv, ParentStep \/ ReceiveFails \/ ReadOrPollFails
    PROVE  SubIInv'
<1> USE DEF SubIInv, SubTypes, Stage, At, ParentGoesTo
<1>1. CASE SetupPipesForChannels
  BY <1>1 DEF SetupPipesForChannels, Holder, Alive, Ended
<1>2. CASE ForkChild
  BY <1>2 DEF ForkChild, Become, Holder, State, Alive, Ended, Writer
<1>3. CASE ReceiveMessageFromChild
  BY <1>3 DEF ReceiveMessageFromChild, Release, Holder, Alive, Ended, Writer
<1>4. CASE Communicate
  BY <1>4 DEF Communicate, Alive, Ended
<1>5. CASE Wait
  BY <1>5 DEF Wait, Become, State, Alive, Ended, exit_code, Writer
<1>6. ASSUME NEW c \in Channel, Read(c)
      PROVE  SubIInv'
  BY <1>6 DEF Read, Alive, Ended
<1>7. ASSUME NEW c \in Channel, EndOfFile(c)
      PROVE  SubIInv'
  BY <1>7 DEF EndOfFile, Close, Polled, ChannelAtEnd, Alive, Ended
<1>8. CASE ReadOrPollFails
  BY <1>8 DEF ReadOrPollFails, Close, Alive, Ended
<1>9. CASE ReceiveFails
  BY <1>9, SMTT(30) DEF ReceiveFails, Release, Holder, Alive, Ended, Writer
<1> QED
  BY <1>1, <1>2, <1>3, <1>4, <1>5, <1>6, <1>7, <1>8, <1>9, Zenon DEF ParentStep

(* A process that ends releases what it holds; the child may do so with    *)
(* status 0 only when it has nothing left to write.                        *)
LEMMA SubExitIInv ==
    ASSUME SubIInv, NEW w \in Writer, NEW s \in Int, Exit(w, s), Alive(w),
           w = "child" /\ s = 0 => todo["child"] = Nothing
    PROVE  SubIInv'
<1> USE DEF SubIInv, SubTypes, At
<1>1. SubTypes'
  BY DEF Exit, Become, Release, State, Holder
<1>2. child'[w] \in {"zombie", "gone"} /\ \A v \in Writer \ {w} : child'[v] = child[v]
  BY DEF Exit, Become
<1>3. \A c \in Channel : ends'[c] = ends[c] \ {w}
  BY DEF Exit, Release
<1>4. \A v \in Writer : \A c \in piped' : Alive(v)' => v \in ends'[c]
  <2> SUFFICES ASSUME NEW v \in Writer, NEW c \in piped, child'[v] \in
                        {"setup", "sent", "fatal", "exec", "running"}
               PROVE  v \in ends'[c]
    BY ZenonT(60) DEF Exit, Alive
  <2>1. v # w /\ Alive(v)
    BY <1>2 DEF Alive
  <2> QED
    BY <1>3, <2>1
<1>5. ~At("new") /\ ~At("fork")
  BY DEF Alive
<1>6. w = "child" => ~At("done")
  BY DEF Alive, Ended
<1>7. Ended' /\ code' = 0 => todo'["child"] = Nothing
  BY <1>2 DEF Exit, Ended, Alive, Writer
<1>8. At("done") => Ended' /\ code' = code
  BY <1>2, <1>6 DEF Exit, Ended, Writer
<1> QED
  BY <1>1, <1>3, <1>4, <1>5, <1>7, <1>8, ZenonT(60) DEF Exit

(* The steps of the child and of the program.                              *)
LEMMA SubChildIInv ==
    ASSUME SubIInv,
           SubChildStep \/ ChildKilled \/ ForksOne \/ \E w \in Writer : ProgramStep(w)
    PROVE  SubIInv'
<1>a. \A w \in Writer : child[w] = "running" => Alive(w)
  BY DEF Alive
<1>b. "child" \in Writer /\ "grandchild" \in Writer
  BY DEF Writer
<1>1. CASE ChildSetup
  BY <1>1 DEF SubIInv, SubTypes, At, ChildSetup, SendMessage, Become,
     State, Alive, Ended, Writer
<1>2. CASE Shutdown
  BY <1>2 DEF SubIInv, SubTypes, At, Shutdown, Become, State, Alive,
     Ended, Writer
<1>3. CASE Fatal
  BY <1>3, <1>b, SubExitIInv DEF Fatal, Alive
<1>4. CASE ChildKilled
  BY <1>4, <1>b, SubExitIInv DEF ChildKilled, Alive, SIGKILL
<1>5. ASSUME child["child"] = "exec", Exit("child", 1)
      PROVE  SubIInv'
  BY <1>5, <1>b, SubExitIInv DEF Alive
<1>6. ASSUME child["child"] = "exec", NEW plan \in [Channel -> 0 .. MaxWrites],
             Become("child", "running"), todo' = [todo EXCEPT !["child"] = plan],
             UNCHANGED <<parent, piped, left, lost, code, message, shut, pipe, ends, reading>>
      PROVE  SubIInv'
  BY <1>6, SubProcessAssumption, SMTT(30) DEF SubIInv, SubTypes, At, Become, State, Alive, Ended,
     Writer
<1>7. CASE ForksOne
  <2>1. PICK plan \in [Channel -> 0 .. MaxWrites] : todo' = [todo EXCEPT !["grandchild"] = plan]
    BY <1>7, ZenonT(60) DEF ForksOne
  <2>2. \A c \in piped : ends[c] # {}
    BY <1>7, <1>a, <1>b, ZenonT(60) DEF ForksOne, SubIInv
  <2>3. SubTypes'
    BY <1>7, <2>1, SubProcessAssumption DEF ForksOne, SubIInv, SubTypes, Become, State, Holder,
       Writer
  <2> QED
    BY <1>7, <2>1, <2>2, <2>3, SMTT(60)
       DEF ForksOne, SubIInv, SubTypes, At, Become, Alive, Ended, Writer
<1>8. ASSUME NEW w \in Writer, Finish(w)
      PROVE  SubIInv'
  BY <1>8, <1>a, SubExitIInv DEF Finish
<1>9. ASSUME NEW w \in Writer, NEW c \in Channel, Write(w, c)
      PROVE  SubIInv'
  <2>1. Alive(w) /\ todo[w][c] > 0
    BY <1>9, <1>a DEF Write
  <2>2. CASE Exit(w, SIGPIPE)
    BY <2>1, <2>2, SubExitIInv, SMTT(30) DEF SIGPIPE
  <2>3. CASE /\ todo' = [todo EXCEPT ![w][c] = @ - 1]
             /\ UNCHANGED <<parent, piped, left, lost, child, code, ends, reading, message>>
             /\ \/ pipe' = pipe
                \/ c \in reading /\ pipe' = [pipe EXCEPT ![c] = @ + 1]
    <3>1. SubTypes'
      <4>1. todo[w][c] - 1 \in Nat /\ pipe[c] + 1 \in Nat
        BY <2>1 DEF SubIInv, SubTypes
      <4>2. todo' \in [Writer -> [Channel -> Nat]]
        BY <2>3, <4>1 DEF SubIInv, SubTypes
      <4>3. pipe' \in [Channel -> Nat]
        BY <2>3, <4>1 DEF SubIInv, SubTypes
      <4> QED
        BY <2>3, <4>2, <4>3 DEF SubIInv, SubTypes
    <3>2. c \in piped => ends[c] # {}
      BY <2>1 DEF SubIInv
    <3>3. w = "child" => ~Ended
      BY <2>1 DEF Alive, Ended
    <3>4. w # "child" => todo'["child"] = todo["child"]
      BY <2>3, <1>b DEF SubIInv, SubTypes
    <3> QED
      BY <2>3, <3>1, <3>2, <3>3, <3>4 DEF SubIInv, SubTypes, At, Alive, Ended
  <2> QED
    BY <1>9, <2>2, <2>3 DEF Write
<1> QED
  BY <1>1, <1>2, <1>3, <1>4, <1>5, <1>6, <1>7, <1>8, <1>9
     DEF SubChildStep, ExecChild, ProgramStep

(* Every step preserves SubIInv.                                           *)
LEMMA NextSubIInv ==
    SubIInv /\ [SubNext]_sub_vars => SubIInv'
<1> SUFFICES ASSUME SubIInv, [SubNext]_sub_vars PROVE SubIInv'
  OBVIOUS
<1>1. CASE UNCHANGED sub_vars
  BY <1>1 DEF sub_vars, SubIInv, SubTypes, At, Alive, Ended
<1>2. CASE SubNext
  BY <1>2, SubParentIInv, SubChildIInv DEF SubNext
<1> QED
  BY <1>1, <1>2

(* SubIInv holds of every reachable state.                                 *)
LEMMA SubIInvHolds ==
    SubSpec => []SubIInv
BY InitSubIInv, NextSubIInv, PTL DEF SubSpec

(* Communicate returns only when everything written was read and nobody is *)
(* left who could write, for any program and any channel capacity.         *)
THEOREM OutputIsComplete ==
    SubSpec => []ReadToTheEnd
<1>1. SubIInv => ReadToTheEnd
  BY ZenonT(60) DEF SubIInv, ReadToTheEnd, At
<1> QED
  BY <1>1, SubIInvHolds, PTL

(* An exit code of 0 comes from a program that ended by itself.            *)
THEOREM ZeroIsSuccess ==
    SubSpec => []ZeroMeansFinished
<1>1. SubIInv => ZeroMeansFinished
  BY DEF SubIInv, ZeroMeansFinished
<1> QED
  BY <1>1, SubIInvHolds, PTL
=============================================================================
