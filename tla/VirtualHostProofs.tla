------------------------- MODULE VirtualHostProofs -------------------------
(***************************************************************************)
(* DetectInit finds the init of the virtual host, for any set of PIDs and  *)
(* any number of processes that start and of tries.                        *)
(***************************************************************************)
EXTENDS VirtualHost, TLAPS

Vh(p) == proc[p].ns = "vh"

(* The processes: those of the virtual host live while its init does and   *)
(* are in its container or a subcontainer.                                 *)
Processes ==
    /\ proc \in [Pid -> [ns     : {"none", "root", "vh"},
                         ppid   : Pid \cup {0},
                         cgroup : {"self", "sub", "out"}]]
    /\ init \in Pid \cup {0}
    /\ init # 0 => Vh(init)
    /\ \A p \in Pid : Vh(p) => init # 0 /\ proc[p].cgroup \in {"self", "sub"}
    /\ \A p \in Pid : Alive(p) => proc[p].ppid \in Pid

CallState ==
    [pc : {"idle", "front", "isvh", "list", "parent", "namespace", "verify", "detect",
           "handle", "start", "nscon", "attach", "end"},
     op : {"lookup", "run"}, helper : Pid \cup {0}, current : Pid \cup {0},
     previous : Pid \cup {0}, tries : Int, found : Pid \cup {0}, handle : Pid \cup {0},
     cookie : BOOLEAN, command : Pid \cup {0},
     result : {"none", "OK", "INTERNAL", "UNAVAILABLE", "INVALID_ARGUMENT"}]

(* The call: which of its PIDs are set at each step of it; the nscon that  *)
(* it has started stays a process of the host until it returns.            *)
Calling ==
    /\ call \in CallState
    /\ call.pc \in {"isvh", "parent", "namespace", "verify"} => call.current # 0
    /\ call.pc \in {"namespace", "verify", "detect"} => call.previous # 0
    /\ call.pc \in {"start", "nscon", "attach"} => call.handle # 0
    /\ call.pc = "handle" <=> call.found # 0
    /\ call.pc \in {"nscon", "attach"} => call.helper # 0
    /\ call.helper # 0 => proc[call.helper].ns = "root"

(* The history: what it says of now.                                       *)
Recorded ==
    /\ past \in [tree : BOOLEAN, inits : SUBSET (Pid \cup {0}), given : [Pid -> Nat]]
    /\ call.pc # "idle" => init \in past.inits
    /\ Searching /\ past.tree => Tree

TInv == Processes /\ Calling /\ Recorded

-----------------------------------------------------------------------------
(* What the crawl knows at each of its steps of the process p it may       *)
(* return, where it matters: nothing else excuses returning p.             *)
Counts(p)   == past.tree /\ p \notin past.inits /\ ~Recycled(p)
KnownVh(p)  == past.given[p] = 0 /\ Alive(p) => Vh(p)
Stranger(p) == past.given[p] > 0 /\ ~Vh(p)

AtParent(p) == past.tree => KnownVh(p)

AtNamespace(p, c) == Counts(p) => Stranger(p) \/ (KnownVh(p) /\ KnownVh(c))

(* Once c has been seen outside the virtual host it is not the parent of p *)
(* unless it has been used again.                                          *)
AtVerify(p, c) ==
    Counts(p) =>
       \/ Stranger(p)
       \/ /\ KnownVh(p)
          /\ Vh(p) => proc[p].ppid # c
          /\ c # init
          /\ past.given[c] > 0
          /\ Vh(c) => past.given[c] > 1

AtDetect(p) == Counts(p) => Stranger(p)

Crawl ==
    /\ call.pc = "parent" => AtParent(call.current)
    /\ call.pc = "namespace" => AtNamespace(call.previous, call.current)
    /\ call.pc = "verify" => AtVerify(call.previous, call.current)
    /\ call.pc = "detect" => AtDetect(call.previous)
    /\ call.pc = "handle" /\ call.found # 1 => ~Counts(call.found)

-----------------------------------------------------------------------------
(* The machine starts with its init and that of the virtual host.          *)
LEMMA InitInv == Init => TInv /\ Crawl
<1> SUFFICES ASSUME Init PROVE TInv /\ Crawl
  OBVIOUS
<1>1. Processes
  BY VirtualHostAssumption DEF Init, Processes, Vh, Alive, Free
<1>2. Calling /\ Crawl
  BY DEF Init, NoCall, Calling, CallState, Crawl
<1>3. Recorded
  BY DEF Init, NoCall, NoPast, Recorded, Searching
<1> QED
  BY <1>1, <1>2, <1>3 DEF TInv

(* Whatever happens, the history says of the next state what it should.    *)
LEMMA RecordedStep ==
    ASSUME Recorded, History, Processes'
    PROVE  Recorded'
<1>1. past' \in [tree : BOOLEAN, inits : SUBSET (Pid \cup {0}), given : [Pid -> Nat]]
  <2>1. past'.given \in [Pid -> Nat]
    BY DEF Recorded, History
  <2>2. past'.inits \in SUBSET (Pid \cup {0})
    BY DEF Recorded, History, Processes
  <2>3. past'.tree \in BOOLEAN
    BY DEF History
  <2> QED
    BY <2>1, <2>2, <2>3 DEF History
<1>2. call'.pc # "idle" => init' \in past'.inits
  BY DEF History
<1>3. Searching' /\ past'.tree => Tree'
  BY Zenon DEF History
<1> QED
  BY <1>1, <1>2, <1>3 DEF Recorded

-----------------------------------------------------------------------------
(* What happens to the processes around the call: a PID keeps its          *)
(* namespace while its process lives; one of the virtual host whose parent *)
(* dies goes to the init, and starts with a parent in the virtual host.    *)
Evolves ==
    /\ init' \in {init, 0}
    /\ \A p \in Pid : Alive(p) /\ Alive(p)' => proc'[p].ns = proc[p].ns
    /\ \A p \in Pid : Vh(p) /\ Vh(p)' /\ Vh(proc[p].ppid) =>
          proc'[p].ppid \in {proc[p].ppid, init}
    /\ \A p \in Pid : ~Alive(p) /\ Vh(p)' => \E q \in Pid : Vh(q) /\ proc'[p].ppid = q

SameCall == \E b \in BOOLEAN : call' = [call EXCEPT !.cookie = b]

(* A process that exits takes the whole virtual host with it or leaves its *)
(* children to the init of their namespace.                                *)
LEMMA ExitStep ==
    ASSUME TInv, NEW p \in Pid, Exit(p)
    PROVE  Processes' /\ Evolves /\ (call.helper # 0 => proc'[call.helper].ns = "root")
<1> DEFINE dead == Gone(p)
<1>1. /\ proc' = Without(dead) /\ Alive(p) /\ p # 1
      /\ init' = IF p = init THEN 0 ELSE init
  BY DEF Exit
<1>2. 1 \in Pid
  BY VirtualHostAssumption
<1>3. ASSUME NEW q \in Pid, q \notin dead
      PROVE  /\ proc'[q].ns = proc[q].ns /\ proc'[q].cgroup = proc[q].cgroup
             /\ proc'[q].ppid = IF proc[q].ppid \in dead THEN Heir(proc[q].ppid) ELSE proc[q].ppid
             /\ proc'[q] \in [ns     : {"none", "root", "vh"},
                              ppid   : Pid \cup {0},
                              cgroup : {"self", "sub", "out"}]
  BY <1>1, <1>2, <1>3 DEF TInv, Processes, Without, Heir
<1>4. \A q \in Pid : q \in dead => proc'[q] = Free
  BY <1>1 DEF Without
<1>5. ASSUME p = init PROVE Processes' /\ Evolves
  <2>1. dead = {q \in Pid : Vh(q)} /\ init' = 0
    BY <1>1, <1>5 DEF Gone, Vh
  <2>2. \A q \in Pid : ~Vh(q)'
    BY <1>3, <1>4, <2>1 DEF Vh, Free
  <2>3. proc' \in [Pid -> [ns     : {"none", "root", "vh"},
                           ppid   : Pid \cup {0},
                           cgroup : {"self", "sub", "out"}]]
    BY <1>1, <1>3, <1>4 DEF Without, Free
  <2>4. \A q \in Pid : Alive(q)' => proc'[q].ppid \in Pid
    BY <1>2, <1>3, <1>4, <1>5 DEF TInv, Processes, Alive, Free, Heir
  <2>5. \A q \in Pid : Alive(q) /\ Alive(q)' => proc'[q].ns = proc[q].ns
    BY <1>3, <1>4 DEF Alive, Free
  <2>6. Processes'
    BY <2>1, <2>2, <2>3, <2>4 DEF Processes
  <2>7. Evolves
    BY <2>1, <2>2, <2>5 DEF Evolves
  <2> QED
    BY <2>6, <2>7
<1>6. ASSUME p # init PROVE Processes' /\ Evolves
  <2>1. dead = {p} /\ init' = init
    BY <1>1, <1>6 DEF Gone
  <2>2. proc' \in [Pid -> [ns     : {"none", "root", "vh"},
                           ppid   : Pid \cup {0},
                           cgroup : {"self", "sub", "out"}]]
    BY <1>1, <1>3, <1>4 DEF Without, Free
  <2>3. Heir(p) \in Pid /\ (Vh(p) => Heir(p) = init)
    BY <1>2, <1>6 DEF Heir, Vh, TInv, Processes
  <2>4. \A q \in Pid : Alive(q)' => proc'[q].ppid \in Pid
    BY <1>3, <1>4, <2>1, <2>3 DEF TInv, Processes, Alive, Free
  <2>5. \A q \in Pid : q # p => (Vh(q)' <=> Vh(q)) /\ proc'[q].cgroup = proc[q].cgroup
    BY <1>3, <2>1 DEF Vh
  <2>6. ~Vh(p)' /\ ~Alive(p)'
    BY <1>4, <2>1 DEF Vh, Free, Alive
  <2>7. Processes'
    BY <1>6, <2>1, <2>2, <2>4, <2>5, <2>6 DEF TInv, Processes
  <2>8. \A q \in Pid : Alive(q) /\ Alive(q)' => proc'[q].ns = proc[q].ns
    BY <1>3, <2>1, <2>6
  <2>9. \A q \in Pid : Vh(q) /\ Vh(q)' /\ Vh(proc[q].ppid) =>
           proc'[q].ppid \in {proc[q].ppid, init}
    BY <1>3, <2>1, <2>3, <2>6
  <2>10. \A q \in Pid : Vh(q)' => Alive(q)
    BY <2>5, <2>6 DEF Alive, Vh
  <2>11. Evolves
    BY <2>1, <2>8, <2>9, <2>10 DEF Evolves
  <2> QED
    BY <2>7, <2>11
<1>7. call.helper # 0 => call.helper \in Pid /\ call.helper \notin dead
  <2>1. call.helper # 0 => call.helper \in Pid /\ proc[call.helper].ns = "root"
    BY DEF TInv, Calling, CallState
  <2> QED
    BY <2>1 DEF Exit, Gone
<1>8. call.helper # 0 => proc'[call.helper].ns = "root"
  BY <1>3, <1>7 DEF TInv, Calling
<1> QED
  BY <1>5, <1>6, <1>8

(* A process that starts leaves the others alone.                          *)
LEMMA StartStep ==
    ASSUME Processes, NEW q \in Pid, NEW n \in {"root", "vh"}, NEW p \in Pid,
           NEW g \in {"self", "sub", "out"}, Start(q, Process(n, p, g)),
           n = "vh" => Vh(init) /\ init \in Pid /\ g # "out", init' = init
    PROVE  /\ Processes'
           /\ (n = "vh" => Vh(p)) => Evolves
<1>1. /\ proc' = [proc EXCEPT ![q] = [ns |-> n, ppid |-> p, cgroup |-> g]]
      /\ ~Alive(q)
  BY DEF Start, Process, Unused
<1>2. \A x \in Pid : x # q => proc'[x] = proc[x]
  BY <1>1 DEF Processes
<1>3. proc'[q] = [ns |-> n, ppid |-> p, cgroup |-> g]
  BY <1>1 DEF Processes
<1>4. q # init
  BY <1>1, VirtualHostAssumption DEF Processes, Alive, Vh
<1>5. proc' \in [Pid -> [ns     : {"none", "root", "vh"},
                         ppid   : Pid \cup {0},
                         cgroup : {"self", "sub", "out"}]]
  BY <1>1 DEF Processes
<1>6. init # 0 => Vh(init)'
  BY <1>2, <1>4 DEF Processes, Vh
<1>7. 0 \notin Pid
  BY VirtualHostAssumption
<1>8. ASSUME NEW x \in Pid
      PROVE  /\ Vh(x)' => init # 0 /\ proc'[x].cgroup \in {"self", "sub"}
             /\ Alive(x)' => proc'[x].ppid \in Pid
  BY <1>2, <1>3, <1>7 DEF Processes, Vh, Alive
<1>9. Processes'
  BY <1>5, <1>6, <1>8 DEF Processes
<1>10. ASSUME n = "vh" => Vh(p)
       PROVE  Evolves
  <2>1. \A x \in Pid : ~Alive(x) /\ Vh(x)' => x = q /\ n = "vh"
    BY <1>2, <1>3 DEF Alive, Vh
  <2>2. \A x \in Pid : Alive(x) => x # q
    BY <1>1
  <2>3. \A x \in Pid : Vh(x) => x # q
    BY <1>1 DEF Alive, Vh
  <2> QED
    BY <1>2, <1>3, <1>10, <2>1, <2>2, <2>3 DEF Evolves
<1> QED
  BY <1>9, <1>10

(* Every step of the environment.                                          *)
LEMMA EnvironmentStep ==
    ASSUME TInv, Environment
    PROVE  Processes' /\ Evolves /\ SameCall /\ Calling'
<1>1. call \in CallState
  BY DEF TInv, Calling
<1>2. (\E p \in Pid : Exit(p)) \/ UNCHANGED call
  BY DEF Environment, Move, Spawn, OtherRun, Fork
<1>3. SameCall
  <2>1. ASSUME NEW p \in Pid, Exit(p)
        PROVE  SameCall
    <3> DEFINE b == call.cookie /\ call.handle \notin Gone(p)
    <3>1. call' = [call EXCEPT !.cookie = b]
      BY <1>1, <2>1 DEF Exit, CallState
    <3> QED
      BY <3>1, Zenon DEF SameCall
  <2>2. CASE UNCHANGED call
    <3>1. call.cookie \in BOOLEAN /\ call' = [call EXCEPT !.cookie = call.cookie]
      BY <1>1, <2>2 DEF CallState
    <3> QED
      BY <3>1 DEF SameCall
  <2> QED
    BY <1>2, <2>1, <2>2
<1>4. 1 \in Pid
  BY VirtualHostAssumption
<1>5. call.helper # 0 => call.helper \in Pid /\ proc[call.helper].ns = "root"
  BY <1>1 DEF TInv, Calling, CallState
<1>6. Processes' /\ Evolves /\ (call.helper # 0 => proc'[call.helper].ns = "root")
  <2>1. ASSUME NEW p \in Pid, Exit(p)
        PROVE  Processes' /\ Evolves /\ (call.helper # 0 => proc'[call.helper].ns = "root")
    BY <2>1, ExitStep
  <2>2. ASSUME NEW q \in Pid, Spawn(q) \/ OtherRun(q)
        PROVE  Processes' /\ Evolves /\ (call.helper # 0 => proc'[call.helper].ns = "root")
    <3>1. PICK g \in {"self", "out"} : Start(q, Process("root", 1, g)) /\ init' = init
      BY <2>2 DEF Spawn, OtherRun
    <3>2. Processes' /\ Evolves
      BY <1>4, <3>1, StartStep DEF TInv
    <3>3. call.helper # 0 => proc'[call.helper] = proc[call.helper]
      BY <1>5, <3>1 DEF Start, Unused, Alive, TInv, Processes
    <3> QED
      BY <1>5, <3>2, <3>3
  <2>3. ASSUME NEW p \in Pid, NEW q \in Pid, Fork(p, q)
        PROVE  Processes' /\ Evolves /\ (call.helper # 0 => proc'[call.helper].ns = "root")
    <3> DEFINE g == proc[p].cgroup
    <3>1. Start(q, Process("vh", p, g)) /\ init' = init /\ Vh(p)
      BY <2>3 DEF Fork, Vh
    <3>2. g \in {"self", "sub"} /\ Vh(init) /\ init \in Pid
      BY <3>1 DEF TInv, Processes
    <3> HIDE DEF g
    <3>3. Processes' /\ Evolves
      BY <3>1, <3>2, StartStep DEF TInv
    <3>4. call.helper # 0 => proc'[call.helper] = proc[call.helper]
      BY <1>5, <3>1 DEF Start, Unused, Alive, TInv, Processes
    <3> QED
      BY <1>5, <3>3, <3>4
  <2>4. ASSUME NEW p \in Pid, Move(p)
        PROVE  Processes' /\ Evolves /\ (call.helper # 0 => proc'[call.helper].ns = "root")
    <3>1. /\ proc' = [proc EXCEPT ![p] = [proc[p] EXCEPT !.cgroup = "sub"]]
          /\ init' = init
      BY <2>4 DEF Move
    <3>2. ASSUME NEW x \in Pid
          PROVE  /\ proc'[x].ns = proc[x].ns /\ proc'[x].ppid = proc[x].ppid
                 /\ proc'[x].cgroup \in {proc[x].cgroup, "sub"}
      BY <3>1 DEF TInv, Processes
    <3>3. proc' \in [Pid -> [ns     : {"none", "root", "vh"},
                             ppid   : Pid \cup {0},
                             cgroup : {"self", "sub", "out"}]]
      BY <3>1 DEF TInv, Processes
    <3>4. Processes'
      BY <3>1, <3>2, <3>3 DEF TInv, Processes, Vh, Alive
    <3>5. Evolves
      BY <3>1, <3>2 DEF Evolves, Vh, Alive
    <3> QED
      BY <1>5, <3>2, <3>4, <3>5
  <2> QED
    BY <2>1, <2>2, <2>3, <2>4 DEF Environment
<1>7. Calling'
  <2>1. PICK b \in BOOLEAN : call' = [call EXCEPT !.cookie = b]
    BY <1>3 DEF SameCall
  <2>2. /\ call'.pc = call.pc /\ call'.current = call.current /\ call'.found = call.found
        /\ call'.previous = call.previous /\ call'.handle = call.handle
        /\ call'.helper = call.helper
    BY <1>1, <2>1 DEF CallState
  <2>3. call' \in CallState
    BY <1>1, <2>1 DEF CallState
  <2> QED
    BY <1>6, <2>2, <2>3 DEF TInv, Calling
<1> QED
  BY <1>3, <1>6, <1>7

-----------------------------------------------------------------------------
(* What the crawl knows stays true whatever the processes do meanwhile.    *)
Grows ==
    /\ past'.tree => past.tree
    /\ past.inits \subseteq past'.inits
    /\ \A p \in Pid : past'.given[p] = past.given[p] + IF ~Alive(p) /\ Alive(p)' THEN 1 ELSE 0

(* The record of what happened during the crawl only grows.                *)
LEMMA HistoryGrows ==
    ASSUME TInv, History, Searching, Searching'
    PROVE  Grows
<1>1. call'.pc # "idle"
  BY DEF Searching
<1>2. past'.inits = past.inits \cup {init'} /\ (past'.tree => past.tree)
  BY <1>1, Zenon DEF History
<1>3. ASSUME NEW p \in Pid
      PROVE  past'.given[p] = past.given[p] + IF ~Alive(p) /\ Alive(p)' THEN 1 ELSE 0
  BY DEF History, Unused
<1> QED
  BY <1>2, <1>3 DEF Grows

(* An excuse is not withdrawn.                                             *)
LEMMA CountsStays ==
    ASSUME Recorded, Grows, NEW p \in Pid, Counts(p)'
    PROVE  Counts(p)
<1>1. \A q \in Pid : /\ past'.given[q] >= past.given[q]
                     /\ past.given[q] \in Nat /\ past'.given[q] \in Nat
  BY DEF Grows, Recorded
<1>2. Recycled(p) => Recycled(p)'
  BY <1>1 DEF Recycled
<1> QED
  BY <1>2 DEF Counts, Grows

(* A process known to be of the virtual host stays known to be.            *)
LEMMA KnownStays ==
    ASSUME Recorded, Grows, Evolves, NEW p \in Pid, KnownVh(p)
    PROVE  KnownVh(p)'
<1> SUFFICES ASSUME past'.given[p] = 0, Alive(p)' PROVE Vh(p)'
  BY DEF KnownVh
<1>1. past.given[p] = 0 /\ Alive(p)
  BY DEF Grows, Recorded
<1> QED
  BY <1>1 DEF KnownVh, Evolves, Vh

(* A process known not to be of it stays so while its PID counts.          *)
LEMMA StrangerStays ==
    ASSUME Recorded, Grows, Evolves, NEW p \in Pid, Stranger(p), Counts(p)'
    PROVE  Stranger(p)'
<1>1. past'.given[p] > 0
  BY DEF Grows, Recorded, Stranger
<1>2. SUFFICES ASSUME Vh(p)' PROVE FALSE
  BY <1>1 DEF Stranger
<1>3. ~Alive(p) /\ Alive(p)'
  BY <1>2 DEF Evolves, Vh, Alive, Stranger
<1>4. past'.given[p] > 1
  BY <1>3 DEF Grows, Recorded, Stranger
<1> QED
  BY <1>1, <1>4 DEF Counts, Recycled

(* A candidate that is being verified stays one.                           *)
LEMMA VerifyStays ==
    ASSUME TInv, Searching, Grows, Evolves, NEW p \in Pid, NEW c \in Pid, AtVerify(p, c)
    PROVE  AtVerify(p, c)'
<1> SUFFICES ASSUME Counts(p)', ~Stranger(p)'
             PROVE  /\ KnownVh(p)'
                    /\ Vh(p)' => proc'[p].ppid # c
                    /\ c # init'
                    /\ past'.given[c] > 0
                    /\ Vh(c)' => past'.given[c] > 1
  BY DEF AtVerify
<1>1. Recorded /\ Processes /\ 0 \notin Pid
  BY VirtualHostAssumption DEF TInv
<1>2. Counts(p) /\ ~Stranger(p)
  BY <1>1, CountsStays, StrangerStays
<1>3. /\ KnownVh(p) /\ (Vh(p) => proc[p].ppid # c) /\ c # init
      /\ past.given[c] > 0 /\ (Vh(c) => past.given[c] > 1)
  BY <1>2 DEF AtVerify
<1>4. KnownVh(p)'
  BY <1>1, <1>3, KnownStays
<1>5. c # init' /\ past'.given[c] > 0
  BY <1>1, <1>3 DEF Evolves, Grows, Recorded
<1>6. ASSUME Vh(c)' PROVE past'.given[c] > 1
  <2>1. CASE Vh(c)
    BY <1>1, <1>3, <2>1 DEF Grows, Recorded
  <2>2. CASE ~Vh(c)
    <3>1. ~Alive(c) /\ Alive(c)'
      BY <1>6, <2>2 DEF Evolves, Vh, Alive
    <3> QED
      BY <1>1, <1>3, <3>1 DEF Grows, Recorded
  <2> QED
    BY <2>1, <2>2
<1>7. ASSUME Vh(p)' PROVE proc'[p].ppid # c
  <2>1. CASE Alive(p)
    <3>1. Vh(p)
      BY <1>7, <2>1 DEF Evolves, Vh, Alive
    <3>2. p # init /\ Tree
      BY <1>1, <1>2 DEF Counts, Recorded, TInv, Searching
    <3>3. p \in In("self") \cup In("sub")
      BY <1>1, <3>1 DEF Processes, In
    <3>4. Vh(proc[p].ppid)
      BY <3>2, <3>3 DEF Tree, Vh
    <3> QED
      BY <1>3, <1>7, <3>1, <3>4 DEF Evolves
  <2>2. CASE ~Alive(p)
    <3>1. PICK q \in Pid : Vh(q) /\ proc'[p].ppid = q
      BY <1>7, <2>2 DEF Evolves
    <3>2. past'.given[p] > 0
      BY <1>1, <1>7, <2>2 DEF Grows, Recorded, Alive, Vh
    <3>3. past.given[q] > 1 => past'.given[q] > 1
      BY <1>1 DEF Grows, Recorded
    <3>4. ~(past'.given[q] > 1)
      BY <3>2 DEF Counts, Recycled
    <3> QED
      BY <1>3, <3>1, <3>3, <3>4
  <2> QED
    BY <2>1, <2>2
<1> QED
  BY <1>4, <1>5, <1>6, <1>7

(* The crawl, while the environment takes a step.                          *)
LEMMA CrawlStays ==
    ASSUME TInv, Crawl, Evolves, SameCall, History
    PROVE  Crawl'
<1>1. /\ call'.pc = call.pc /\ call'.current = call.current /\ call'.found = call.found
      /\ call'.previous = call.previous
  BY DEF SameCall, TInv, Calling, CallState
<1>2. Recorded
  BY DEF TInv
<1>3. SUFFICES ASSUME call.pc \in {"parent", "namespace", "verify", "detect", "handle"}
               PROVE  Crawl'
  BY <1>1 DEF Crawl
<1>4. Searching /\ Grows
  BY <1>1, <1>3, HistoryGrows DEF Searching
<1>5. CASE call.pc = "parent"
  <2>1. PICK p \in Pid : p = call.current
    BY <1>5 DEF TInv, Calling, CallState
  <2>2. AtParent(p)
    BY <1>5, <2>1 DEF Crawl
  <2>3. AtParent(p)'
    BY <1>2, <1>4, <2>2, KnownStays DEF AtParent, Grows
  <2> QED
    BY <1>1, <1>5, <2>1, <2>3 DEF Crawl
<1>6. CASE call.pc = "namespace"
  <2>1. PICK p \in Pid, c \in Pid : p = call.previous /\ c = call.current
    BY <1>6 DEF TInv, Calling, CallState
  <2>2. AtNamespace(p, c)
    BY <1>6, <2>1 DEF Crawl
  <2>3. AtNamespace(p, c)'
    BY <1>2, <1>4, <2>2, CountsStays, StrangerStays, KnownStays DEF AtNamespace
  <2> QED
    BY <1>1, <1>6, <2>1, <2>3 DEF Crawl
<1>7. CASE call.pc = "verify"
  <2>1. PICK p \in Pid, c \in Pid : p = call.previous /\ c = call.current
    BY <1>7 DEF TInv, Calling, CallState
  <2>2. AtVerify(p, c)
    BY <1>7, <2>1 DEF Crawl
  <2>3. AtVerify(p, c)'
    BY <1>4, <2>2, VerifyStays
  <2> QED
    BY <1>1, <1>7, <2>1, <2>3 DEF Crawl
<1>8. CASE call.pc = "detect"
  <2>1. PICK p \in Pid : p = call.previous
    BY <1>8 DEF TInv, Calling, CallState
  <2>2. AtDetect(p)
    BY <1>8, <2>1 DEF Crawl
  <2>3. AtDetect(p)'
    BY <1>2, <1>4, <2>2, CountsStays, StrangerStays DEF AtDetect
  <2> QED
    BY <1>1, <1>8, <2>1, <2>3 DEF Crawl
<1>9. CASE call.pc = "handle"
  <2>1. PICK p \in Pid : p = call.found
    BY <1>9 DEF TInv, Calling, CallState
  <2>2. p # 1 => ~Counts(p)
    BY <1>9, <2>1 DEF Crawl
  <2>3. p # 1 => ~Counts(p)'
    BY <1>2, <1>4, <2>2, CountsStays
  <2> QED
    BY <1>1, <1>9, <2>1, <2>3 DEF Crawl
<1> QED
  BY <1>3, <1>5, <1>6, <1>7, <1>8, <1>9

-----------------------------------------------------------------------------
(* A step of the search leaves the processes and the history as they are.  *)
LEMMA SearchUnchanged ==
    ASSUME TInv, History, UNCHANGED <<proc, init>>, Searching, Searching'
    PROVE  past' = past
<1>1. call.pc # "idle" /\ call'.pc # "idle"
  BY DEF Searching
<1>2. past'.inits = past.inits
  BY <1>1 DEF History, TInv, Recorded
<1>3. past'.tree = past.tree
  <2>1. Tree' <=> Tree
    BY DEF Tree, In
  <2>2. past'.tree = (past.tree /\ Tree')
    BY DEF History
  <2>3. past.tree \in BOOLEAN /\ (past.tree => Tree)
    BY DEF TInv, Recorded
  <2>4. past'.tree \in BOOLEAN
    BY DEF History
  <2>5. past'.tree <=> past.tree
    BY <2>1, <2>2, <2>3, Zenon
  <2> QED
    BY <2>3, <2>4, <2>5
<1>4. past'.given = past.given
  <2>1. Unused' = Unused
    BY DEF Unused, Alive
  <2>2. ASSUME NEW p \in Pid
        PROVE  past'.given[p] = past.given[p]
    BY <2>1 DEF History, TInv, Recorded
  <2>3. past'.given \in [Pid -> Nat] /\ past.given \in [Pid -> Nat]
    BY DEF History, TInv, Recorded
  <2> QED
    BY <2>2, <2>3
<1> QED
  BY <1>2, <1>3, <1>4 DEF History, TInv, Recorded

(* The types through the steps of the call that leave the processes alone. *)
LEMMA SearchStep ==
    ASSUME TInv, Lookup \/ Run \/ Search \/ CheckHandle
    PROVE  UNCHANGED <<proc, init>> /\ Calling'
<1>1. UNCHANGED <<proc, init>>
  BY Zenon DEF Lookup, Run, Search, ListFront, IsVirtualHost, CrawlStart, GetParentPid,
         GetNamespaceId, VerifyParent, Detect, GetHandle, CheckHandle
<1>2. Calling /\ Processes
  BY DEF TInv
<1>3. 0 \notin Pid /\ 1 \in Pid
  BY VirtualHostAssumption
<1>4. ASSUME NEW pc \in {"front", "end"}, NEW op \in {"lookup", "run"},
             NEW h \in Pid \cup {0}, h # 0 => proc[h].ns = "root",
             NEW r \in {"none", "INTERNAL", "UNAVAILABLE", "INVALID_ARGUMENT"},
             call' = [NoCall EXCEPT !.pc = pc, !.op = op, !.helper = h, !.result = r]
      PROVE  Calling'
  <2>1. call' = [pc |-> pc, op |-> op, helper |-> h, current |-> 0, previous |-> 0,
                 tries |-> 0, found |-> 0, handle |-> 0, cookie |-> FALSE, command |-> 0,
                 result |-> r]
    BY <1>4, Zenon DEF NoCall
  <2>2. call' \in CallState
    BY <2>1 DEF CallState
  <2>3. call'.pc = pc /\ call'.found = 0 /\ call'.helper = h
    BY <2>1
  <2> QED
    BY <1>1, <1>4, <2>2, <2>3 DEF Calling
<1>5. ASSUME NEW r \in {"INTERNAL", "UNAVAILABLE", "INVALID_ARGUMENT"}, call' = Fail(r)
      PROVE  Calling'
  <2>1. call.op \in {"lookup", "run"} /\ call.helper \in Pid \cup {0}
    BY <1>2 DEF Calling, CallState
  <2>2. call.helper # 0 => proc[call.helper].ns = "root"
    BY <1>2 DEF Calling
  <2>3. call' = [NoCall EXCEPT !.pc = "end", !.op = call.op, !.helper = call.helper, !.result = r]
    BY <1>5 DEF Fail
  <2> QED
    BY <1>4, <2>1, <2>2, <2>3, Zenon
<1>6. ASSUME call.pc \in {"parent", "verify", "detect"}, call' = Retry
      PROVE  Calling'
  <2>1. CASE call' = Fail("UNAVAILABLE")
    BY <1>5, <2>1
  <2>2. CASE call' = [call EXCEPT !.pc = "list", !.tries = @ + 1, !.current = 0, !.previous = 0]
    <3>1. call \in CallState
      BY <1>2 DEF Calling
    <3>a. call.tries + 1 \in Int
      BY <3>1 DEF CallState
    <3>b. call' = [[[[call EXCEPT !.pc = "list"] EXCEPT !.tries = call.tries + 1]
                     EXCEPT !.current = 0] EXCEPT !.previous = 0]
      BY <2>2, <3>1 DEF CallState
    <3>2. call' \in CallState
      BY <3>1, <3>a, <3>b, Zenon DEF CallState
    <3>3. call'.pc = "list" /\ call'.found = call.found /\ call'.helper = call.helper
      BY <2>2, <3>1 DEF CallState
    <3> QED
      BY <1>1, <1>2, <1>6, <3>2, <3>3 DEF Calling
  <2> QED
    BY <1>6, <2>1, <2>2 DEF Retry
<1>7. ASSUME call' = UseRoot
      PROVE  Calling'
  BY <1>1, <1>2, <1>3, <1>7, ZenonT(60) DEF UseRoot, Calling, CallState
<1>8. CASE Lookup \/ Run
  <2>1. PICK op \in {"lookup", "run"} : call' = [NoCall EXCEPT !.pc = "front", !.op = op]
    BY <1>8 DEF Lookup, Run
  <2>2. call' = [pc |-> "front", op |-> op, helper |-> 0, current |-> 0, previous |-> 0,
                 tries |-> 0, found |-> 0, handle |-> 0, cookie |-> FALSE, command |-> 0,
                 result |-> "none"]
    BY <2>1, Zenon DEF NoCall
  <2>3. call' \in CallState
    BY <2>2 DEF CallState
  <2>4. call'.pc = "front" /\ call'.found = 0 /\ call'.helper = 0
    BY <2>2
  <2> QED
    BY <1>1, <2>3, <2>4 DEF Calling
<1>10. CASE ListFront
  <2>1. ASSUME NEW p \in Pid, call.pc = "front", call' = [call EXCEPT !.pc = "isvh", !.current = p]
        PROVE  Calling'
    BY <1>1, <1>2, <1>3, <2>1, Zenon DEF Calling, CallState
  <2> QED
    BY <1>7, <1>10, <2>1, Zenon DEF ListFront, GetProcesses, In
<1>11. CASE IsVirtualHost
  <2>1. CASE call' = [Goto("list") EXCEPT !.current = 0]
    BY <1>1, <1>2, <1>11, <2>1, Zenon DEF IsVirtualHost, Goto, Calling, CallState
  <2> QED
    BY <1>5, <1>7, <1>11, <2>1 DEF IsVirtualHost
<1>12. CASE CrawlStart
  <2>1. ASSUME NEW p \in Pid, call.pc = "list", call' = [call EXCEPT !.pc = "parent", !.current = p]
        PROVE  Calling'
    BY <1>1, <1>2, <1>3, <2>1, Zenon DEF Calling, CallState
  <2> QED
    BY <1>5, <1>12, <2>1, Zenon DEF CrawlStart, GetProcesses, In
<1>13. CASE GetParentPid
  <2>1. call.pc = "parent" /\ call.current \in Pid
    BY <1>2, <1>13 DEF GetParentPid, Calling, CallState
  <2>2. CASE ~Alive(call.current)
    BY <1>6, <1>13, <2>1, <2>2 DEF GetParentPid
  <2>3. CASE Alive(call.current)
    <3>1. PICK q \in Pid : q = proc[call.current].ppid
      BY <1>2, <2>1, <2>3 DEF Processes
    <3>2. call' = [call EXCEPT !.pc = "namespace", !.previous = call.current, !.current = q]
      BY <1>13, <2>3, <3>1 DEF GetParentPid
    <3> QED
      BY <1>1, <1>2, <1>3, <2>1, <3>2, Zenon DEF Calling, CallState
  <2> QED
    BY <2>2, <2>3
<1>14. CASE GetNamespaceId
  <2>1. CASE call' = Goto("verify") \/ call' = Goto("parent")
    BY <1>1, <1>2, <1>14, <2>1 DEF GetNamespaceId, Goto, Calling, CallState
  <2> QED
    BY <1>5, <1>14, <2>1 DEF GetNamespaceId
<1>15. CASE VerifyParent
  <2>1. CASE call' = Goto("detect")
    BY <1>1, <1>2, <1>15, <2>1 DEF VerifyParent, Goto, Calling, CallState
  <2> QED
    BY <1>6, <1>15, <2>1 DEF VerifyParent
<1>16. CASE Detect
  <2>1. CASE call' = [call EXCEPT !.pc = "handle", !.found = call.previous,
                                  !.current = 0, !.previous = 0, !.tries = 0]
    <3>1. call \in CallState /\ call.pc = "detect" /\ call.previous # 0
      BY <1>2, <1>16 DEF Calling, Detect
    <3> DEFINE found == [[call EXCEPT !.pc = "handle"] EXCEPT !.found = call.previous]
    <3>a. call' = [[[found EXCEPT !.current = 0] EXCEPT !.previous = 0] EXCEPT !.tries = 0]
      BY <2>1, <3>1 DEF CallState
    <3>b. found \in CallState
      BY <3>1, Zenon DEF CallState
    <3> HIDE DEF found
    <3> DEFINE done == [[found EXCEPT !.current = 0] EXCEPT !.previous = 0]
    <3>c. done \in CallState
      BY <3>b, Zenon DEF CallState
    <3>d. call' = [done EXCEPT !.tries = 0]
      BY <3>a
    <3> HIDE DEF done
    <3>2. call' \in CallState
      BY <3>c, <3>d DEF CallState
    <3>3. /\ call'.pc = "handle" /\ call'.found = call.previous
          /\ call'.helper = call.helper
      BY <2>1, <3>1 DEF CallState
    <3> QED
      BY <1>1, <1>2, <3>1, <3>2, <3>3 DEF Calling
  <2> QED
    BY <1>6, <1>16, <2>1 DEF Detect
<1>17. CASE GetHandle
  <2>1. CASE call' = [call EXCEPT !.handle = call.found, !.cookie = TRUE, !.found = 0,
                                  !.pc = IF call.op = "run" THEN "start" ELSE "end",
                                  !.result = IF call.op = "run" THEN "none" ELSE "OK"]
    BY <1>1, <1>2, <1>17, <2>1, ZenonT(60) DEF GetHandle, Calling, CallState
  <2> QED
    BY <1>5, <1>17, <2>1 DEF GetHandle
<1>18. CASE CheckHandle
  <2>1. CASE call' = Goto("attach")
    BY <1>1, <1>2, <1>18, <2>1 DEF CheckHandle, Goto, Calling, CallState
  <2> QED
    BY <1>5, <1>18, <2>1 DEF CheckHandle
<1> QED
  BY <1>1, <1>8, <1>10, <1>11, <1>12, <1>13, <1>14, <1>15, <1>16, <1>17, <1>18,
     SMTT(60) DEF Search

(* The steps of Run that start and end processes.                          *)
LEMMA JoinStep ==
    ASSUME TInv, Return \/ \E q \in Pid : StartNscon(q) \/ Attach(q)
    PROVE  Processes' /\ Calling' /\ ~Searching'
<1>1. Calling /\ Processes /\ 0 \notin Pid /\ 1 \in Pid
  BY VirtualHostAssumption DEF TInv
<1>2. call \in CallState /\ (call.helper # 0 => call.helper \in Pid)
  BY <1>1 DEF Calling, CallState
<1>3. ASSUME call' = Fail("INTERNAL"), UNCHANGED <<proc, init>>
      PROVE  Processes' /\ Calling' /\ ~Searching'
  <2>1. call' = [pc |-> "end", op |-> call.op, helper |-> call.helper, current |-> 0,
                 previous |-> 0, tries |-> 0, found |-> 0, handle |-> 0, cookie |-> FALSE,
                 command |-> 0, result |-> "INTERNAL"]
    BY <1>3, Zenon DEF Fail, NoCall
  <2>2. call' \in CallState
    BY <1>2, <2>1 DEF CallState
  <2>3. call'.pc = "end" /\ call'.found = 0 /\ call'.helper = call.helper
    BY <2>1
  <2>4. Processes'
    BY <1>1, <1>3 DEF Processes, Vh, Alive
  <2> QED
    BY <1>1, <1>3, <2>2, <2>3, <2>4 DEF Calling, Searching
<1>4. ASSUME NEW q \in Pid, StartNscon(q)
      PROVE  Processes' /\ Calling' /\ ~Searching'
  <2>1. CASE call' = Fail("INTERNAL") /\ UNCHANGED proc
    BY <1>3, <1>4, <2>1 DEF StartNscon
  <2>2. CASE /\ Start(q, Process("root", 1, "self"))
             /\ call' = [Goto("nscon") EXCEPT !.helper = q]
    <3>1. Processes'
      BY <1>1, <1>4, <2>2, StartStep DEF StartNscon
    <3>2. proc'[q].ns = "root"
      BY <1>1, <2>2 DEF Start, Process, Processes
    <3>3. /\ call' \in CallState /\ call'.pc = "nscon" /\ call'.found = call.found
          /\ call'.helper = q /\ call'.handle = call.handle
      BY <1>2, <2>2, ZenonT(60) DEF Goto, CallState
    <3>4. call.pc = "start"
      BY <1>4 DEF StartNscon
    <3> QED
      BY <1>1, <3>1, <3>2, <3>3, <3>4 DEF Calling, Searching
  <2> QED
    BY <1>4, <2>1, <2>2 DEF StartNscon
<1>5. ASSUME NEW q \in Pid, Attach(q)
      PROVE  Processes' /\ Calling' /\ ~Searching'
  <2>1. CASE call' = Fail("INTERNAL") /\ UNCHANGED proc
    BY <1>3, <1>5, <2>1, Zenon DEF Attach
  <2>2. CASE /\ Alive(call.handle)
             /\ Start(q, Process(proc[call.handle].ns, call.helper, "self"))
             /\ call' = [Goto("end") EXCEPT !.command = q, !.result = "OK"]
    <3>1. call.pc = "attach" /\ call.handle \in Pid /\ init' = init
      BY <1>1, <1>2, <1>5, Zenon DEF Attach, Calling, CallState
    <3>2. PICK n \in {"root", "vh"} : n = proc[call.handle].ns
      BY <1>1, <2>2, <3>1 DEF Alive, Processes
    <3>3. n = "vh" => Vh(init) /\ init \in Pid
      BY <1>1, <3>1, <3>2, Zenon DEF Processes, Vh
    <3>4. call.helper \in Pid /\ proc[call.helper].ns = "root"
      BY <1>1, <1>2, <3>1 DEF Calling
    <3>5. Processes'
      BY <1>1, <2>2, <3>1, <3>2, <3>3, <3>4, StartStep
    <3>6. proc'[call.helper] = proc[call.helper]
      BY <1>1, <2>2, <3>4 DEF Start, Unused, Alive, Processes
    <3>7. /\ call' \in CallState /\ call'.pc = "end" /\ call'.found = call.found
          /\ call'.helper = call.helper
      BY <1>2, <2>2, Zenon DEF Goto, CallState
    <3> QED
      BY <1>1, <3>1, <3>4, <3>5, <3>6, <3>7, SMTT(60) DEF Calling, Searching
  <2> QED
    BY <1>5, <2>1, <2>2, Zenon DEF Attach
<1>6. CASE Return
  <2>1. call' = NoCall /\ init' = init /\ call.pc = "end"
    BY <1>6 DEF Return
  <2>2. call' \in CallState /\ call'.pc = "idle" /\ call'.found = 0 /\ call'.helper = 0
    BY <2>1 DEF NoCall, CallState
  <2>3. init # 0 => call.helper # init
    BY <1>1 DEF Calling, Processes, Vh
  <2>4. ASSUME NEW x \in Pid
        PROVE  IF x = call.helper THEN proc'[x] = Free
               ELSE /\ proc'[x].ns = proc[x].ns /\ proc'[x].cgroup = proc[x].cgroup
                    /\ proc'[x].ppid \in {proc[x].ppid, IF proc[x].ns = "vh" THEN init ELSE 1}
                    /\ proc'[x] \in [ns     : {"none", "root", "vh"},
                                     ppid   : Pid \cup {0},
                                     cgroup : {"self", "sub", "out"}]
    <3>1. CASE x = call.helper
      BY <1>6, <3>1 DEF Return
    <3>2. CASE x # call.helper /\ proc'[x] = proc[x]
      BY <1>1, <3>2 DEF Processes
    <3>3. CASE x # call.helper /\ proc'[x] = [proc[x] EXCEPT !.ppid = IF proc[x].ns = "vh"
                                                                   THEN init ELSE 1]
      BY <1>1, <3>3 DEF Processes
    <3> QED
      BY <1>6, <3>1, <3>2, <3>3 DEF Return
  <2>6. proc' \in [Pid -> [ns     : {"none", "root", "vh"},
                           ppid   : Pid \cup {0},
                           cgroup : {"self", "sub", "out"}]]
    BY <1>6, <2>4 DEF Return, Free
  <2>8. init # 0 => Vh(init)'
    BY <1>1, <2>1, <2>3, <2>4 DEF Processes, Vh
  <2>9. ASSUME NEW x \in Pid
        PROVE  /\ Vh(x)' => init # 0 /\ proc'[x].cgroup \in {"self", "sub"}
               /\ Alive(x)' => proc'[x].ppid \in Pid
    BY <1>1, <2>4 DEF Processes, Free, Vh, Alive
  <2>10. Processes'
    BY <1>1, <2>1, <2>6, <2>8, <2>9 DEF Processes
  <2> QED
    BY <2>2, <2>10 DEF Calling, Searching
<1> QED
  BY <1>4, <1>5, <1>6

-----------------------------------------------------------------------------
(* The crawl, while the call takes a step of it.                           *)
LEMMA CrawlStep ==
    ASSUME TInv, Crawl, Search, History
    PROVE  Crawl'
<1> SUFFICES ASSUME Searching' PROVE Crawl'
  BY SMTT(60) DEF Crawl, Searching
<1>1. Searching
  BY Zenon DEF Search, ListFront, IsVirtualHost, CrawlStart, GetParentPid,
     GetNamespaceId,
         VerifyParent, Detect, GetHandle, Searching
<1>2. UNCHANGED <<proc, init, past>>
  BY <1>1, SearchStep, SearchUnchanged
<1>3. Calling /\ Processes /\ Recorded /\ call \in CallState
  BY DEF TInv, Calling
<1>4. past.tree => Tree
  BY <1>1, <1>3 DEF Recorded
<1>5. ASSUME NEW p \in Pid, p # init, past.tree, Vh(p)
      PROVE  Vh(proc[p].ppid)
  <2>1. p \in In("self") \cup In("sub")
    BY <1>3, <1>5 DEF Processes, In
  <2> QED
    BY <1>4, <1>5, <2>1 DEF Tree, Vh
<1>6. ASSUME NEW p \in In("self") \cup In("sub"), past.tree
      PROVE  Vh(p)
  BY <1>3, <1>4, <1>6, VirtualHostAssumption DEF Tree, Processes, Vh, In
<1>7. init \in past.inits
  BY <1>1, <1>3 DEF Recorded, Searching
<1>8. CASE call'.pc \in {"front", "isvh", "list"}
  BY <1>8 DEF Crawl
<1>9. ASSUME NEW r, call' = Fail(r)
      PROVE  FALSE
  BY <1>9 DEF Fail, NoCall, Searching
<1>10. ASSUME call' = Retry
       PROVE  call'.pc = "list"
  BY <1>3, <1>9, <1>10 DEF Retry, CallState
<1>11. ASSUME call' = UseRoot
       PROVE  call'.pc = "handle" /\ call'.found = 1
  BY <1>3, <1>11 DEF UseRoot, CallState
<1>12. CASE ListFront \/ IsVirtualHost
  <2>1. call'.pc \in {"isvh", "list"} \/ (call'.pc = "handle" /\ call'.found = 1)
    BY <1>3, <1>9, <1>11, <1>12, ZenonT(60)
       DEF ListFront, IsVirtualHost, Goto, CallState
  <2> QED
    BY <2>1, SMTT(60) DEF Crawl
<1>13. CASE CrawlStart
  <2>1. PICK p \in GetProcesses : call' = [call EXCEPT !.pc = "parent", !.current = p]
    BY <1>9, <1>13, Zenon DEF CrawlStart
  <2>2. call'.pc = "parent" /\ call'.current = p
    BY <1>3, <2>1 DEF CallState
  <2>3. AtParent(p)
    BY <1>6 DEF GetProcesses, AtParent, KnownVh
  <2>4. AtParent(p)'
    BY <1>2, <2>3 DEF AtParent, KnownVh, Vh, Alive
  <2> QED
    BY <2>2, <2>4 DEF Crawl
<1>14. CASE GetParentPid
  <2>1. CASE ~Alive(call.current)
    BY <1>8, <1>10, <1>14, <2>1 DEF GetParentPid
  <2>2. CASE Alive(call.current)
    <3>1. PICK p \in Pid : p = call.current
      BY <1>3, <1>14 DEF GetParentPid, Calling, CallState
    <3>2. PICK c \in Pid : c = proc[p].ppid
      BY <1>3, <2>2, <3>1 DEF Processes
    <3>3. call'.pc = "namespace" /\ call'.previous = p /\ call'.current = c
      BY <1>3, <1>14, <2>2, <3>1, <3>2 DEF GetParentPid, CallState
    <3>4. AtParent(p)
      BY <1>14, <3>1 DEF Crawl, GetParentPid
    <3>5. past.given[p] \in Nat
      BY <1>3 DEF Recorded
    <3>6. AtNamespace(p, c)
      BY <1>5, <1>7, <2>2, <3>1, <3>2, <3>4, <3>5
         DEF AtNamespace, AtParent, KnownVh, Stranger, Counts
    <3>7. AtNamespace(p, c)'
      BY <1>2, <3>6 DEF AtNamespace, Counts, Recycled, Stranger, KnownVh, Vh, Alive
    <3> QED
      BY <3>3, <3>7 DEF Crawl
  <2> QED
    BY <2>1, <2>2
<1>15. CASE GetNamespaceId
  <2>1. PICK p \in Pid, c \in Pid : p = call.previous /\ c = call.current
    BY <1>3, <1>15 DEF GetNamespaceId, Calling, CallState
  <2>2. AtNamespace(p, c)
    BY <1>15, <2>1 DEF Crawl, GetNamespaceId
  <2>3. Alive(c)
    BY <1>9, <1>15, <2>1 DEF GetNamespaceId
  <2>4. CASE proc[c].ns = "root"
    <3>1. call'.pc = "verify" /\ call'.previous = p /\ call'.current = c
      BY <1>3, <1>15, <2>1, <2>3, <2>4 DEF GetNamespaceId, Goto, CallState
    <3>2. c # init /\ ~Vh(c)
      BY <1>3, <2>4, VirtualHostAssumption DEF Processes, Vh
    <3>3. past.given[c] \in Nat
      BY <1>3 DEF Recorded
    <3>4. ASSUME Counts(p), ~Stranger(p)
          PROVE  /\ KnownVh(p) /\ past.given[c] > 0
                 /\ Vh(p) => proc[p].ppid # c
      <4>1. KnownVh(p) /\ KnownVh(c)
        BY <2>2, <3>4 DEF AtNamespace
      <4>2. past.given[c] > 0
        BY <2>3, <3>2, <3>3, <4>1 DEF KnownVh
      <4>3. Vh(p) => proc[p].ppid # c
        BY <1>5, <1>7, <3>2, <3>4 DEF Counts
      <4> QED
        BY <4>1, <4>2, <4>3
    <3>5. AtVerify(p, c)
      BY <3>2, <3>4 DEF AtVerify
    <3>6. AtVerify(p, c)'
      BY <1>2, <3>5 DEF AtVerify, Counts, Recycled, Stranger, KnownVh, Vh, Alive
    <3> QED
      BY <3>1, <3>6 DEF Crawl
  <2>5. CASE proc[c].ns # "root"
    <3>1. call'.pc = "parent" /\ call'.current = c
      BY <1>3, <1>15, <2>1, <2>3, <2>5 DEF GetNamespaceId, Goto, CallState
    <3>2. Vh(c)
      BY <1>3, <2>3, <2>5 DEF Processes, Vh, Alive
    <3>3. AtParent(c)'
      BY <1>2, <3>2 DEF AtParent, KnownVh, Vh
    <3> QED
      BY <3>1, <3>3 DEF Crawl
  <2> QED
    BY <2>4, <2>5
<1>16. CASE VerifyParent
  <2>1. PICK p \in Pid, c \in Pid : p = call.previous /\ c = call.current
    BY <1>3, <1>16 DEF VerifyParent, Calling, CallState
  <2>2. AtVerify(p, c)
    BY <1>16, <2>1 DEF Crawl, VerifyParent
  <2>3. CASE ~Alive(p) \/ proc[p].ppid # c
    BY <1>8, <1>10, <1>16, <2>1, <2>3 DEF VerifyParent
  <2>4. CASE Alive(p) /\ proc[p].ppid = c
    <3>1. call'.pc = "detect" /\ call'.previous = p
      BY <1>3, <1>16, <2>1, <2>4 DEF VerifyParent, Goto, CallState
    <3>2. past.given[p] \in Nat
      BY <1>3 DEF Recorded
    <3>3. AtDetect(p)
      BY <2>2, <2>4, <3>2 DEF AtVerify, AtDetect, KnownVh, Stranger
    <3>4. AtDetect(p)'
      BY <1>2, <3>3 DEF AtDetect, Counts, Recycled, Stranger, Vh
    <3> QED
      BY <3>1, <3>4 DEF Crawl
  <2> QED
    BY <2>3, <2>4
<1>17. CASE Detect
  <2>1. PICK p \in Pid : p = call.previous
    BY <1>3, <1>17 DEF Detect, Calling, CallState
  <2>2. AtDetect(p)
    BY <1>17, <2>1 DEF Crawl, Detect
  <2>3. CASE proc[p].cgroup # "self"
    BY <1>8, <1>10, <1>17, <2>1, <2>3 DEF Detect
  <2>4. CASE proc[p].cgroup = "self"
    <3>1. call'.pc = "handle" /\ call'.found = p
      BY <1>3, <1>17, <2>1, <2>4 DEF Detect, CallState
    <3>2. past.tree => Vh(p)
      BY <1>6, <2>4 DEF In
    <3>3. ~Counts(p)
      BY <2>2, <3>2 DEF AtDetect, Counts, Stranger
    <3>4. ~Counts(p)'
      BY <1>2, <3>3 DEF Counts, Recycled
    <3> QED
      BY <3>1, <3>4 DEF Crawl
  <2> QED
    BY <2>3, <2>4
<1>18. CASE GetHandle
  <2>1. call'.pc \in {"start", "end"}
    BY <1>3, <1>9, <1>18 DEF GetHandle, CallState
  <2> QED
    BY <2>1 DEF Searching
<1> QED
  BY <1>12, <1>13, <1>14, <1>15, <1>16, <1>17, <1>18 DEF Search

-----------------------------------------------------------------------------
(* Every step keeps the invariant.                                         *)
LEMMA Inductive == TInv /\ Crawl /\ [Next]_vars => TInv' /\ Crawl'
<1> SUFFICES ASSUME TInv, Crawl, [Next]_vars PROVE TInv' /\ Crawl'
  OBVIOUS
<1>1. CASE UNCHANGED vars
  <2>1. TInv'
    BY <1>1, SMTT(30) DEF vars, TInv, Processes, Calling, Recorded, Searching, Tree,
       In, Vh, Alive
  <2>2. Crawl'
    BY <1>1 DEF vars, Crawl, AtParent, AtNamespace, AtVerify, AtDetect, Counts,
       Recycled,
                KnownVh, Stranger, Vh, Alive
  <2> QED
    BY <2>1, <2>2
<1>2. CASE Next
  <2>1. History /\ Step /\ Recorded
    BY <1>2 DEF Next, TInv
  <2>2. CASE Environment
    BY <2>1, <2>2, EnvironmentStep, CrawlStays, RecordedStep DEF TInv
  <2>3. CASE Lookup \/ Run \/ Search \/ CheckHandle
    <3>1. UNCHANGED <<proc, init>> /\ Calling'
      BY <2>3, SearchStep
    <3>2. Processes'
      BY <3>1 DEF TInv, Processes, Vh, Alive
    <3>3. TInv'
      BY <2>1, <3>1, <3>2, RecordedStep DEF TInv
    <3>4. CASE Search
      BY <2>1, <3>3, <3>4, CrawlStep
    <3>5. CASE Lookup \/ Run \/ CheckHandle
      <4>1. call'.pc \in {"front", "attach", "end"}
        BY <3>5, Zenon DEF Lookup, Run, CheckHandle, NoCall, Goto, Fail, TInv,
           Calling, CallState
      <4> QED
        BY <3>3, <4>1 DEF Crawl
    <3> QED
      BY <2>3, <3>4, <3>5
  <2>4. CASE Return \/ \E q \in Pid : StartNscon(q) \/ Attach(q)
    <3>1. Processes' /\ Calling' /\ ~Searching'
      BY <2>4, JoinStep
    <3>2. Crawl'
      BY <3>1 DEF Crawl, Searching
    <3> QED
      BY <2>1, <3>1, <3>2, RecordedStep DEF TInv
  <2> QED
    BY <2>1, <2>2, <2>3, <2>4 DEF Step, Join
<1> QED
  BY <1>1, <1>2

(* DetectsInit (VirtualHost; NsconNamespaceHandlerFactory::DetectInit):    *)
(* however many processes there are, however often the crawl is repeated   *)
(* and whichever processes exit, fork or take up PIDs between two readings *)
(* of /proc, what is found is an init of the virtual host, unless PIDs     *)
(* were given out again as Recycled says.                                  *)
THEOREM FindsTheInit == Spec => []DetectsInit
<1>1. TInv /\ Crawl => DetectsInit
  <2> SUFFICES ASSUME TInv, Crawl, call.found \notin {0, 1}, past.tree,
                      ~Recycled(call.found)
               PROVE  call.found \in past.inits
    BY DEF DetectsInit
  <2>1. call.pc = "handle"
    BY DEF TInv, Calling
  <2> QED
    BY <2>1 DEF Crawl, Counts
<1> QED
  BY <1>1, InitInv, Inductive, PTL DEF Spec
=============================================================================
