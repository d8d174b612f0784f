---------------------------- MODULE UpdateProofs ----------------------------
(***************************************************************************)
(* Proofs about the calls of ResourceUpdate, for all specifications and    *)
(* kernels.                                                                *)
(***************************************************************************)
EXTENDS WriteProofs

-----------------------------------------------------------------------------
(* The inductive invariant.  A call works through its resources one after  *)
(* the other: those it has still to do, and those it was not asked for,    *)
(* are as it found them; while it succeeds the others are as asked; once   *)
(* it fails it does no more, and only the resource it failed in is in      *)
(* between.                                                                *)
Asked(r)     == Writes(call.before, r, call)
Untouched(r) == Same(files.self, call.before, r)
Complete(r)  == Same(files.self, AfterAll(call.before, Asked(r)), r)

Shape ==
    /\ kernel \in Kernels
    /\ DOMAIN files = {"self", "parent"}
    /\ DOMAIN files.self = Supported(kernel)
    /\ DOMAIN call = {"op", "policy", "spec", "todo", "result", "before"}
    /\ call.op \in {"none", "create", "update"}
    /\ call.todo \subseteq isolated \cap DOMAIN call.spec
    /\ IF Idle THEN call.todo = {}
       ELSE call.spec \in Specs /\ DOMAIN call.before = Supported(kernel)

Progress ==
    /\ \A r \in Resource : r \in call.todo \/ r \notin DOMAIN call.spec => Untouched(r)
    /\ IF call.result = "OK"
       THEN \A r \in DOMAIN call.spec \ call.todo :
               Complete(r) /\ Accepted(call.before, Asked(r))
       ELSE /\ call.todo = {}
            /\ \E p \in Resource :
                  \A r \in DOMAIN call.spec \ {p} : Untouched(r) \/ Complete(r)

UInv ==
    /\ Shape
    /\ ~Idle => Progress
    /\ ParentUntouched
    /\ DiffTouchesOnlySpecified

(* Before the first call the container and its parent are as created.      *)
LEMMA InitUInv == Init => UInv
<1> SUFFICES ASSUME Init PROVE UInv
  OBVIOUS
<1>1. call.op = "none" /\ call.todo = {}
  BY DEF Init, NoCall
<1>2. Shape
  BY <1>1 DEF Init, NoCall, Shape, NewCgroup, Idle
<1>3. ParentUntouched
  BY DEF Init, ParentUntouched
<1> QED
  BY <1>1, <1>2, <1>3 DEF UInv, Idle, DiffTouchesOnlySpecified

(* Create and Update begin with everything to do, or fail with nothing     *)
(* done.                                                                   *)
LEMMA CreateStep ==
    ASSUME UInv, NEW s \in Specs, Create(s)
    PROVE  UInv'
<1> USE DEF UInv
<1>1. /\ call' = [op |-> "create", policy |-> "REPLACE", spec |-> s, todo |-> DOMAIN s,
                  result |-> "OK", before |-> NewCgroup(kernel)]
      /\ isolated' = DOMAIN s /\ kernel' = kernel
      /\ files' = [files EXCEPT !.self = NewCgroup(kernel)]
  BY DEF Create
<1>2. files'.self = NewCgroup(kernel) /\ files'.parent = files.parent
  BY <1>1 DEF Shape
<1>3. Shape'
  BY <1>1, <1>2 DEF Shape, NewCgroup, Idle
<1>4. Progress'
  BY <1>1, <1>2 DEF Progress, Untouched, Same
<1>5. ParentUntouched'
  BY <1>1, <1>2 DEF ParentUntouched
<1>6. DiffTouchesOnlySpecified'
  BY <1>1 DEF DiffTouchesOnlySpecified
<1> QED
  BY <1>3, <1>4, <1>5, <1>6

(* Update remembers the files it found and begins with every resource of   *)
(* the spec to do, or fails with nothing done.                             *)
LEMMA UpdateStep ==
    ASSUME UInv, NEW s \in Specs, NEW policy \in {"DIFF", "REPLACE"}, Update(s, policy)
    PROVE  UInv'
<1> USE DEF UInv
<1> DEFINE checked == Isolation(s, policy)
<1>1. /\ call' = [op |-> "update", policy |-> policy, spec |-> s, result |-> checked,
                  todo |-> IF checked = "OK" THEN DOMAIN s ELSE {},
                  before |-> files.self]
      /\ isolated' = isolated /\ kernel' = kernel /\ files' = files
  BY DEF Update
<1>2. checked = "OK" => DOMAIN s \subseteq isolated
  BY DEF Isolation
<1> HIDE DEF checked
<1>3. /\ call'.op = "update" /\ call'.spec = s /\ call'.before = files.self
      /\ call'.result = checked
      /\ call'.todo = IF checked = "OK" THEN DOMAIN s ELSE {}
  BY <1>1
<1>4. Shape'
  BY <1>1, <1>2, <1>3 DEF Shape, Idle
<1>5. \A r : Untouched(r)'
  BY <1>1, <1>3 DEF Untouched, Same
<1>6. Progress'
  <2>1. "cpu" \in Resource
    BY DEF Resource, Resources
  <2> QED
    BY <1>3, <1>5, <2>1 DEF Progress
<1>7. ParentUntouched'
  BY <1>1 DEF ParentUntouched
<1>8. DiffTouchesOnlySpecified'
  BY <1>1, <1>3 DEF DiffTouchesOnlySpecified
<1> QED
  BY <1>4, <1>6, <1>7, <1>8

(* Return ends the call and Destroy the container; neither touches the     *)
(* parent.                                                                 *)
LEMMA EndStep ==
    ASSUME UInv, Return \/ Destroy
    PROVE  UInv'
<1> USE DEF UInv
<1>1. CASE Return
  <2>1. call'.op = "none" /\ call'.todo = {}
    BY <1>1 DEF Return, NoCall
  <2>2. kernel' = kernel /\ files' = files
    BY <1>1 DEF Return
  <2>3. Shape'
    BY <1>1, <2>1, <2>2 DEF Return, Shape, Idle, NoCall
  <2>4. ParentUntouched'
    BY <2>2 DEF ParentUntouched
  <2> QED
    BY <2>1, <2>3, <2>4 DEF Idle, DiffTouchesOnlySpecified
<1>2. CASE Destroy
  <2>1. call' = call /\ kernel' = kernel /\ call.op = "none"
    BY <1>2 DEF Destroy, Idle
  <2>2. files'.self = NewCgroup(kernel) /\ files'.parent = files.parent
        /\ DOMAIN files' = DOMAIN files
    BY <1>2 DEF Destroy, Shape
  <2>3. call.todo = {}
    BY <2>1 DEF Shape, Idle
  <2>4. Shape'
    BY <2>1, <2>2, <2>3 DEF Shape, Idle, NewCgroup
  <2>5. ParentUntouched'
    BY <2>1, <2>2 DEF ParentUntouched
  <2> QED
    BY <2>1, <2>4, <2>5 DEF Idle, DiffTouchesOnlySpecified
<1> QED
  BY <1>1, <1>2

(* What Handle does, in terms of the writes of one handler: the kernel     *)
(* takes the first k of them, and the call goes on if and only if that is  *)
(* all.                                                                    *)
LEMMA HandlerRuns ==
    ASSUME UInv, NEW r \in Resource, Handle(r)
    PROVE  LET self == files.self
               ws   == Writes(self, r, call)
           IN  \E k \in 0..Len(ws),
                  result \in {"OK", "INVALID_ARGUMENT", "NOT_FOUND", "UNAVAILABLE"} :
                  /\ Passes(self, ws, k)
                  /\ IF k = Len(ws) THEN result = "OK" ELSE result # "OK"
                  /\ files' = [files EXCEPT !.self = AfterWrites(self, ws, k)]
                  /\ call' = Ended(r, result)
                  /\ isolated' = IF call.op = "create" /\ result # "OK" THEN {} ELSE isolated
<1> DEFINE self == files.self
           ws   == Writes(self, r, call)
           Result == {"OK", "INVALID_ARGUMENT", "NOT_FOUND", "UNAVAILABLE"}
           Does(c, v, k, result) ==
             /\ Passes(c, v, k)
             /\ IF k = Len(v) THEN result = "OK"
                ELSE \/ /\ result = Outcome(AfterWrites(c, v, k), v[k + 1])
                        /\ result # "OK"
                     \/ MayFail /\ v[k + 1].file \in DOMAIN c /\ result = "UNAVAILABLE"
             /\ files' = [files EXCEPT ![Owner(r)] = AfterWrites(c, v, k)]
             /\ call' = Ended(r, result)
             /\ isolated' = IF call.op = "create" /\ result # "OK" THEN {} ELSE isolated
<1>1. Owner(r) = "self"
  BY DEF UInv, Handle, Turn, Shape, Owner
<1>2. \E c \in {files[Owner(r)]} : \E v \in {Writes(c, r, call)} :
         \E k \in 0..Len(v), result \in Result : Does(c, v, k, result)
  BY Zenon DEF Handle
<1> HIDE DEF Does, Result
<1>3. PICK k \in 0..Len(ws), result \in Result : Does(self, ws, k, result)
  BY <1>1, <1>2
<1>4. k = Len(ws) \/ result # "OK"
  BY <1>3 DEF Does
<1> HIDE DEF ws, self
<1> QED
  BY <1>1, <1>3, <1>4, Zenon DEF Does, Result, self, ws

(* One handler works on the container's own cgroup, which is as the call   *)
(* found it, and so does what was asked or fails on the way.               *)
LEMMA HandleStep ==
    ASSUME UInv, NEW r \in Resource, Handle(r)
    PROVE  UInv'
<1> USE DEF UInv
<1> DEFINE self == files.self
           ws   == Writes(self, r, call)
<1>1. r \in call.todo /\ r \in isolated /\ r \in DOMAIN call.spec
  BY DEF Handle, Turn, Shape
<1>2. ~Idle /\ call.spec \in Specs /\ DOMAIN call.before = Supported(kernel)
  BY <1>1 DEF Shape
<1>3. DOMAIN self = Supported(kernel) /\ "devices" \in DOMAIN self
  BY DEF Shape, Supported
<1>4. Untouched(r) /\ call.result = "OK"
  BY <1>1, <1>2 DEF Progress
<1>5. ws = Asked(r)
  BY <1>2, <1>3, <1>4, WritesAgree DEF Asked, Untouched
<1>6. /\ IsWrites(ws, FileOf[r] \cup {"refused"})
      /\ call.op = "update" /\ call.policy = "DIFF"
            => IsWrites(ws, Given(r, call.spec[r]) \cup {"refused"})
  BY <1>1, <1>2, HandlerWrites
<1>7. PICK k \in 0..Len(ws), result \in {"OK", "INVALID_ARGUMENT", "NOT_FOUND", "UNAVAILABLE"} :
         /\ Passes(self, ws, k)
         /\ IF k = Len(ws) THEN result = "OK" ELSE result # "OK"
         /\ files' = [files EXCEPT !.self = AfterWrites(self, ws, k)]
         /\ call' = Ended(r, result)
         /\ isolated' = IF call.op = "create" /\ result # "OK" THEN {} ELSE isolated
  BY HandlerRuns
<1> HIDE DEF ws
<1> DEFINE new == AfterWrites(self, ws, k)
<1>8. files'.self = new /\ files'.parent = files.parent /\ DOMAIN files' = DOMAIN files
  BY <1>7 DEF Shape
<1>9. kernel' = kernel
  BY DEF Handle
<1>10. /\ call'.op = call.op /\ call'.policy = call.policy /\ call'.spec = call.spec
       /\ call'.before = call.before /\ call'.result = result
       /\ call'.todo = IF result = "OK" THEN call.todo \ {r} ELSE {}
       /\ DOMAIN call' = DOMAIN call
  BY <1>7 DEF Ended, Shape
<1>11. DOMAIN new = DOMAIN self
  BY <1>6, <1>7, AfterKeeps
<1> HIDE DEF new
<1>12. \A q \in Resource \ {r} : Same(new, self, q)
  BY <1>6, <1>7, OthersKeep DEF new
<1>13. \A q \in Resource : Asked(q)' = Asked(q)
  BY <1>2, <1>3, <1>10, WritesAgree DEF Asked, Same
<1>14. ASSUME NEW q \in Resource, q # r
       PROVE  /\ Untouched(q) => Untouched(q)'
              /\ Complete(q) => Complete(q)'
  BY <1>8, <1>10, <1>11, <1>12, <1>13, <1>14 DEF Untouched, Complete, Same
<1>15. result = "OK" => Complete(r)' /\ Accepted(call.before, Asked(r))'
  <2> SUFFICES ASSUME result = "OK"
               PROVE  Complete(r)' /\ Accepted(call.before, Asked(r))'
    OBVIOUS
  <2>1. k = Len(ws) /\ k \in Nat
    BY <1>6, <1>7, WritesAt
  <2>2. Same(new, AfterAll(call.before, ws), r)
    BY <1>2, <1>3, <1>4, <2>1, AfterAgrees DEF Untouched, AfterAll, new
  <2>3. Accepted(self, ws)
    BY <1>6, <1>7, <2>1, PassedIsAccepted
  <2> QED
    BY <1>2, <1>3, <1>5, <1>8, <1>10, <1>13, <2>2, <2>3 DEF Complete, Accepted
<1>16. DOMAIN call.spec \subseteq Resource
  BY <1>2, UpdateAssumption
<1>17. Shape'
  BY <1>2, <1>7, <1>8, <1>9, <1>10, <1>11, SMTT(30) DEF Shape, Idle
<1>18. Progress'
  <2>1. ASSUME NEW q \in Resource, q \in call'.todo \/ q \notin DOMAIN call'.spec
        PROVE  Untouched(q)'
    <3>1. q # r /\ Untouched(q)
      BY <1>1, <1>2, <1>10, <2>1 DEF Progress
    <3> QED
      BY <1>14, <3>1
  <2>2. ASSUME result = "OK", NEW q \in DOMAIN call'.spec \ call'.todo
        PROVE  Complete(q)' /\ Accepted(call.before, Asked(q))'
    <3>1. CASE q = r
      BY <1>15, <2>2, <3>1
    <3>2. CASE q # r
      <4>1. q \in Resource /\ Complete(q) /\ Accepted(call.before, Asked(q))
        BY <1>2, <1>4, <1>10, <1>16, <2>2, <3>2 DEF Progress
      <4> QED
        BY <1>10, <1>13, <1>14, <3>2, <4>1
    <3> QED
      BY <3>1, <3>2
  <2>3. ASSUME result # "OK", NEW q \in DOMAIN call'.spec \ {r}
        PROVE  Untouched(q)' \/ Complete(q)'
    <3>1. q \in Resource /\ (Untouched(q) \/ Complete(q))
      BY <1>2, <1>4, <1>10, <1>16 DEF Progress
    <3> QED
      BY <1>14, <3>1
  <2> QED
    BY <1>10, <2>1, <2>2, <2>3 DEF Progress
<1>19. ParentUntouched'
  BY <1>8, <1>9 DEF ParentUntouched
<1>20. DiffTouchesOnlySpecified'
  <2> SUFFICES ASSUME call.op = "update", call.policy = "DIFF",
                      NEW q \in Resource, NEW f \in FileOf[q], f \in DOMAIN self,
                      new[f] # call.before[f]
               PROVE  q \in DOMAIN call.spec /\ Belongs(f, call.spec[q])
    BY <1>8, <1>10, <1>11 DEF DiffTouchesOnlySpecified
  <2>1. CASE self[f] # call.before[f]
    BY <2>1 DEF DiffTouchesOnlySpecified
  <2>2. CASE self[f] = call.before[f]
    <3>1. q = r
      BY <1>11, <1>12, <2>2 DEF Same
    <3>2. PICK g \in Given(r, call.spec[r]) \cup {"refused"} : Touches(g, f)
      BY <1>6, <1>7, <2>2, AfterKeeps, SMTT(30) DEF new
    <3>3. f # "refused" /\ (f \in DOMAIN Twin => Twin[f] \notin {"refused", "period"})
      BY DEF Twin, FileOf, CpuFile, MemoryFile, Resource, Resources
    <3> QED
      BY <1>1, <3>1, <3>2, <3>3 DEF Touches, Given, Belongs
  <2> QED
    BY <2>1, <2>2
<1> QED
  BY <1>17, <1>18, <1>19, <1>20, SMTT(30)

(* Every call, handler and destruction keeps the invariant.                *)
LEMMA Inductive == UInv /\ [Next]_vars => UInv'
<1> SUFFICES ASSUME UInv, [Next]_vars
             PROVE  UInv'
  OBVIOUS
<1>1. ASSUME NEW s \in Specs, Create(s)
      PROVE  UInv'
  BY <1>1, CreateStep
<1>2. ASSUME NEW s \in Specs, NEW policy \in {"DIFF", "REPLACE"}, Update(s, policy)
      PROVE  UInv'
  BY <1>2, UpdateStep
<1>3. ASSUME NEW r \in Resource, Handle(r)
      PROVE  UInv'
  BY <1>3, HandleStep
<1>4. CASE Return \/ Destroy
  BY <1>4, EndStep, SMTT(30)
<1>5. CASE UNCHANGED vars
  BY <1>5 DEF vars, UInv, Shape, Idle, Progress, Untouched, Complete, Asked,
     ParentUntouched,
              DiffTouchesOnlySpecified
<1> QED
  BY <1>1, <1>2, <1>3, <1>4, <1>5 DEF Next

(* UInv holds in every reachable state.                                    *)
LEMMA Invariant == Spec => []UInv
  BY InitUInv, Inductive, PTL DEF Spec

(* "Handlers are found upwards": no Create or Update of the container      *)
(* writes into the cgroup of its parent, whatever is specified.            *)
THEOREM ParentStays == Spec => []ParentUntouched
<1>1. UInv => ParentUntouched
  BY DEF UInv
<1> QED
  BY <1>1, Invariant, PTL

(* An UPDATE_DIFF changes, at any moment and however it ends, only what    *)
(* belongs to a field it was given.                                        *)
THEOREM DiffIsMinimal == Spec => []DiffTouchesOnlySpecified
<1>1. UInv => DiffTouchesOnlySpecified
  BY DEF UInv
<1> QED
  BY <1>1, Invariant, PTL

(* An update that fails leaves at most one resource between what it was    *)
(* and what was asked for.                                                 *)
THEOREM AtMostOnePartial == Spec => []OneResourcePartial
<1>1. UInv => OneResourcePartial
  <2> SUFFICES ASSUME UInv, call.op = "update",
                      NEW q \in DOMAIN call.spec, NEW r \in DOMAIN call.spec,
                      Partial(q), Partial(r)
               PROVE  q = r
    BY DEF OneResourcePartial
  <2>1. Progress /\ DOMAIN call.spec \subseteq Resource
    BY UpdateAssumption DEF UInv, Idle, Shape
  <2>2. ~Untouched(q) /\ ~Complete(q) /\ ~Untouched(r) /\ ~Complete(r)
    BY DEF Partial, Untouched, Complete, Asked
  <2>3. CASE call.result = "OK"
    BY <2>1, <2>2, <2>3 DEF Progress
  <2>4. CASE call.result # "OK"
    BY <2>1, <2>2, <2>4 DEF Progress
  <2> QED
    BY <2>3, <2>4
<1> QED
  BY <1>1, Invariant, PTL


(* After a call that succeeded, the memory files that it wrote, and their  *)
(* twins, hold what its spec gave or the defaults.                         *)
LEMMA FinishedMemory ==
    ASSUME UInv, Finished, "memory" \in DOMAIN call.spec
    PROVE  LET s == call.spec.memory
               D == Supported(kernel)
           IN  /\ DOMAIN files.self = D /\ DOMAIN s \subseteq MemoryFile
               /\ DOMAIN s \ {"oom"} \subseteq D
               /\ ~(LimitGiven(s) /\ RatioGiven(s)) /\ ScoreFits(s)
               /\ \A h \in Written(s, call.policy) \cap D : \A g \in D \cap MemoryFile :
                     Touches(h, g) => files.self[g] = MemoryValue(s)[g]
<1> DEFINE s  == call.spec.memory
           D  == Supported(kernel)
           c  == call.before
           mu == MemoryUpdate(s, call.policy)
           a  == Unless(~(call.op = "create"), CreateOnlySetup("memory", s))
<1>1. ~Idle /\ call.todo = {} /\ call.result = "OK"
  BY DEF Finished, Over
<1>2. DOMAIN files.self = D /\ call.spec \in Specs /\ DOMAIN c = D
  BY <1>1, SMTT(30) DEF UInv, Shape
<1>3. Complete("memory") /\ Accepted(c, Asked("memory"))
  BY <1>1 DEF UInv, Progress
<1>4. Asked("memory") = a \o mu
  BY DEF Asked, Writes
<1>5. DOMAIN s \subseteq MemoryFile
  BY <1>2, UpdateAssumption DEF FileOf
<1>6. "stale" \in MemoryFile
  BY DEF MemoryFile
<1>7. IsWrites(a, MemoryFile)
  BY <1>6, OneWrite, NoWrites DEF CreateOnlySetup, Unless
<1>8. IsWrites(mu, MemoryFile \cup {"refused"})
  BY MemoryWrites
<1> HIDE DEF a, mu
<1>9. Accepted(c, mu)
  <2>1. IsWrites(a, MemoryFile \cup {"refused"})
    BY <1>7, MoreFiles
  <2> QED
    BY <1>3, <1>4, <1>8, <2>1, AcceptedParts, ZenonT(60)
<1> HIDE DEF s, c, D
<1>10. /\ ~(LimitGiven(s) /\ RatioGiven(s)) /\ ScoreFits(s)
       /\ DOMAIN s \ {"oom"} \subseteq DOMAIN c
  BY <1>5, <1>9, MemoryAccepted, SMTT(30) DEF mu
<1>11. \A h \in Written(s, call.policy) \cap D : \A g \in D : Touches(h, g) =>
          AfterAll(c, a \o mu)[g] = MemoryValue(s)[g]
  BY <1>2, <1>5, <1>7, <1>10, MemoryLeft DEF mu
<1>12. \A g \in D \cap MemoryFile : files.self[g] = AfterAll(c, a \o mu)[g]
  BY <1>2, <1>3, <1>4, ZenonT(60) DEF Complete, Same, FileOf, c
<1> QED
  BY <1>2, <1>5, <1>10, <1>11, <1>12 DEF s, D


(* After a call that succeeded, the CPU files hold what its spec gave, in  *)
(* the kernel's units, and after a REPLACE the latency is that of the      *)
(* spec.                                                                   *)
LEMMA FinishedCpu ==
    ASSUME UInv, Finished, "cpu" \in DOMAIN call.spec
    PROVE  LET s == call.spec.cpu
               D == Supported(kernel)
           IN  /\ DOMAIN files.self = D
               /\ "shares" \in DOMAIN s => files.self.shares = MilliCpusToShares(s.shares)
               /\ "quota" \in DOMAIN s => files.self.quota = QuotaUsecs(s.quota)
               /\ "cpus" \in DOMAIN s /\ "cpus" \in D => files.self.cpus = s.cpus
               /\ call.policy = "REPLACE" /\ "latency" \in D =>
                     files.self.latency = Latency(s)
<1> DEFINE s  == call.spec.cpu
           D  == Supported(kernel)
           c  == call.before
           create == call.op = "create"
           cu == CpuUpdate(c, s, call.policy, create)
           a  == Unless(~create, CreateOnlySetup("cpu", s))
           v  == [f \in {"shares", "quota", "period", "cpus"} |->
                    CASE f = "shares" -> MilliCpusToShares(s.shares)
                      [] f = "quota"  -> QuotaUsecs(s.quota)
                      [] f = "period" -> kHardcapPeriodUsecs
                      [] f = "cpus"   -> s.cpus]
           N  == DOMAIN s \cap {"shares", "quota", "cpus"}
           W  == CpuFile \cup {"refused"}
<1>1. ~Idle /\ call.todo = {} /\ call.result = "OK"
  BY DEF Finished, Over
<1>2. DOMAIN files.self = D /\ call.spec \in Specs /\ DOMAIN c = D
  BY <1>1 DEF UInv, Shape
<1>3. Complete("cpu") /\ Accepted(c, Asked("cpu"))
  BY <1>1 DEF UInv, Progress
<1>4. Asked("cpu") = a \o cu
  BY DEF Asked, Writes
<1>5. IsWrites(a, W)
  BY OneWrite, NoWrites DEF CreateOnlySetup, Unless, CpuFile
<1>6. IsWrites(cu, W)
  BY CpuWrites DEF CpuFile
<1>7. Accepted(c, cu)
  <2> HIDE DEF a, cu, W
  <2> QED
    BY <1>3, <1>4, <1>5, <1>6, AcceptedParts, ZenonT(60)
<1>8. /\ v["shares"] = MilliCpusToShares(s.shares) /\ v["quota"] = QuotaUsecs(s.quota)
      /\ v["period"] = kHardcapPeriodUsecs /\ v["cpus"] = s.cpus
  OBVIOUS
<1> HIDE DEF v
<1>9. /\ ~LatencyRefused(c, s, call.policy, create)
      /\ Settles(cu, N \cup (IF "quota" \in DOMAIN s THEN {"period"} ELSE {}), D, v)
  BY <1>7, <1>8, CpuSettles
<1>10. ASSUME NEW f \in N, f \in D
       PROVE  files.self[f] = v[f]
  <2> DEFINE R == {g \in D :
                      \E h \in (N \cup (IF "quota" \in DOMAIN s THEN {"period"} ELSE {})) \cap D :
                         Touches(h, g)}
  <2>1. Determines(cu, D, R, v)
    BY <1>9 DEF Settles
  <2>2. f \in R
    BY <1>10 DEF Touches
  <2>3. f \in CpuFile
    BY DEF CpuFile
  <2> HIDE DEF R, a, cu, W
  <2>4. Determines(a \o cu, D, R, v)
    BY <1>5, <1>6, <2>1, LaterDetermines
  <2>5. AfterAll(c, a \o cu)[f] = v[f]
    BY <1>2, <2>2, <2>4 DEF Determines
  <2> QED
    BY <1>2, <1>3, <1>4, <1>10, <2>3, <2>5, ZenonT(60) DEF Complete, Same, FileOf
<1>11. "shares" \in D /\ "quota" \in D
  BY DEF Supported
<1>12. ASSUME call.policy = "REPLACE", "latency" \in D
       PROVE  files.self.latency = Latency(s)
  <2>1. files.self.latency = AfterAll(c, a \o cu).latency
    <3>1. "latency" \in FileOf["cpu"]
      BY DEF FileOf, CpuFile
    <3> HIDE DEF a, cu
    <3> QED
      BY <1>2, <1>3, <1>4, <1>12, <3>1, ZenonT(60) DEF Complete, Same
  <2>2. CASE create
    <3>1. a = CreateOnlySetup("cpu", s)
      BY <2>2 DEF Unless
    <3> HIDE DEF a
    <3> QED
      BY <1>2, <1>12, <2>1, <3>1, LatencyStays
  <2>3. CASE ~create
    <3>1. c.latency = Latency(s)
      BY <1>2, <1>9, <1>12, <2>3 DEF LatencyRefused, Latency
    <3>2. a = <<>>
      BY <2>3 DEF Unless
    <3>3. a \o cu = cu
      <4>1. PICK V : cu \in Seq([file : W, value : V, optional : BOOLEAN])
        BY <1>6, ZenonT(60) DEF IsWrites
      <4> HIDE DEF a, cu
      <4> QED
        BY <3>2, <4>1
    <3>4. AfterAll(c, cu).latency = c.latency
      BY <1>2, <1>12, LatencyStays
    <3> HIDE DEF a, cu, c
    <3> QED
      BY <2>1, <3>1, <3>3, <3>4
  <2> QED
    BY <2>2, <2>3
<1> HIDE DEF D, c, a, cu
<1> QED
  BY <1>2, <1>8, <1>10, <1>11, <1>12 DEF D

(* A dirty limit of 0 turns the limit off, and Spec then reports a ratio.  *)
DirtyLimitsPositive ==
    \A s \in Specs : "memory" \in DOMAIN s =>
        \A f \in DOMAIN s.memory \cap {"dirty_limit", "dirty_bg_limit"} : s.memory[f] > 0

(* After a Create or Update that returned OK, Spec reports the fields that *)
(* were given, if the dirty limits among them are above 0.                 *)
LEMMA MemoryReported ==
    ASSUME DirtyLimitsPositive, UInv, Finished, "memory" \in DOMAIN call.spec
    PROVE  LET s == call.spec.memory
           IN  /\ Reports(s, MemorySpec(files.self))
               /\ DOMAIN s \subseteq DOMAIN MemorySpec(files.self) \cup {"memsw", "oom"}
<1> DEFINE s == call.spec.memory
           D == Supported(kernel)
           c == files.self
           limits == {"limit", "memsw", "soft"}
<1>1. /\ DOMAIN c = D /\ DOMAIN s \subseteq MemoryFile /\ DOMAIN s \ {"oom"} \subseteq D
      /\ ~(LimitGiven(s) /\ RatioGiven(s))
      /\ \A h \in Written(s, call.policy) \cap D : \A g \in D \cap MemoryFile :
            Touches(h, g) => c[g] = MemoryValue(s)[g]
  BY FinishedMemory
<1>2. call.spec \in Specs
  BY DEF Finished, Over, UInv, Shape
<1>3. /\ \A f \in DOMAIN s : s[f] \in Int /\ (f \in limits => s[f] <= kint64max)
      /\ kint64max \in Nat
      /\ \A f \in DOMAIN s \cap {"dirty_limit", "dirty_bg_limit"} : s[f] > 0
  BY <1>2, UpdateAssumption, SMTT(30) DEF DirtyLimitsPositive
<1> HIDE DEF s, D, c
<1>4. ASSUME NEW f \in DOMAIN s, f \in D
      PROVE  c[f] = Stored(f, s[f])
  <2>1. f \in Written(s, call.policy)
    BY <1>1 DEF Written
  <2>2. c[f] = MemoryValue(s)[f]
    BY <1>1, <1>4, <2>1 DEF Touches
  <2>3. MemoryValue(s)[f]
          = Stored(f, IF f \in limits THEN ModifyLimit(s[f]) ELSE s[f])
    BY <1>1 DEF MemoryValue
  <2>4. f \in limits => Stored(f, ModifyLimit(s[f])) = Stored(f, s[f])
    BY <1>3 DEF Stored, ModifyLimit
  <2> QED
    BY <2>2, <2>3, <2>4
<1>5. ASSUME NEW f \in DOMAIN s, f \in D, f \in DOMAIN Twin, Twin[f] \in D
      PROVE  c[Twin[f]] = 0
  <2>1. f \in Written(s, call.policy)
    BY <1>1 DEF Written
  <2>2. Touches(f, Twin[f]) /\ Twin[f] \in MemoryFile
    BY <1>5 DEF Touches, Twin, MemoryFile
  <2>3. c[Twin[f]] = MemoryValue(s)[Twin[f]]
    BY <1>1, <1>5, <2>1, <2>2
  <2>4. MemoryValue(s)[Twin[f]] = 0
    BY <1>1, <1>5 DEF MemoryValue, MemoryFile, Twin, LimitGiven, RatioGiven
  <2> QED
    BY <2>3, <2>4
<1> DEFINE X == {"oom", "limit", "soft", "comp", "stale", "kmem",
                 Dirty(c, "dirty_limit", "dirty_ratio"),
                 Dirty(c, "dirty_bg_limit", "dirty_bg_ratio")}
           Y == {g \in X : g \in DOMAIN c}
<1>6. MemorySpec(c) = [f \in Y |-> c[f]]
  BY DEF MemorySpec
<1>7. Reports(s, MemorySpec(c))
  <2>1. ASSUME NEW f \in DOMAIN s \cap Y
        PROVE  f # "shares" /\ c[f] = Stored(f, s[f])
    BY <1>1, <1>4, <2>1, SMTT(30) DEF MemoryFile
  <2> HIDE DEF Y
  <2> QED
    BY <1>6, <2>1, SMTT(30) DEF Reports
<1>8. ASSUME NEW f \in DOMAIN s, f \notin {"memsw", "oom"}
      PROVE  f \in Y
  <2>1. f \in D
    BY <1>1, <1>8
  <2>2. CASE f \in {"limit", "soft", "comp", "stale", "kmem"}
    BY <1>1, <2>1, <2>2
  <2>3. CASE f \in {"dirty_limit", "dirty_bg_limit"}
    <3>1. c[f] = s[f] /\ s[f] > 0
      BY <1>3, <1>4, <2>1, <2>3 DEF Stored
    <3>2. f \in X
      BY <1>1, <2>1, <2>3, <3>1 DEF Dirty
    <3> QED
      BY <1>1, <2>1, <3>2
  <2>4. CASE f = "dirty_ratio"
    <3>1. "dirty_limit" \in D => c["dirty_limit"] = 0
      BY <1>5, <2>1, <2>4 DEF Twin
    <3>2. Dirty(c, "dirty_limit", "dirty_ratio") = "dirty_ratio"
      BY <1>1, <3>1 DEF Dirty
    <3> QED
      BY <1>1, <2>1, <2>4, <3>2
  <2>5. CASE f = "dirty_bg_ratio"
    <3>1. "dirty_bg_limit" \in D => c["dirty_bg_limit"] = 0
      BY <1>5, <2>1, <2>5 DEF Twin
    <3>2. Dirty(c, "dirty_bg_limit", "dirty_bg_ratio") = "dirty_bg_ratio"
      BY <1>1, <3>1 DEF Dirty
    <3> QED
      BY <1>1, <2>1, <2>5, <3>2
  <2> QED
    BY <1>1, <1>8, <2>2, <2>3, <2>4, <2>5, SMTT(30) DEF MemoryFile
<1> HIDE DEF Y
<1>9. DOMAIN s \subseteq DOMAIN MemorySpec(c) \cup {"memsw", "oom"}
  BY <1>6, <1>8
<1> QED
  BY <1>7, <1>9, SMTT(30) DEF s, c

(* So Spec reports the CPU fields that were given.                         *)
LEMMA CpuReported ==
    ASSUME UInv, Finished, "cpu" \in DOMAIN call.spec
    PROVE  Reports(call.spec.cpu, CpuSpec(files.self))
<1> DEFINE s == call.spec.cpu
           c == files.self
           Y == {"shares", "quota", "cpus"} \cap DOMAIN c
<1>1. /\ "shares" \in DOMAIN s => c.shares = MilliCpusToShares(s.shares)
      /\ "quota" \in DOMAIN s => c.quota = QuotaUsecs(s.quota)
      /\ "cpus" \in DOMAIN s /\ "cpus" \in DOMAIN c => c.cpus = s.cpus
  BY FinishedCpu
<1>2. call.spec \in Specs
  BY DEF Finished, Over, UInv, Shape
<1>3. /\ "shares" \in DOMAIN s => s["shares"] \in Nat
      /\ "quota" \in DOMAIN s => s["quota"] \in Nat
  BY <1>2, UpdateAssumption
<1>4. /\ DOMAIN CpuSpec(c) = Y
      /\ "shares" \in Y => CpuSpec(c)["shares"] = SharesToMilliCpus(c.shares)
      /\ "quota" \in Y => CpuSpec(c)["quota"] = QuotaToMilliCpus(c.quota)
      /\ "cpus" \in Y => CpuSpec(c)["cpus"] = c.cpus
  BY DEF CpuSpec
<1> DEFINE shown == CpuSpec(c)
<1> HIDE DEF s, c, shown
<1> SUFFICES ASSUME NEW f \in DOMAIN s \cap Y
             PROVE  IF f = "shares"
                    THEN shown[f] > 0 /\ (s[f] > 1 => shown[f] \in {s[f] - 1, s[f]})
                    ELSE shown[f] = Stored(f, s[f])
  BY <1>4 DEF Reports, s, c, shown
<1>5. CASE f = "shares"
  <2>1. shown["shares"] = SharesToMilliCpus(MilliCpusToShares(s["shares"]))
    BY <1>1, <1>4, <1>5 DEF shown
  <2>2. s["shares"] \in Nat
    BY <1>3, <1>5
  <2>3. CASE s["shares"] \in {0, 1}
    <3>1. shown["shares"] = 1
      BY <2>1, <2>3, SmallestMilliCpus
    <3> QED
      BY <1>5, <2>2, <2>3, <3>1
  <2>4. CASE s["shares"] >= 2
    <3>1. shown["shares"] \in {s["shares"] - 1, s["shares"]}
      BY <2>1, <2>2, <2>4, MilliCpusReadBack
    <3> QED
      BY <1>5, <2>2, <2>4, <3>1
  <2> QED
    BY <2>2, <2>3, <2>4
<1>6. CASE f = "quota"
  <2>1. shown["quota"] = QuotaToMilliCpus(QuotaUsecs(s["quota"]))
    BY <1>1, <1>4, <1>6 DEF shown
  <2>2. shown["quota"] = s["quota"]
    BY <1>3, <1>6, <2>1, MaxMilliCpusReadBack, SMTT(30)
  <2> QED
    BY <1>6, <2>2 DEF Stored
<1>7. CASE f = "cpus"
  BY <1>1, <1>4, <1>7 DEF Stored, shown
<1> QED
  BY <1>5, <1>6, <1>7

(* After a Create or Update that succeeded, Spec reports what was asked    *)
(* for, if no spec gives a dirty limit of 0: for that Spec reports the     *)
(* ratio.                                                                  *)
THEOREM SpecReportsGiven ==
    ASSUME DirtyLimitsPositive
    PROVE  Spec => []SpecReports
<1>1. UInv => SpecReports
  BY MemoryReported, CpuReported DEF SpecReports
<1> QED
  BY <1>1, Invariant, PTL

(* A kernel has a dirty ratio exactly when it has the limit beside it.     *)
TwinsTogether == \A k \in Kernels : \A f \in DOMAIN Twin : f \in k <=> Twin[f] \in k

(* A REPLACE that returned OK has left the memory cgroup and the latency   *)
(* as a Create would have: every file is written, or its twin is.          *)
LEMMA MemoryForgets ==
    ASSUME TwinsTogether, UInv, Finished, call.policy = "REPLACE",
           "memory" \in DOMAIN call.spec
    PROVE  Same(files.self, AsCreated("memory"), "memory")
<1> DEFINE s   == call.spec.memory
           D   == Supported(kernel)
           new == NewCgroup(kernel)
           mu  == MemoryUpdate(s, "REPLACE")
           a   == CreateOnlySetup("memory", s)
<1>1. /\ DOMAIN files.self = D /\ DOMAIN s \subseteq MemoryFile
      /\ ~(LimitGiven(s) /\ RatioGiven(s)) /\ ScoreFits(s)
      /\ \A h \in Written(s, "REPLACE") \cap D : \A g \in D \cap MemoryFile :
            Touches(h, g) => files.self[g] = MemoryValue(s)[g]
  BY FinishedMemory
<1>2. AsCreated("memory") = AfterAll(new, a \o mu)
  <2> DEFINE as == [call EXCEPT !.op = "create", !.policy = "REPLACE"]
  <2>1. as.op = "create" /\ as.policy = "REPLACE" /\ as.spec = call.spec
    BY DEF UInv, Shape
  <2>2. Writes(new, "memory", as) = a \o mu
    <3> HIDE DEF as, new
    <3> QED
      BY <2>1 DEF Writes, Unless
  <2> QED
    BY <2>2, Zenon DEF AsCreated
<1>3. DOMAIN new = D
  BY DEF NewCgroup
<1>4. IsWrites(a, MemoryFile)
  BY OneWrite DEF CreateOnlySetup, MemoryFile
<1>5. ASSUME NEW g \in MemoryFile, g \in D
      PROVE  \E h \in Written(s, "REPLACE") \cap D : Touches(h, g)
  <2>1. CASE g \in Written(s, "REPLACE")
    BY <1>5, <2>1 DEF Touches
  <2>2. CASE g \notin Written(s, "REPLACE")
    <3>1. g \in DOMAIN Twin /\ Twin[g] \in Written(s, "REPLACE")
      BY <2>2 DEF Written, MemoryFile, Twin
    <3>2. kernel \in Kernels
      BY DEF UInv, Shape
    <3>3. Twin[g] \in D
      BY <1>5, <3>1, <3>2, SMTT(30) DEF TwinsTogether, Supported, Twin
    <3> QED
      BY <3>1, <3>3 DEF Touches
  <2> QED
    BY <2>1, <2>2
<1> HIDE DEF s, D, new, a, mu
<1>6. \A h \in Written(s, "REPLACE") \cap D : \A g \in D : Touches(h, g) =>
         AfterAll(new, a \o mu)[g] = MemoryValue(s)[g]
  BY <1>1, <1>3, <1>4, MemoryLeft, SMTT(30) DEF mu
<1>7. \A g \in MemoryFile \cap D : files.self[g] = AfterAll(new, a \o mu)[g]
  BY <1>1, <1>5, <1>6
<1> QED
  BY <1>1, <1>2, <1>7, SMTT(30) DEF Same, FileOf

(* A REPLACE that succeeded without refusing the latency left the one that *)
(* a new container has.                                                    *)
LEMMA LatencyForgets ==
    ASSUME UInv, Finished, call.policy = "REPLACE",
           "cpu" \in DOMAIN call.spec, "latency" \in DOMAIN files.self
    PROVE  files.self.latency = AsCreated("cpu").latency
<1> DEFINE s   == call.spec.cpu
           new == NewCgroup(kernel)
           as  == [call EXCEPT !.op = "create", !.policy = "REPLACE"]
           create == as.op = "create"
<1>1. DOMAIN files.self = Supported(kernel) /\ files.self.latency = Latency(s)
  BY FinishedCpu
<1>2. as.op = "create" /\ as.policy = "REPLACE" /\ as.spec = call.spec
  BY DEF UInv, Shape
<1>3. "latency" \in DOMAIN new
  BY <1>1 DEF NewCgroup
<1>4. Writes(new, "cpu", as)
        = CreateOnlySetup("cpu", s) \o CpuUpdate(new, s, "REPLACE", create)
  <2> HIDE DEF as, new
  <2> QED
    BY <1>2 DEF Writes, Unless
<1>5. AfterAll(new, CreateOnlySetup("cpu", s) \o CpuUpdate(new, s, "REPLACE", create)).latency
        = Latency(s)
  <2> HIDE DEF new, create
  <2> QED
    BY <1>3, LatencyStays
<1> QED
  BY <1>1, <1>4, <1>5, ZenonT(60) DEF AsCreated

(* After a REPLACE that succeeded, the memory files and the CPU latency    *)
(* are what a Create with the same spec leaves, whatever earlier calls had *)
(* set, on kernels that have a dirty limit whenever they have its ratio,   *)
(* and the other way round.                                                *)
THEOREM ReplaceIsFresh ==
    ASSUME TwinsTogether
    PROVE  Spec => []ReplaceForgets
<1>1. UInv => ReplaceForgets
  BY MemoryForgets, LatencyForgets DEF ReplaceForgets
<1> QED
  BY <1>1, Invariant, PTL
=============================================================================
