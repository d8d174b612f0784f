--------------------------- MODULE ResourceUpdate ---------------------------
(***************************************************************************)
(* What Create and Update write into the parameter files of a container's  *)
(* cpu, memory and device cgroups (ContainerImpl::Update and the resource  *)
(* handlers), and what Spec reads back.                                    *)
(*                                                                         *)
(* A specification is a function from the resources it names to the fields *)
(* it gives, a handler's update the sequence of its writes.  A write may   *)
(* fail after any number of others; one handler runs in one step.  The     *)
(* container has one ancestor, which isolates every resource.              *)
(***************************************************************************)
EXTENDS Integers, Sequences, CpuConversions

CONSTANTS
    Specs,     \* the specifications that are asked for
    Kernels,   \* sets of the optional files a kernel may have
    kint64max, \* how the kernel reports "no limit"
    MayFail    \* the kernel may refuse any write

(* ResourceType, in the order of the enumeration.                          *)
Resources == <<"cpu", "memory", "device">>
Resource  == {Resources[i] : i \in DOMAIN Resources}

MemoryFile == {"oom", "limit", "memsw", "soft", "comp", "stale", "dirty_ratio",
               "dirty_bg_ratio", "dirty_limit", "dirty_bg_limit", "kmem"}
CpuFile    == {"latency", "shares", "period", "quota", "cpus"}
FileOf     == [cpu |-> CpuFile, memory |-> MemoryFile, device |-> {"devices"}]
File       == UNION {FileOf[r] : r \in Resource}

Restriction == [allow : BOOLEAN, device : {"a", "b"}, access : 0..3]

(* A field has the name of the file it goes to; the period has none.       *)
ASSUME UpdateAssumption ==
    /\ kint64max \in Nat
    /\ MayFail \in BOOLEAN
    /\ Kernels \subseteq SUBSET File
    /\ \A s \in Specs :
          /\ DOMAIN s \subseteq Resource
          /\ \A r \in DOMAIN s : DOMAIN s[r] \subseteq FileOf[r] \ {"period"}
          /\ "memory" \in DOMAIN s => \A f \in DOMAIN s.memory :
                /\ s.memory[f] \in Int
                /\ f \in {"limit", "memsw", "soft"} => s.memory[f] <= kint64max
          /\ "cpu" \in DOMAIN s => \A f \in DOMAIN s.cpu \cap {"shares", "quota"} :
                s.cpu[f] \in Nat
          /\ "device" \in DOMAIN s => \A f \in DOMAIN s.device :
                s.device[f] \in Seq(Restriction)

VARIABLES
    kernel,   \* the optional files there are
    files,    \* cgroup ("self" or "parent") -> file that it has -> value
    isolated, \* the resources the container has cgroups for
    call      \* the Create or Update in progress

vars == <<kernel, files, isolated, call>>

(* External: what a new cgroup's files hold, and which there are.          *)
Supported(k) == k \cup {"limit", "soft", "shares", "period", "quota", "devices"}
NewCgroup(k) == [f \in Supported(k) |->
    CASE f \in {"limit", "memsw", "soft"} -> kint64max
      [] f = "shares"  -> 1024
      [] f = "period"  -> 100000
      [] f = "quota"   -> -1
      [] f = "latency" -> "PRIORITY"
      [] f = "devices" -> {"a", "b"}
      [] f = "cpus"    -> {}
      [] OTHER         -> 0]

-----------------------------------------------------------------------------
(* A write of a value; an optional one may find no such file.  A refusal   *)
(* stands for an INVALID_ARGUMENT found at that point.                     *)
Write(f, v)    == <<[file |-> f, value |-> v, optional |-> FALSE]>>
Optional(f, v) == <<[file |-> f, value |-> v, optional |-> TRUE]>>
Refuse         == Write("refused", 0)
Unless(c, ws)  == IF c THEN <<>> ELSE ws

(* ModifyLimit: the kernel does not read its own "infinite".               *)
PassedOn(v)    == v \* mutant
ModifyLimit(v) == IF v >= kint64max THEN -1 ELSE v

(* Fields that are not given keep their value in a DIFF and get a default  *)
(* in a REPLACE.                                                           *)
EvenInDiff(policy, ws) == ws   \* mutant
NoDefaults(policy, ws) == <<>> \* mutant
Default(policy, ws)    == Unless(policy = "DIFF", ws)

(* MemoryResourceHandler::SetDirty.                                        *)
SetDirty(s, policy) ==
    LET given(f)      == Unless(f \notin DOMAIN s, Write(f, s[f]))
        default(f, v) == Unless(f \in DOMAIN s, Default(policy, Optional(f, v)))
        ratio         == DOMAIN s \cap {"dirty_ratio", "dirty_bg_ratio"} # {}
        limit         == DOMAIN s \cap {"dirty_limit", "dirty_bg_limit"} # {}
    IN  IF ratio /\ limit THEN Refuse
        ELSE given("dirty_ratio") \o given("dirty_bg_ratio")
             \o given("dirty_limit") \o given("dirty_bg_limit")
             \o IF limit THEN default("dirty_limit", 0) \o default("dirty_bg_limit", 0)
                ELSE default("dirty_ratio", 75) \o default("dirty_bg_ratio", 10)

(* MemoryResourceHandler::Update.                                          *)
MemoryUpdate(s, policy) ==
    LET given(f)     == f \in DOMAIN s
        or(f, ws, d) == IF given(f) THEN ws ELSE Default(policy, d)
    IN  or("oom", IF s.oom \in 0..10000 THEN Optional("oom", s.oom) ELSE Refuse,
                  Optional("oom", 5000))
     \o or("limit", Write("limit", ModifyLimit(s.limit)), Write("limit", -1))
     \o or("memsw", Write("memsw", ModifyLimit(s.memsw)), Optional("memsw", -1))
     \o or("soft",  Write("soft", ModifyLimit(s.soft)), Write("soft", 0))
     \o or("comp",  Write("comp", s.comp), Optional("comp", 0))
     \o or("stale", Write("stale", s.stale), Optional("stale", 1))
     \o SetDirty(s, policy)
     \o or("kmem",  Write("kmem", s.kmem), Optional("kmem", 0))

(* CpuResourceHandler::Update.  A Create has just set the latency.         *)
LatencyRefused(c, s, policy, create) ==
    /\ "latency" \in DOMAIN c /\ ~create
    /\ IF "latency" \in DOMAIN s THEN s.latency # c.latency
       ELSE policy = "REPLACE" /\ c.latency # "PRIORITY"

CpuUpdate(c, s, policy, create) ==
    LET given(f) == f \in DOMAIN s
    IN  IF LatencyRefused(c, s, policy, create) THEN Refuse
        ELSE Unless(~given("shares"), Write("shares", MilliCpusToShares(s.shares)))
          \o Unless(~given("quota"),
                IF QuotaUsecs(s.quota) < kMinHardcapQuotaUsecs THEN Refuse
                ELSE Write("period", kHardcapPeriodUsecs)
                     \o Write("quota", QuotaUsecs(s.quota)))
          \o Unless(~given("cpus"),
                IF "cpus" \in DOMAIN c THEN Write("cpus", s.cpus) ELSE Refuse)

(* CgroupResourceHandler::Update of the device handler.  Validate verifies *)
(* what Spec has filled in, and the device handler's Spec overwrites the   *)
(* restrictions that were asked for with the ones in force, which are      *)
(* always well formed; SetRestrictions then meets the new ones in turn.    *)
VerifyRestriction(rule) == rule.access \in 1..3
SpecAfterUpdate(c, s)   == {[access |-> 3, allow |-> TRUE, device |-> d] : d \in c.devices}
DeviceUpdate(c, s) ==
    IF \E rule \in SpecAfterUpdate(c, s) : ~VerifyRestriction(rule) THEN Refuse
    ELSE IF "devices" \notin DOMAIN s THEN <<>>
    ELSE [i \in DOMAIN s.devices |->
            Head(IF VerifyRestriction(s.devices[i]) THEN Write("devices", s.devices[i])
                 ELSE Refuse)]

(* CreateOnlySetup.                                                        *)
CreateOnlySetup(r, s) ==
    CASE r = "cpu"    -> Optional("latency", IF "latency" \in DOMAIN s THEN s.latency ELSE "PRIORITY")
      [] r = "memory" -> Optional("stale", 1)
      [] OTHER        -> <<>>

(* What the handler of r, which controls the cgroup c, writes for a call.  *)
Writes(c, r, req) ==
    LET s      == req.spec[r]
        create == req.op = "create"
    IN  Unless(~create, CreateOnlySetup(r, s)) \o
        CASE r = "cpu"    -> CpuUpdate(c, s, req.policy, create)
          [] r = "memory" -> MemoryUpdate(s, req.policy)
          [] r = "device" -> DeviceUpdate(c, s)

-----------------------------------------------------------------------------
(* External: the kernel.  A limit of -1 reads as kint64max, which is       *)
(* itself not accepted; the memory limit may not exceed the one of memory  *)
(* and swap; of a dirty ratio and a dirty limit the one written last holds *)
(* and the other reads 0.                                                  *)
Stored(f, v) == IF f \in {"limit", "memsw", "soft"} /\ v = -1 THEN kint64max ELSE v

Twin == [dirty_ratio |-> "dirty_limit", dirty_limit |-> "dirty_ratio",
         dirty_bg_ratio |-> "dirty_bg_limit", dirty_bg_limit |-> "dirty_bg_ratio"]

Store(c, w) ==
    IF w.file \notin DOMAIN c THEN c
    ELSE IF w.file = "devices"
    THEN [c EXCEPT !.devices = IF w.value.allow THEN @ \cup {w.value.device}
                               ELSE @ \ {w.value.device}]
    ELSE LET stored == [c EXCEPT ![w.file] = Stored(w.file, w.value)]
         IN  IF w.file \in DOMAIN Twin /\ Twin[w.file] \in DOMAIN c
             THEN [stored EXCEPT ![Twin[w.file]] = 0] ELSE stored

Rejects(c, w) ==
    \/ w.file \in {"limit", "memsw", "soft"} /\ w.value >= kint64max
    \/ "memsw" \in DOMAIN c /\ \/ w.file = "limit" /\ Stored("limit", w.value) > c.memsw
                               \/ w.file = "memsw" /\ Stored("memsw", w.value) < c.limit

(* SetParamString: the outcome the state c determines.                     *)
Outcome(c, w) ==
    IF w.file = "refused" THEN "INVALID_ARGUMENT"
    ELSE IF w.file \notin DOMAIN c THEN (IF w.optional THEN "OK" ELSE "NOT_FOUND")
    ELSE IF Rejects(c, w) THEN "UNAVAILABLE" ELSE "OK"

(* The files after the first k writes.                                     *)
AfterWrites(c, ws, k) ==
    LET after[i \in Nat] == IF i = 0 THEN c ELSE Store(after[i - 1], ws[i])
    IN  after[k]

-----------------------------------------------------------------------------
NoFields == [f \in {} |-> 0]
NoCall == [op |-> "none", policy |-> "DIFF", spec |-> NoFields, todo |-> {},
           result |-> "OK", before |-> NoFields]

Idle == call.op = "none"
Over == ~Idle /\ call.todo = {}

(* ContainerApiImpl::Create makes the handlers the specification names.    *)
Create(s) ==
    /\ Idle /\ isolated = {}
    /\ DOMAIN s # {}
    /\ isolated' = DOMAIN s
    /\ files' = [files EXCEPT !.self = NewCgroup(kernel)]
    /\ call' = [op |-> "create", policy |-> "REPLACE", spec |-> s, todo |-> DOMAIN s,
                result |-> "OK", before |-> NewCgroup(kernel)]
    /\ UNCHANGED kernel

(* ContainerImpl::Update up to the first handler.                          *)
Unchecked(s, policy) == "OK" \* mutant: any resource may be specified
Isolation(s, policy) ==
    IF ~(DOMAIN s \subseteq isolated) THEN "INVALID_ARGUMENT"
    ELSE IF policy = "REPLACE" /\ isolated # DOMAIN s THEN "INVALID_ARGUMENT" ELSE "OK"

Update(s, policy) ==
    /\ Idle /\ isolated # {}
    /\ LET checked == Isolation(s, policy)
       IN  call' = [op |-> "update", policy |-> policy, spec |-> s, result |-> checked,
                    todo |-> IF checked = "OK" THEN DOMAIN s ELSE {},
                    before |-> files.self]
    /\ UNCHANGED <<kernel, files, isolated>>

(* The handler found for a resource is the container's or its parent's.    *)
Owner(r) == IF r \in isolated THEN "self" ELSE "parent"

(* Update goes through a set of pointers, Create through a map by type.    *)
Turn(r) ==
    /\ r \in call.todo
    /\ call.op = "create" =>
          \A i, j \in DOMAIN Resources :
             Resources[j] = r /\ i < j => Resources[i] \notin call.todo

GoesOn(r, result) == \* mutant: the loop over the handlers is not left
    [call EXCEPT !.todo = IF result = "OK" \/ call.op = "update" THEN @ \ {r} ELSE {},
                 !.result = IF @ = "OK" THEN result ELSE @]
Ended(r, result) ==
    [call EXCEPT !.todo = IF result = "OK" THEN @ \ {r} ELSE {}, !.result = result]

(* The kernel, left alone, lets the first k writes pass.                   *)
Passes(c, ws, k) ==
    \A i \in 1..k : Outcome(AfterWrites(c, ws, i - 1), ws[i]) = "OK"

(* One handler: k of its writes, then the end or an error.  A Create that  *)
(* fails destroys what it has made.                                        *)
Handle(r) ==
    /\ Turn(r)
    /\ \E c \in {files[Owner(r)]} : \E ws \in {Writes(c, r, call)} :
       \E k \in 0..Len(ws), result \in {"OK", "INVALID_ARGUMENT", "NOT_FOUND", "UNAVAILABLE"} :
          /\ Passes(c, ws, k)
          /\ IF k = Len(ws) THEN result = "OK"
             ELSE \/ /\ result = Outcome(AfterWrites(c, ws, k), ws[k + 1])
                     /\ result # "OK"
                  \/ MayFail /\ ws[k + 1].file \in DOMAIN c /\ result = "UNAVAILABLE"
          /\ files' = [files EXCEPT ![Owner(r)] = AfterWrites(c, ws, k)]
          /\ call' = Ended(r, result)
          /\ isolated' = IF call.op = "create" /\ result # "OK" THEN {} ELSE isolated
    /\ UNCHANGED kernel

(* The call returns its result; its locals are gone.                       *)
Return ==
    /\ Over
    /\ call' = NoCall
    /\ UNCHANGED <<kernel, files, isolated>>

Destroy ==
    /\ Idle /\ isolated # {}
    /\ isolated' = {}
    /\ files' = [files EXCEPT !.self = NewCgroup(kernel)]
    /\ UNCHANGED <<kernel, call>>

Init ==
    /\ kernel \in Kernels
    /\ files = [o \in {"self", "parent"} |-> NewCgroup(kernel)]
    /\ isolated = {}
    /\ call = NoCall

Next ==
    \/ \E s \in Specs :
          \/ Create(s)
          \/ \E policy \in {"DIFF", "REPLACE"} : Update(s, policy)
    \/ \E r \in Resource : Handle(r)
    \/ Return
    \/ Destroy

Spec == Init /\ [][Next]_vars

-----------------------------------------------------------------------------
(* MemoryResourceHandler::Spec, with the swap limit left out, and          *)
(* GetDirtyMemorySpec: a limit above 0 before a ratio.                     *)
Dirty(c, limit, ratio) == IF limit \in DOMAIN c /\ c[limit] > 0 THEN limit ELSE ratio

MemorySpec(c) ==
    [f \in {g \in {"oom", "limit", "soft", "comp", "stale", "kmem",
                   Dirty(c, "dirty_limit", "dirty_ratio"),
                   Dirty(c, "dirty_bg_limit", "dirty_bg_ratio")} : g \in DOMAIN c}
        |-> c[f]]

(* CpuResourceHandler::Spec, with the latency left out.                    *)
CpuSpec(c) ==
    [f \in {"shares", "quota", "cpus"} \cap DOMAIN c |->
        CASE f = "shares" -> SharesToMilliCpus(c.shares)
          [] f = "quota"  -> QuotaToMilliCpus(c.quota)
          [] f = "cpus"   -> c.cpus]

-----------------------------------------------------------------------------
(* "If UPDATE_DIFF, only makes the specified changes": at any moment of a  *)
(* DIFF update, failed or not, a file of the container that differs from   *)
(* what it was before the call belongs to a field that was given.          *)
Belongs(f, s) ==
    \/ f \in DOMAIN s
    \/ f = "period" /\ "quota" \in DOMAIN s
    \/ f \in DOMAIN Twin /\ Twin[f] \in DOMAIN s

DiffTouchesOnlySpecified ==
    call.op = "update" /\ call.policy = "DIFF" =>
        \A r \in Resource : \A f \in FileOf[r] \cap DOMAIN files.self :
            files.self[f] # call.before[f] =>
                r \in DOMAIN call.spec /\ Belongs(f, call.spec[r])

(* An Update that fails stops there: of the resources that were specified, *)
(* in whatever order the set of pointers gave, at most one is left between *)
(* what it was and what was asked for.                                     *)
AfterAll(c, ws) == AfterWrites(c, ws, Len(ws))
Same(c, d, r)   == \A f \in FileOf[r] \cap DOMAIN c : c[f] = d[f]
Partial(r) ==
    /\ ~Same(files.self, call.before, r)
    /\ ~Same(files.self, AfterAll(call.before, Writes(call.before, r, call)), r)

OneResourcePartial ==
    call.op = "update" => \A q, r \in DOMAIN call.spec : Partial(q) /\ Partial(r) => q = r

(* Handlers are found upwards, so the handler of a resource the container  *)
(* does not isolate is its parent's: counting the isolated ones keeps an   *)
(* update of the container from changing the parent's limits.              *)
ParentUntouched == files.parent = NewCgroup(kernel)

(* What a Create with the specification would have left in the files.      *)
Finished      == Over /\ call.result = "OK"
AsCreated(r)  ==
    LET new == NewCgroup(kernel)
    IN  AfterAll(new, Writes(new, r, [call EXCEPT !.op = "create", !.policy = "REPLACE"]))

(* A REPLACE update that returns OK has left the memory cgroup and the     *)
(* scheduling latency as if the container had just been created with the   *)
(* specification: nothing of an earlier one remains.                       *)
ReplaceForgets ==
    Finished /\ call.policy = "REPLACE" =>
        /\ "memory" \in DOMAIN call.spec => Same(files.self, AsCreated("memory"), "memory")
        /\ "cpu" \in DOMAIN call.spec /\ "latency" \in DOMAIN files.self =>
              files.self.latency = AsCreated("cpu").latency

(* After a Create or Update has returned OK, Spec reports the fields it    *)
(* gave: a cpu limit after the rounding of its shares, the rest exactly.   *)
Reports(s, shown) ==
    \A f \in DOMAIN s \cap DOMAIN shown :
        IF f = "shares" THEN shown[f] > 0 /\ (s[f] > 1 => shown[f] \in {s[f] - 1, s[f]})
        ELSE shown[f] = Stored(f, s[f])

SpecReports ==
    Finished =>
        /\ "memory" \in DOMAIN call.spec =>
              LET s == call.spec.memory
              IN  /\ Reports(s, MemorySpec(files.self))
                  /\ DOMAIN s \subseteq DOMAIN MemorySpec(files.self) \cup {"memsw", "oom"}
        /\ "cpu" \in DOMAIN call.spec => Reports(call.spec.cpu, CpuSpec(files.self))

(* The memory specification that Spec reports can be given to a REPLACE    *)
(* update, which keeps everything but the swap limit, whatever calls       *)
(* failed before; the exception is a dirty ratio reported with a dirty     *)
(* background limit or the reverse, which Update does not take.            *)
Mixed(s) == ("dirty_limit" \in DOMAIN s) # ("dirty_bg_limit" \in DOMAIN s)
OwnSpecKeeps ==
    LET s  == MemorySpec(files.self)
        ws == MemoryUpdate(s, "REPLACE")
    IN  "memory" \in isolated /\ Idle /\ ~Mixed(s) =>
           /\ Passes(files.self, ws, Len(ws))
           /\ \A f \in (MemoryFile \ {"memsw"}) \cap DOMAIN files.self :
                 AfterAll(files.self, ws)[f] = files.self[f]
=============================================================================
