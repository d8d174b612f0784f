----------------------------- MODULE KeepProofs -----------------------------
(***************************************************************************)
(* A REPLACE with the memory spec that Spec reports of a container is      *)
(* taken by the kernel and leaves every memory file as it was, but for the *)
(* swap limit, which Spec does not report.                                 *)
(***************************************************************************)
EXTENDS UpdateProofs

(* The OOM scores that the memory handler lets through.                    *)
Score == 0..10000

(* What holds of a memory cgroup after any writes that passed, be they all *)
(* of a handler's or not: no limit is -1 or above the largest, the limit   *)
(* is within the one of memory and swap, and a ratio is 0 beside a limit   *)
(* in force.                                                               *)
WellFormed(c) ==
    /\ \A f \in {"limit", "soft"} : c[f] \in Int /\ c[f] <= kint64max /\ c[f] # -1
    /\ "memsw" \in DOMAIN c => c["memsw"] \in Int /\ c["limit"] <= c["memsw"]
    /\ "oom" \in DOMAIN c => c["oom"] \in Score
    /\ \A f \in {"dirty_limit", "dirty_bg_limit"} \cap DOMAIN c :
          c[f] \in Nat /\ (c[f] > 0 /\ Twin[f] \in DOMAIN c => c[Twin[f]] = 0)

Fitting(w) ==
    /\ w.file = "oom" => w.value \in Score
    /\ w.file \in {"dirty_limit", "dirty_bg_limit"} => w.value \in Nat

FitWrite ==
    {w \in [file : MemoryFile \cup {"refused"}, value : Int, optional : BOOLEAN] : Fitting(w)}

(* A new cgroup is well formed.                                            *)
LEMMA NewWellFormed ==
    ASSUME NEW k \in Kernels
    PROVE  WellFormed(NewCgroup(k))
<1>1. 0 \in Score
  BY DEF Score
<1> QED
  BY <1>1, UpdateAssumption DEF WellFormed, NewCgroup, Supported, Twin

(* A write of a fitting value that the kernel takes leaves the cgroup well *)
(* formed: it is the kernel that refuses a memory limit above the limit    *)
(* with swap.                                                              *)
LEMMA StoreWellFormed ==
    ASSUME NEW c, NEW w \in FitWrite, WellFormed(c), {"limit", "soft"} \subseteq DOMAIN c,
           Outcome(c, w) = "OK"
    PROVE  WellFormed(Store(c, w))
<1> DEFINE d == Store(c, w)
<1>1. w.file \in MemoryFile /\ w.value \in Int /\ Fitting(w) /\ kint64max \in Nat
  BY UpdateAssumption DEF FitWrite, Outcome
<1>2. CASE w.file \notin DOMAIN c
  BY <1>2 DEF Store
<1>3. CASE w.file \in DOMAIN c
  <2>1. ~Rejects(c, w)
    BY <1>3, SMTT(30) DEF Outcome
  <2>2. DOMAIN d = DOMAIN c /\ \A f \in DOMAIN c : ~Touches(w.file, f) => d[f] = c[f]
    BY StoreKeeps
  <2>3. d[w.file] = Stored(w.file, w.value)
    BY <1>1, <1>3 DEF Store, MemoryFile, Twin
  <2>4. w.file \in DOMAIN Twin /\ Twin[w.file] \in DOMAIN c => d[Twin[w.file]] = 0
    BY <1>1, <1>3 DEF Store, MemoryFile, Twin
  <2> HIDE DEF d
  <2>5. ASSUME NEW f \in {"limit", "soft"}
        PROVE  d[f] \in Int /\ d[f] <= kint64max /\ d[f] # -1
    <3>1. CASE w.file = f
      BY <1>1, <2>1, <2>3, <3>1 DEF Rejects, Stored
    <3>2. CASE w.file # f
      <4>1. ~Touches(w.file, f)
        BY <3>2 DEF Touches, Twin
      <4> QED
        BY <2>2, <4>1 DEF WellFormed
    <3> QED
      BY <3>1, <3>2
  <2>6. ASSUME "memsw" \in DOMAIN c
        PROVE  d["memsw"] \in Int /\ d["limit"] <= d["memsw"]
    <3>1. CASE w.file = "memsw"
      <4>1. ~Touches(w.file, "limit")
        BY <3>1 DEF Touches, Twin
      <4>2. d["limit"] = c["limit"] /\ c["limit"] \in Int
        BY <2>2, <4>1 DEF WellFormed
      <4> QED
        BY <1>1, <2>1, <2>3, <2>6, <3>1, <4>2, SMTT(30) DEF Rejects, Stored
    <3>2. CASE w.file = "limit"
      <4>1. ~Touches(w.file, "memsw")
        BY <3>2 DEF Touches, Twin
      <4>2. d["memsw"] = c["memsw"] /\ c["memsw"] \in Int
        BY <2>2, <2>6, <4>1 DEF WellFormed
      <4> QED
        BY <1>1, <2>1, <2>3, <2>6, <3>2, <4>2, SMTT(30) DEF Rejects, Stored
    <3>3. CASE w.file \notin {"memsw", "limit"}
      <4>1. ~Touches(w.file, "memsw") /\ ~Touches(w.file, "limit")
        BY <3>3 DEF Touches, Twin
      <4> QED
        BY <2>2, <2>6, <4>1 DEF WellFormed
    <3> QED
      BY <3>1, <3>2, <3>3
  <2>7. ASSUME "oom" \in DOMAIN c
        PROVE  d["oom"] \in Score
    <3>1. CASE w.file = "oom"
      BY <1>1, <2>3, <3>1 DEF Fitting, Stored
    <3>2. CASE w.file # "oom"
      <4>1. ~Touches(w.file, "oom")
        BY <3>2 DEF Touches, Twin
      <4> QED
        BY <2>2, <2>7, <4>1 DEF WellFormed
    <3> QED
      BY <3>1, <3>2
  <2>8. ASSUME NEW f \in {"dirty_limit", "dirty_bg_limit"} \cap DOMAIN c
        PROVE  d[f] \in Nat /\ (d[f] > 0 /\ Twin[f] \in DOMAIN c => d[Twin[f]] = 0)
    <3>1. f \in DOMAIN Twin /\ Twin[f] \in DOMAIN Twin /\ Twin[Twin[f]] = f /\ Twin[f] # f
      BY DEF Twin
    <3>2. CASE w.file = f
      <4>1. d[f] \in Nat
        BY <1>1, <2>3, <3>2 DEF Fitting, Stored
      <4> QED
        BY <2>4, <3>1, <3>2, <4>1
    <3>3. CASE w.file = Twin[f]
      <4>1. d[f] = 0
        BY <2>4, <3>1, <3>3
      <4> QED
        BY <4>1
    <3>4. CASE w.file # f /\ w.file # Twin[f]
      <4>1. ~Touches(w.file, f) /\ ~Touches(w.file, Twin[f])
        BY <3>1, <3>4 DEF Touches
      <4>2. d[f] = c[f] /\ (Twin[f] \in DOMAIN c => d[Twin[f]] = c[Twin[f]])
        BY <2>2, <4>1
      <4> QED
        BY <4>2 DEF WellFormed
    <3> QED
      BY <3>2, <3>3, <3>4
  <2> QED
    BY <2>2, <2>5, <2>6, <2>7, <2>8 DEF WellFormed, d
<1> QED
  BY <1>2, <1>3

(* So do any number of them, for as long as the kernel takes them.         *)
LEMMA AfterWellFormed ==
    ASSUME NEW c, NEW ws \in Seq(FitWrite), WellFormed(c), {"limit", "soft"} \subseteq DOMAIN c
    PROVE  \A k \in 0..Len(ws) : Passes(c, ws, k) => WellFormed(AfterWrites(c, ws, k))
<1> DEFINE P(k) == Passes(c, ws, k) => WellFormed(AfterWrites(c, ws, k))
                                       /\ DOMAIN AfterWrites(c, ws, k) = DOMAIN c
           S    == {k \in Nat : k <= Len(ws) => P(k)}
<1>1. 0 \in S
  BY AfterWritesStep
<1>2. ASSUME NEW k \in Nat, k \in S
      PROVE  k + 1 \in S
  <2> SUFFICES ASSUME k + 1 <= Len(ws), Passes(c, ws, k + 1)
               PROVE  /\ WellFormed(AfterWrites(c, ws, k + 1))
                      /\ DOMAIN AfterWrites(c, ws, k + 1) = DOMAIN c
    OBVIOUS
  <2>1. k <= Len(ws) /\ k + 1 \in 1..Len(ws) /\ k + 1 \in 1..(k + 1) /\ (k + 1) - 1 = k
    OBVIOUS
  <2>2. Passes(c, ws, k) /\ Outcome(AfterWrites(c, ws, k), ws[k + 1]) = "OK"
    <3>1. \A i \in 1..k : i \in 1..(k + 1)
      OBVIOUS
    <3> QED
      BY <2>1, <3>1 DEF Passes
  <2>3. WellFormed(AfterWrites(c, ws, k)) /\ DOMAIN AfterWrites(c, ws, k) = DOMAIN c
    BY <1>2, <2>1, <2>2
  <2>4. AfterWrites(c, ws, k + 1) = Store(AfterWrites(c, ws, k), ws[k + 1])
    BY AfterWritesStep, ZenonT(60)
  <2>5. ws[k + 1] \in FitWrite
    BY <2>1, ElementOfSeq
  <2> QED
    BY <2>2, <2>3, <2>4, <2>5, StoreKeeps, StoreWellFormed
<1> HIDE DEF S
<1>3. Nat \subseteq S
  BY <1>1, <1>2, SetInduction
<1> QED
  BY <1>3 DEF S

(* The memory handler's writes fit.                                        *)
LEMMA OneFits ==
    ASSUME NEW f \in MemoryFile \cup {"refused"}, NEW v \in Int,
           f = "oom" => v \in Score,
           f \in {"dirty_limit", "dirty_bg_limit"} => v \in Nat
    PROVE  Write(f, v) \in Seq(FitWrite) /\ Optional(f, v) \in Seq(FitWrite)
<1>1. ASSUME NEW o \in BOOLEAN
      PROVE  [file |-> f, value |-> v, optional |-> o] \in FitWrite
  BY DEF FitWrite, Fitting
<1>2. ASSUME NEW x \in FitWrite
      PROVE  <<x>> \in Seq(FitWrite)
  OBVIOUS
<1> QED
  BY <1>1, <1>2, Zenon DEF Write, Optional

(* The values that SetDirty writes fit their files.                        *)
LEMMA SetDirtyFits ==
    ASSUME NEW s, NEW policy, \A f \in DOMAIN s : s[f] \in Int,
           \A f \in DOMAIN s \cap {"dirty_limit", "dirty_bg_limit"} : s[f] \in Nat
    PROVE  SetDirty(s, policy) \in Seq(FitWrite)
<1> DEFINE given(f)      == Unless(f \notin DOMAIN s, Write(f, s[f]))
           default(f, v) == Unless(f \in DOMAIN s, Default(policy, Optional(f, v)))
           last          == IF LimitGiven(s)
                            THEN default("dirty_limit", 0) \o default("dirty_bg_limit", 0)
                            ELSE default("dirty_ratio", 75) \o default("dirty_bg_ratio", 10)
           F == {"dirty_ratio", "dirty_bg_ratio", "dirty_limit", "dirty_bg_limit"}
<1>1. SetDirty(s, policy)
        = IF RatioGiven(s) /\ LimitGiven(s) THEN Refuse
          ELSE given("dirty_ratio") \o given("dirty_bg_ratio")
               \o given("dirty_limit") \o given("dirty_bg_limit") \o last
  BY DEF SetDirty, LimitGiven, RatioGiven
<1>2. F \subseteq MemoryFile /\ "oom" \notin F
  BY DEF MemoryFile
<1>3. Refuse \in Seq(FitWrite)
  BY OneFits DEF Refuse
<1>4. ASSUME NEW f \in F
      PROVE  given(f) \in Seq(FitWrite)
  <2>1. CASE f \in DOMAIN s
    <3>1. Write(f, s[f]) \in Seq(FitWrite)
      BY <1>2, <2>1, OneFits, Zenon
    <3> QED
      BY <2>1, <3>1 DEF Unless
  <2>2. CASE f \notin DOMAIN s
    BY <2>2 DEF Unless
  <2> QED
    BY <2>1, <2>2
<1>5. ASSUME NEW f \in F, NEW v \in Nat
      PROVE  default(f, v) \in Seq(FitWrite)
  <2>1. f # "oom" /\ f \in MemoryFile /\ v \in Int
    BY <1>2
  <2>2. Optional(f, v) \in Seq(FitWrite)
    BY <2>1, OneFits
  <2> QED
    BY <2>2 DEF Unless, Default
<1> HIDE DEF given, default
<1>6. last \in Seq(FitWrite)
  <2>1. /\ default("dirty_limit", 0) \in Seq(FitWrite)
        /\ default("dirty_bg_limit", 0) \in Seq(FitWrite)
        /\ default("dirty_ratio", 75) \in Seq(FitWrite)
        /\ default("dirty_bg_ratio", 10) \in Seq(FitWrite)
    BY <1>5, Zenon
  <2> QED
    BY <2>1
<1> HIDE DEF last
<1> QED
  BY <1>1, <1>3, <1>4, <1>6

(* The values that the memory handler writes fit their files.              *)
LEMMA MemoryFits ==
    ASSUME NEW s, NEW policy, NEW ws, ws = MemoryUpdate(s, policy),
           \A f \in DOMAIN s : s[f] \in Int,
           \A f \in DOMAIN s \cap {"dirty_limit", "dirty_bg_limit"} : s[f] \in Nat
    PROVE  ws \in Seq(FitWrite)
<1> DEFINE or(f, v, d) == Either(f, s, policy, v, d)
           oom   == OomWrites(s, policy)
           limit == LimitWrites(s, policy)
           memsw == MemswWrites(s, policy)
           soft  == SoftWrites(s, policy)
           comp  == CompWrites(s, policy)
           stale == StaleWrites(s, policy)
           kmem  == KmemWrites(s, policy)
           dirty == SetDirty(s, policy)
           F     == {"limit", "memsw", "soft", "comp", "stale", "kmem"}
<1>1. ws = oom \o limit \o memsw \o soft \o comp \o stale \o dirty \o kmem
  BY MemoryParts, ZenonT(60)
<1> USE DEF OomWrites, LimitWrites, MemswWrites, SoftWrites, CompWrites,
            StaleWrites, KmemWrites
<1>a. /\ oom = or("oom", ScoreWrite(s), Optional("oom", 5000))
      /\ limit = or("limit", Write("limit", ModifyLimit(s.limit)), Write("limit", -1))
      /\ memsw = or("memsw", Write("memsw", ModifyLimit(s.memsw)), Optional("memsw", -1))
      /\ soft = or("soft", Write("soft", ModifyLimit(s.soft)), Write("soft", 0))
      /\ comp = or("comp", Write("comp", s.comp), Optional("comp", 0))
      /\ stale = or("stale", Write("stale", s.stale), Optional("stale", 1))
      /\ kmem = or("kmem", Write("kmem", s.kmem), Optional("kmem", 0))
  OBVIOUS
<1>2. ASSUME NEW f, NEW v, NEW d \in Seq(FitWrite), f \in DOMAIN s => v \in Seq(FitWrite)
      PROVE  or(f, v, d) \in Seq(FitWrite)
  BY <1>2 DEF Either, Default, Unless
<1>3. F \subseteq MemoryFile /\ F \cap {"oom", "dirty_limit", "dirty_bg_limit"} = {}
      /\ "oom" \in MemoryFile
  BY DEF MemoryFile
<1>4. \A f \in F : \A v \in Int : Write(f, v) \in Seq(FitWrite) /\ Optional(f, v) \in Seq(FitWrite)
  BY <1>3, OneFits, Zenon
<1>5. \A f \in DOMAIN s : ModifyLimit(s[f]) \in Int
  BY UpdateAssumption DEF ModifyLimit
<1>6. dirty \in Seq(FitWrite)
  BY SetDirtyFits
<1>7. Optional("oom", 5000) \in Seq(FitWrite)
  <2>1. 5000 \in Score
    BY DEF Score
  <2> QED
    BY <1>3, <2>1, OneFits
<1>8. "oom" \in DOMAIN s => ScoreWrite(s) \in Seq(FitWrite)
  <2> DEFINE fits == s.oom \in Score
  <2>1. ScoreWrite(s) = IF fits THEN Optional("oom", s.oom) ELSE Refuse
    BY DEF ScoreWrite, Score
  <2>2. Refuse \in Seq(FitWrite)
    BY OneFits DEF Refuse
  <2>3. "oom" \in DOMAIN s /\ fits => Optional("oom", s.oom) \in Seq(FitWrite)
    BY <1>3, OneFits, SMTT(30)
  <2> HIDE DEF fits
  <2> QED
    BY <2>1, <2>2, <2>3
<1> HIDE DEF or, OomWrites, LimitWrites, MemswWrites, SoftWrites, CompWrites,
              StaleWrites, KmemWrites
<1>9. oom \in Seq(FitWrite)
  BY <1>a, <1>2, <1>7, <1>8, SMTT(30)
<1>10. limit \in Seq(FitWrite) /\ memsw \in Seq(FitWrite) /\ soft \in Seq(FitWrite)
  <2>1. /\ "limit" \in DOMAIN s => Write("limit", ModifyLimit(s.limit)) \in Seq(FitWrite)
        /\ "memsw" \in DOMAIN s => Write("memsw", ModifyLimit(s.memsw)) \in Seq(FitWrite)
        /\ "soft" \in DOMAIN s => Write("soft", ModifyLimit(s.soft)) \in Seq(FitWrite)
    BY <1>4, <1>5
  <2>2. /\ Write("limit", -1) \in Seq(FitWrite) /\ Optional("memsw", -1) \in Seq(FitWrite)
        /\ Write("soft", 0) \in Seq(FitWrite)
    BY <1>4, SMTT(30)
  <2> QED
    BY <1>a, <1>2, <2>1, <2>2
<1>11. comp \in Seq(FitWrite) /\ stale \in Seq(FitWrite) /\ kmem \in Seq(FitWrite)
  <2>1. /\ "comp" \in DOMAIN s => Write("comp", s.comp) \in Seq(FitWrite)
        /\ "stale" \in DOMAIN s => Write("stale", s.stale) \in Seq(FitWrite)
        /\ "kmem" \in DOMAIN s => Write("kmem", s.kmem) \in Seq(FitWrite)
    BY <1>4
  <2>2. /\ Optional("comp", 0) \in Seq(FitWrite) /\ Optional("stale", 1) \in Seq(FitWrite)
        /\ Optional("kmem", 0) \in Seq(FitWrite)
    BY <1>4
  <2> QED
    BY <1>a, <1>2, <2>1, <2>2
<1> HIDE DEF oom, limit, memsw, soft, comp, stale, kmem, dirty
<1> QED
  BY <1>1, <1>6, <1>9, <1>10, <1>11

(* So the container's memory cgroup is always well formed, if no negative  *)
(* dirty limit is asked for.                                               *)
DirtyLimitsNatural ==
    \A s \in Specs : "memory" \in DOMAIN s =>
        \A f \in DOMAIN s.memory \cap {"dirty_limit", "dirty_bg_limit"} : s.memory[f] \in Nat

SelfWellFormed == WellFormed(files.self)

(* Every step keeps the container's files well formed, the memory          *)
(* handler's step being the one that could not.                            *)
LEMMA WellFormedStep ==
    ASSUME DirtyLimitsNatural, UInv, SelfWellFormed, [Next]_vars
    PROVE  SelfWellFormed'
<1>1. CASE \E s \in Specs : Create(s)
  BY <1>1, NewWellFormed DEF Create, UInv, Shape, SelfWellFormed
<1>2. CASE Destroy
  BY <1>2, NewWellFormed DEF Destroy, UInv, Shape, SelfWellFormed
<1>3. CASE files' = files
  BY <1>3 DEF SelfWellFormed
<1>4. ASSUME NEW r \in Resource, Handle(r)
      PROVE  SelfWellFormed'
  <2> DEFINE self == files.self
             ws   == Writes(self, r, call)
  <2>1. PICK k \in 0..Len(ws) :
           Passes(self, ws, k) /\ files' = [files EXCEPT !.self = AfterWrites(self, ws, k)]
    BY <1>4, HandlerRuns
  <2>2. files'.self = AfterWrites(self, ws, k)
    BY <2>1, SMTT(30) DEF UInv, Shape
  <2>3. r \in DOMAIN call.spec /\ call.spec \in Specs
    BY <1>4 DEF UInv, Shape, Handle, Turn
  <2>4. {"limit", "soft"} \subseteq DOMAIN self
    BY DEF UInv, Shape, Supported
  <2>5. CASE r = "memory"
    <3> DEFINE s    == call.spec.memory
               mu   == MemoryUpdate(s, call.policy)
               only == Unless(~(call.op = "create"), CreateOnlySetup("memory", s))
    <3>1. ws = only \o mu
      BY <2>5, SMTT(30) DEF Writes
    <3>2. /\ \A f \in DOMAIN s : s[f] \in Int
          /\ \A f \in DOMAIN s \cap {"dirty_limit", "dirty_bg_limit"} : s[f] \in Nat
      BY <2>3, <2>5, UpdateAssumption DEF DirtyLimitsNatural
    <3>3. mu \in Seq(FitWrite)
      <4> HIDE DEF s
      <4> QED
        BY <3>2, MemoryFits
    <3>4. only \in Seq(FitWrite)
      BY OneFits DEF Unless, CreateOnlySetup, MemoryFile
    <3>5. ws \in Seq(FitWrite)
      <4> HIDE DEF mu, only, ws
      <4> QED
        BY <3>1, <3>3, <3>4, SMTT(30)
    <3> HIDE DEF ws
    <3> QED
      BY <2>1, <2>2, <2>4, <3>5, AfterWellFormed, SMTT(30) DEF SelfWellFormed
  <2>6. CASE r # "memory"
    <3>1. IsWrites(ws, FileOf[r] \cup {"refused"})
      BY <2>3, HandlerWrites, Zenon
    <3>2. "memory" \in Resource
      BY DEF Resource, Resources
    <3> HIDE DEF ws
    <3>3. /\ DOMAIN AfterWrites(self, ws, k) = DOMAIN self
          /\ Same(AfterWrites(self, ws, k), self, "memory")
      BY <2>6, <3>1, <3>2, AfterKeeps, OthersKeep, SMTT(30)
    <3>4. \A f \in MemoryFile \cap DOMAIN self : AfterWrites(self, ws, k)[f] = self[f]
      BY <3>3 DEF Same, FileOf
    <3> QED
      BY <2>2, <2>4, <3>3, <3>4 DEF SelfWellFormed, WellFormed, MemoryFile, Twin
  <2> QED
    BY <2>5, <2>6
<1> QED
  BY <1>1, <1>2, <1>3, <1>4 DEF Next, Update, Return, vars

(* The files are well formed in every reachable state.                     *)
LEMMA AlwaysWellFormed ==
    ASSUME DirtyLimitsNatural
    PROVE  Spec => [](UInv /\ SelfWellFormed)
<1>1. Init => SelfWellFormed
  BY NewWellFormed DEF Init, SelfWellFormed
<1>2. UInv /\ SelfWellFormed /\ [Next]_vars => (UInv /\ SelfWellFormed)'
  BY Inductive, WellFormedStep, SMTT(30)
<1> QED
  BY <1>1, <1>2, InitUInv, PTL DEF Spec

(* Spec's own report, given back: every file it names there is, it names a *)
(* limit or a ratio, and each of its values is the one in the file.        *)
LEMMA OwnSpec ==
    ASSUME NEW c, WellFormed(c), NEW s, s = MemorySpec(c), ~Mixed(s),
           {"limit", "soft"} \subseteq DOMAIN c
    PROVE  /\ DOMAIN s \subseteq MemoryFile \cap DOMAIN c
           /\ {"limit", "soft"} \subseteq DOMAIN s /\ "memsw" \notin DOMAIN s
           /\ \A f \in DOMAIN s : s[f] = c[f]
           /\ ~(LimitGiven(s) /\ RatioGiven(s))
           /\ ScoreFits(s)
<1> DEFINE dl == Dirty(c, "dirty_limit", "dirty_ratio")
           bl == Dirty(c, "dirty_bg_limit", "dirty_bg_ratio")
<1>1. /\ DOMAIN s = {g \in {"oom", "limit", "soft", "comp", "stale", "kmem", dl, bl} :
                        g \in DOMAIN c}
      /\ \A f \in DOMAIN s : s[f] = c[f]
  BY DEF MemorySpec
<1>2. dl \in {"dirty_limit", "dirty_ratio"} /\ bl \in {"dirty_bg_limit", "dirty_bg_ratio"}
  BY DEF Dirty
<1>3. /\ dl = "dirty_limit" => dl \in DOMAIN c
      /\ bl = "dirty_bg_limit" => bl \in DOMAIN c
  BY DEF Dirty
<1> HIDE DEF dl, bl
<1>4. ~(LimitGiven(s) /\ RatioGiven(s))
  BY <1>1, <1>2, <1>3 DEF LimitGiven, RatioGiven, Mixed
<1>5. ScoreFits(s)
  <2> DEFINE fits == s.oom \in Score
  <2>1. ScoreWrite(s) = IF fits THEN Optional("oom", s.oom) ELSE Refuse
    BY DEF ScoreWrite, Score
  <2>2. "oom" \in DOMAIN s => fits
    BY <1>1 DEF WellFormed
  <2> HIDE DEF fits
  <2> QED
    BY <2>1, <2>2 DEF ScoreFits
<1> QED
  BY <1>1, <1>2, <1>4, <1>5 DEF MemoryFile

(* The values it leaves are the ones there were.                           *)
LEMMA OwnSpecSame ==
    ASSUME NEW c, WellFormed(c), NEW s, s = MemorySpec(c), ~Mixed(s),
           {"limit", "soft"} \subseteq DOMAIN c,
           NEW f \in (MemoryFile \ {"memsw"}) \cap DOMAIN c
    PROVE  AfterAll(c, MemoryUpdate(s, "REPLACE"))[f] = c[f]
<1> DEFINE D  == DOMAIN c
           mu == MemoryUpdate(s, "REPLACE")
           R  == {g \in D : \E h \in Written(s, "REPLACE") \cap D : Touches(h, g)}
<1>1. /\ DOMAIN s \subseteq MemoryFile \cap DOMAIN c
      /\ {"limit", "soft"} \subseteq DOMAIN s /\ "memsw" \notin DOMAIN s
      /\ \A g \in DOMAIN s : s[g] = c[g]
      /\ ~(LimitGiven(s) /\ RatioGiven(s))
      /\ ScoreFits(s)
  BY OwnSpec, SMTT(30)
<1>2. Determines(mu, D, R, MemoryValue(s))
  BY <1>1, MemorySettles, SMTT(30) DEF Settles
<1>3. CASE f \in DOMAIN s
  <2>1. f \in R
    BY <1>3, SMTT(30) DEF Written, Touches
  <2>2. AfterAll(c, mu)[f] = MemoryValue(s)[f]
    BY <1>2, <2>1 DEF Determines
  <2>3. MemoryValue(s)[f] = c[f]
    BY <1>1, <1>3, UpdateAssumption, SMTT(30)
       DEF MemoryValue, Stored, ModifyLimit, WellFormed
  <2> QED
    BY <2>2, <2>3
<1>4. CASE f \notin DOMAIN s
  <2>1. /\ f \in {"dirty_limit", "dirty_bg_limit", "dirty_ratio", "dirty_bg_ratio"}
        /\ c[f] = 0
    BY <1>4 DEF MemorySpec, Dirty, MemoryFile, Twin, WellFormed
  <2>2. CASE Twin[f] \in DOMAIN s
    <3>1. f \in R
      BY <1>1, <2>1, <2>2 DEF Written, Touches, Twin
    <3>2. AfterAll(c, mu)[f] = MemoryValue(s)[f]
      BY <1>2, <3>1 DEF Determines
    <3>3. MemoryValue(s)[f] = 0
      BY <1>1, <1>4, <2>1, <2>2, SMTT(30) DEF MemoryValue, LimitGiven, RatioGiven, Twin
    <3> QED
      BY <2>1, <3>2, <3>3, SMTT(30)
  <2>3. CASE Twin[f] \notin DOMAIN s
    <3>1. f \in {"dirty_limit", "dirty_bg_limit"} /\ Twin[f] \notin D
      BY <1>4, <2>1, <2>3 DEF MemorySpec, Dirty, Twin
    <3>2. ~LimitGiven(s)
      BY <1>4, <3>1, SMTT(30) DEF LimitGiven, Mixed
    <3>3. IsWrites(mu, Written(s, "REPLACE"))
      BY <1>1, MemorySettles, ZenonT(60) DEF Settles
    <3>4. \A g \in Written(s, "REPLACE") \cap D : ~Touches(g, f)
      BY <1>4, <3>1, <3>2, SMTT(30) DEF Written, Touches, Twin
    <3>5. Len(mu) \in 0..Len(mu)
      BY <3>3, WritesAt, SMTT(30)
    <3> HIDE DEF mu
    <3>6. AfterAll(c, mu)[f] = c[f]
      BY <3>3, <3>4, <3>5, AfterKeeps DEF AfterAll
    <3> QED
      BY <3>6 DEF mu
  <2> QED
    BY <2>2, <2>3, SMTT(30)
<1> QED
  BY <1>3, <1>4, SMTT(30)

(* Every part of the update but the two limits passes wherever the files   *)
(* are those of c.                                                         *)
Good(ws, c) == IsWrites(ws, MemoryFile \cup {"refused"}) /\ PassesIn(ws, DOMAIN c)

(* A good part may follow writes that pass.                                *)
LEMMA GoodFollows ==
    ASSUME NEW c, NEW a, NEW b, AllPass(c, a), IsWrites(a, MemoryFile \cup {"refused"}),
           Good(b, c)
    PROVE  AllPass(c, a \o b) /\ IsWrites(a \o b, MemoryFile \cup {"refused"})
<1> DEFINE W == MemoryFile \cup {"refused"}
<1>1. IsWrites(b, W) /\ PassesIn(b, DOMAIN c)
  BY DEF Good
<1> HIDE DEF W
<1>2. IsWrites(a, W)
  BY SMTT(30) DEF W
<1>3. DOMAIN AfterAll(c, a) = DOMAIN c
  BY <1>2, AfterKeeps, WritesAt DEF AfterAll
<1>4. AllPass(AfterAll(c, a), b)
  BY <1>1, <1>3 DEF PassesIn
<1>5. AllPass(c, a \o b)
  BY <1>1, <1>2, <1>4, BothPass
<1>6. IsWrites(a \o b, W)
  BY <1>1, <1>2, MoreWrites
<1> QED
  BY <1>5, <1>6 DEF W

(* A value that is written back to its own file, or else the default.      *)
LEMMA OwnPartGood ==
    ASSUME NEW c, NEW s, DOMAIN s \subseteq DOMAIN c, NEW x, NEW y,
           NEW f \in {"oom", "comp", "stale", "kmem"},
           NEW ws \in {Write(f, x), Optional(f, x)}
    PROVE  Good(Either(f, s, "REPLACE", ws, Optional(f, y)), c)
<1> DEFINE W == MemoryFile \cup {"refused"}
           D == DOMAIN c
<1>1. f \in W /\ f \notin {"refused", "limit", "memsw", "soft"}
  BY DEF MemoryFile
<1> HIDE DEF W, D
<1>2. \A z : /\ IsWrites(Write(f, z), W) /\ IsWrites(Optional(f, z), W)
             /\ f \in D => PassesIn(Write(f, z), D)
             /\ PassesIn(Optional(f, z), D)
  BY <1>1, OneWrite, OnePassesIn
<1>3. Either(f, s, "REPLACE", ws, Optional(f, y))
        = IF f \in DOMAIN s THEN ws ELSE Optional(f, y)
  BY DEF Either, Default, Unless
<1>4. f \in DOMAIN s => f \in D
  BY DEF D
<1> QED
  BY <1>2, <1>3, <1>4 DEF Good, W, D

(* Of a spec whose fields the kernel has, the parts of the memory handler  *)
(* other than the limits are good.                                         *)
LEMMA OwnPartsGood ==
    ASSUME NEW c, NEW s, DOMAIN s \subseteq DOMAIN c, ScoreFits(s),
           ~(LimitGiven(s) /\ RatioGiven(s))
    PROVE  /\ Good(OomWrites(s, "REPLACE"), c) /\ Good(CompWrites(s, "REPLACE"), c)
           /\ Good(StaleWrites(s, "REPLACE"), c) /\ Good(KmemWrites(s, "REPLACE"), c)
           /\ Good(SetDirty(s, "REPLACE"), c)
<1>1. OomWrites(s, "REPLACE")
        = Either("oom", s, "REPLACE", Optional("oom", s.oom), Optional("oom", 5000))
  BY SMTT(30) DEF OomWrites, Either, ScoreFits
<1>2. Good(OomWrites(s, "REPLACE"), c)
  BY <1>1, OwnPartGood, SMTT(30)
<1>3. Good(CompWrites(s, "REPLACE"), c)
  BY OwnPartGood DEF CompWrites
<1>4. Good(StaleWrites(s, "REPLACE"), c)
  BY OwnPartGood, SMTT(30) DEF StaleWrites
<1>5. Good(KmemWrites(s, "REPLACE"), c)
  BY OwnPartGood, SMTT(30) DEF KmemWrites
<1>6. Good(SetDirty(s, "REPLACE"), c)
  <2>1. IsWrites(SetDirty(s, "REPLACE"), MemoryFile \cup {"refused"})
    BY SetDirtyWrites DEF MemoryFile
  <2>2. PassesIn(SetDirty(s, "REPLACE"), DOMAIN c)
    BY SetDirtyPasses
  <2> QED
    BY <2>1, <2>2 DEF Good
<1> QED
  BY <1>2, <1>3, <1>4, <1>5, <1>6, SMTT(30)

(* The kernel's order of the two limits holds at each write: the limit     *)
(* goes back within the limit of memory and swap, which is raised only     *)
(* after it.                                                               *)
LEMMA LimitsPass ==
    ASSUME NEW c, WellFormed(c), NEW a, Good(a, c), IsWrites(a, {"oom"}),
           {"limit", "soft"} \subseteq DOMAIN c,
           NEW limit, limit = Write("limit", ModifyLimit(c["limit"])),
           NEW memsw, memsw = Optional("memsw", -1)
    PROVE  /\ AllPass(c, a \o limit \o memsw)
           /\ IsWrites(a \o limit \o memsw, MemoryFile \cup {"refused"})
<1> DEFINE W == MemoryFile \cup {"refused"}
           D == DOMAIN c
           v == ModifyLimit(c["limit"])
           p == a \o limit
<1>1. /\ v \in Int /\ c["limit"] \in Int
      /\ Stored("limit", v) = c["limit"] /\ ~(v >= kint64max)
      /\ "memsw" \in D => ~(c["limit"] > c["memsw"])
  BY UpdateAssumption, SMTT(30) DEF Stored, ModifyLimit, WellFormed
<1>2. Stored("memsw", -1) = kint64max /\ ~(-1 >= kint64max) /\ ~(kint64max < c["limit"])
  BY UpdateAssumption DEF Stored, WellFormed
<1>3. limit = Write("limit", v)
  OBVIOUS
<1>4. {"limit", "memsw"} \subseteq W
  BY DEF MemoryFile
<1>5. IsWrites(a, W) /\ PassesIn(a, D)
  BY DEF Good
<1> HIDE DEF W, D, v
<1>6. IsWrites(limit, W) /\ IsWrites(memsw, W)
  BY <1>3, <1>4, OneWrite, SMTT(30)
<1>7. /\ DOMAIN AfterAll(c, a) = D
      /\ "memsw" \in D => AfterAll(c, a)["memsw"] = c["memsw"]
  <2>1. Len(a) \in 0..Len(a)
    BY <1>5, WritesAt, SMTT(30)
  <2>2. "memsw" # "oom" /\ ~Touches("oom", "memsw")
    BY DEF Touches, Twin
  <2> QED
    BY <2>1, <2>2, AfterKeeps, SMTT(30) DEF AfterAll, D
<1>8. AllPass(c, p) /\ IsWrites(p, W)
  <2> DEFINE d == AfterAll(c, a)
  <2> HIDE DEF d
  <2>1. Outcome(d, [file |-> "limit", value |-> v, optional |-> FALSE]) = "OK"
    BY <1>1, <1>7 DEF Outcome, Rejects, d, D
  <2>2. AllPass(d, limit)
    BY <1>3, <2>1, OnePasses, ZenonT(60)
  <2>3. AllPass(c, a)
    BY <1>5 DEF PassesIn, D
  <2> QED
    BY <1>5, <1>6, <2>2, <2>3, BothPass, MoreWrites, SMTT(30) DEF d
<1>9. DOMAIN AfterAll(c, p) = D /\ AfterAll(c, p)["limit"] = c["limit"]
  <2> DEFINE r == [f \in {"limit"} |-> c["limit"]]
  <2>1. r["limit"] = Stored("limit", v) /\ "limit" \notin DOMAIN Twin
    BY <1>1 DEF Twin
  <2>2. r["limit"] = c["limit"]
    BY SMTT(30)
  <2> HIDE DEF r
  <2>3. Determines(limit, D, Reach("limit", D), r)
    BY <1>3, <2>1, WriteDetermines, SMTT(30)
  <2>4. Determines(p, D, Reach("limit", D), r)
    BY <1>5, <1>6, <2>3, LaterDetermines
  <2>5. "limit" \in Reach("limit", D)
    BY DEF Reach, Touches, D
  <2> HIDE DEF p
  <2>6. AfterAll(c, p)["limit"] = r["limit"]
    BY <2>4, <2>5, SMTT(30) DEF Determines, D
  <2>7. DOMAIN AfterAll(c, p) = D
    BY <1>8, AfterKeeps, WritesAt, SMTT(30) DEF AfterAll, D
  <2> QED
    BY <2>2, <2>6, <2>7
<1> HIDE DEF p
<1>10. AllPass(c, p \o memsw) /\ IsWrites(p \o memsw, W)
  <2> DEFINE d == AfterAll(c, p)
  <2> HIDE DEF d
  <2>1. Outcome(d, [file |-> "memsw", value |-> -1, optional |-> TRUE]) = "OK"
    BY <1>2, <1>9 DEF Outcome, Rejects, d
  <2>2. AllPass(d, memsw)
    BY <2>1, OnePasses, Zenon
  <2> QED
    BY <1>6, <1>8, <2>2, BothPass, MoreWrites, SMTT(30) DEF d
<1> QED
  BY <1>10, SMTT(30) DEF p, W

(* So the update passes.                                                   *)
LEMMA OwnSpecPasses ==
    ASSUME NEW c, WellFormed(c), NEW s, s = MemorySpec(c), ~Mixed(s),
           {"limit", "soft"} \subseteq DOMAIN c
    PROVE  AllPass(c, MemoryUpdate(s, "REPLACE"))
<1>1. PICK oom, limit, memsw, soft, comp, stale, dirty, kmem :
         /\ oom = OomWrites(s, "REPLACE") /\ limit = LimitWrites(s, "REPLACE")
         /\ memsw = MemswWrites(s, "REPLACE") /\ soft = SoftWrites(s, "REPLACE")
         /\ comp = CompWrites(s, "REPLACE") /\ stale = StaleWrites(s, "REPLACE")
         /\ dirty = SetDirty(s, "REPLACE") /\ kmem = KmemWrites(s, "REPLACE")
  OBVIOUS
<1>2. MemoryUpdate(s, "REPLACE")
        = oom \o limit \o memsw \o soft \o comp \o stale \o dirty \o kmem
  BY <1>1, MemoryParts, ZenonT(60)
<1>3. /\ DOMAIN s \subseteq MemoryFile \cap DOMAIN c
      /\ {"limit", "soft"} \subseteq DOMAIN s /\ "memsw" \notin DOMAIN s
      /\ \A f \in DOMAIN s : s[f] = c[f]
      /\ ~(LimitGiven(s) /\ RatioGiven(s))
      /\ ScoreFits(s)
  BY OwnSpec, SMTT(30)
<1>4. /\ limit = Write("limit", ModifyLimit(c["limit"]))
      /\ memsw = Optional("memsw", -1)
      /\ soft = Write("soft", ModifyLimit(c["soft"]))
  BY <1>1, <1>3, SMTT(60) DEF LimitWrites, MemswWrites, SoftWrites, Either, Default,
     Unless
<1>5. /\ Good(oom, c) /\ Good(comp, c) /\ Good(stale, c) /\ Good(kmem, c)
      /\ Good(dirty, c)
  BY <1>1, <1>3, OwnPartsGood, ZenonT(60)
<1>6. Good(soft, c)
  <2>1. IsWrites(Write("soft", ModifyLimit(c["soft"])), MemoryFile \cup {"refused"})
    BY OneWrite, SMTT(30) DEF MemoryFile
  <2>2. ~(ModifyLimit(c["soft"]) >= kint64max)
    BY UpdateAssumption DEF ModifyLimit, WellFormed
  <2>3. PassesIn(Write("soft", ModifyLimit(c["soft"])), DOMAIN c)
    BY <2>2, OnePassesIn, SMTT(30)
  <2> QED
    BY <1>4, <2>1, <2>3, SMTT(30) DEF Good
<1>7. IsWrites(oom, {"oom"})
  BY <1>1, <1>3, OneWrite, SMTT(30) DEF OomWrites, Either, Default, Unless, ScoreFits
<1> DEFINE W  == MemoryFile \cup {"refused"}
           p3 == oom \o limit \o memsw
           p4 == p3 \o soft
           p5 == p4 \o comp
           p6 == p5 \o stale
           p7 == p6 \o dirty
<1>8. AllPass(c, p3) /\ IsWrites(p3, W)
  BY <1>4, <1>5, <1>7, LimitsPass, SMTT(30)
<1>9. MemoryUpdate(s, "REPLACE") = p7 \o kmem
  BY <1>2, SMTT(30)
<1> HIDE DEF p3
<1>10. AllPass(c, p4) /\ IsWrites(p4, W)
  BY <1>6, <1>8, GoodFollows
<1> HIDE DEF p4
<1>11. AllPass(c, p5) /\ IsWrites(p5, W)
  BY <1>5, <1>10, GoodFollows
<1> HIDE DEF p5
<1>12. AllPass(c, p6) /\ IsWrites(p6, W)
  BY <1>5, <1>11, GoodFollows, SMTT(30)
<1> HIDE DEF p6
<1>13. AllPass(c, p7) /\ IsWrites(p7, W)
  BY <1>5, <1>12, GoodFollows
<1> HIDE DEF p7
<1> QED
  BY <1>5, <1>9, <1>13, GoodFollows, Zenon

(* OwnSpecKeeps (MemoryResourceHandler::Spec and Update): what Spec        *)
(* reports of the memory can be given to a REPLACE update, which passes    *)
(* and keeps every file but the swap limit, after any calls, failed ones   *)
(* included, if no spec gives a negative dirty limit.                      *)
THEOREM OwnSpecIsKept ==
    ASSUME DirtyLimitsNatural
    PROVE  Spec => []OwnSpecKeeps
<1>1. ASSUME UInv, SelfWellFormed
      PROVE  OwnSpecKeeps
  <2> DEFINE c  == files.self
             s  == MemorySpec(c)
             ws == MemoryUpdate(s, "REPLACE")
  <2>1. {"limit", "soft"} \subseteq DOMAIN c /\ WellFormed(c)
    BY <1>1 DEF UInv, Shape, Supported, SelfWellFormed
  <2>2. ~Mixed(s) => Passes(c, ws, Len(ws))
    BY <2>1, OwnSpecPasses, SMTT(30) DEF AllPass
  <2>3. ~Mixed(s) => \A f \in (MemoryFile \ {"memsw"}) \cap DOMAIN c : AfterAll(c, ws)[f] = c[f]
    BY <2>1, OwnSpecSame
  <2> HIDE DEF s, ws
  <2> QED
    BY <2>2, <2>3 DEF OwnSpecKeeps, s, ws
<1>2. UInv /\ SelfWellFormed => OwnSpecKeeps
  BY <1>1
<1> QED
  BY <1>2, AlwaysWellFormed, PTL
=============================================================================
