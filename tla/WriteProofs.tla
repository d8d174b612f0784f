---------------------------- MODULE WriteProofs -----------------------------
(***************************************************************************)
(* Proofs about the writes of ResourceUpdate's handlers, for all           *)
(* specifications and kernels: which files a sequence of writes can touch, *)
(* what it leaves in them whatever was there, and that writes one after    *)
(* the other do what both do.  UpdateProofs has what follows for the calls.*)
(***************************************************************************)
EXTENDS ResourceUpdate, WellFoundedInduction, TLAPS

-----------------------------------------------------------------------------
(* Sequences: an element, a larger set of elements, a function as one.     *)
LEMMA ElementOfSeq ==
    ASSUME NEW S, NEW s \in Seq(S), NEW i \in 1..Len(s)
    PROVE  s[i] \in S
  OBVIOUS

(* Sequences over a set are sequences over a larger one.                   *)
LEMMA SeqMonotonic ==
    ASSUME NEW S, NEW T, S \subseteq T
    PROVE  Seq(S) \subseteq Seq(T)
  OBVIOUS

(* A function on 1..n is a sequence.                                       *)
LEMMA SeqOf ==
    ASSUME NEW S, NEW n \in Nat, NEW s \in [1..n -> S]
    PROVE  s \in Seq(S)
  OBVIOUS

-----------------------------------------------------------------------------
(* The order of the natural numbers, which is well founded.                *)
Less == {ij \in Nat \X Nat : ij[1] < ij[2]}

(* Induction over the natural numbers, for a set: a set that has 0 and     *)
(* with every number the next one has them all, since a least number that  *)
(* it lacks would have a predecessor.                                      *)
LEMMA SetInduction ==
    ASSUME NEW S, 0 \in S, \A n \in Nat : n \in S => n + 1 \in S
    PROVE  Nat \subseteq S
<1> DEFINE T == Nat \ S
<1>1. SUFFICES ASSUME T # {} PROVE FALSE
  OBVIOUS
<1>2. IsWellFoundedOn(Less, Nat)
  BY NatLessThanWellFounded, Zenon DEF Less, OpToRel
<1>3. T \subseteq Nat
  OBVIOUS
<1>4. PICK x \in T : \A y \in T : <<y, x>> \notin Less
  <2> HIDE DEF T
  <2> QED
    BY <1>1, <1>2, <1>3, WFMin, Zenon
<1>5. x # 0 /\ x - 1 \in Nat /\ x \in Nat
  OBVIOUS
<1>6. <<x - 1, x>> \in Less
  BY <1>5 DEF Less
<1>7. x - 1 \in S
  BY <1>4, <1>5, <1>6
<1> QED
  BY <1>5, <1>7

(* The files after n writes, one after the other: what AfterWrites, which  *)
(* is defined by recursion, must be.                                       *)
IsRun(g, c, ws, n) ==
    /\ g[0] = c
    /\ \A i \in 1..n : g[i] = Store(g[i - 1], ws[i])

(* Runs agree as far as they go.                                           *)
LEMMA RunsAgree ==
    ASSUME NEW c, NEW ws, NEW g, NEW h, NEW n \in Nat, NEW m \in Nat,
           IsRun(g, c, ws, n), IsRun(h, c, ws, m)
    PROVE  \A i \in Nat : i <= n /\ i <= m => g[i] = h[i]
<1> DEFINE S == {i \in Nat : i <= n /\ i <= m => g[i] = h[i]}
<1>1. 0 \in S
  BY DEF IsRun
<1>2. ASSUME NEW i \in Nat, i \in S
      PROVE  i + 1 \in S
  <2> SUFFICES ASSUME i + 1 <= n, i + 1 <= m
               PROVE  g[i + 1] = h[i + 1]
    OBVIOUS
  <2>1. i + 1 \in 1..n /\ i + 1 \in 1..m /\ (i + 1) - 1 = i /\ g[i] = h[i]
    BY <1>2
  <2>2. /\ g[i + 1] = Store(g[(i + 1) - 1], ws[i + 1])
        /\ h[i + 1] = Store(h[(i + 1) - 1], ws[i + 1])
    BY <2>1 DEF IsRun
  <2> QED
    BY <2>1, <2>2
<1> HIDE DEF S
<1>3. Nat \subseteq S
  BY <1>1, <1>2, SetInduction
<1> QED
  BY <1>3 DEF S

(* There are runs of every length.                                         *)
LEMMA RunExists ==
    ASSUME NEW c, NEW ws
    PROVE  \A n \in Nat : \E g : IsRun(g, c, ws, n)
<1> DEFINE S == {n \in Nat : \E g : IsRun(g, c, ws, n)}
<1>1. 0 \in S
  <2>1. IsRun([i \in {0} |-> c], c, ws, 0)
    BY DEF IsRun
  <2> QED
    BY <2>1
<1>2. ASSUME NEW n \in Nat, n \in S
      PROVE  n + 1 \in S
  <2>1. PICK g : IsRun(g, c, ws, n)
    BY <1>2
  <2> DEFINE h == [i \in 0..(n + 1) |->
                     IF i = n + 1 THEN Store(g[n], ws[n + 1]) ELSE g[i]]
  <2>2. h[0] = c
    BY <2>1 DEF IsRun
  <2>3. ASSUME NEW i \in 1..(n + 1)
        PROVE  h[i] = Store(h[i - 1], ws[i])
    <3>1. i - 1 \in 0..(n + 1) /\ i - 1 # n + 1 /\ i \in 0..(n + 1)
      OBVIOUS
    <3>2. h[i - 1] = g[i - 1]
      BY <3>1
    <3>3. CASE i = n + 1
      <4>1. i - 1 = n
        BY <3>3
      <4> QED
        BY <3>1, <3>2, <3>3, <4>1
    <3>4. CASE i # n + 1
      <4>1. i \in 1..n
        BY <3>4
      <4> QED
        BY <2>1, <3>1, <3>2, <3>4, <4>1 DEF IsRun
    <3> QED
      BY <3>3, <3>4
  <2>4. IsRun(h, c, ws, n + 1)
    <3> HIDE DEF h
    <3> QED
      BY <2>2, <2>3 DEF IsRun
  <2> QED
    BY <2>4
<1> HIDE DEF S
<1>3. Nat \subseteq S
  BY <1>1, <1>2, SetInduction
<1> QED
  BY <1>3 DEF S

(* So the recursion of AfterWrites defines what it seems to.               *)
LEMMA AfterWritesStep ==
    ASSUME NEW c, NEW ws
    PROVE  /\ AfterWrites(c, ws, 0) = c
           /\ \A k \in Nat : AfterWrites(c, ws, k + 1)
                               = Store(AfterWrites(c, ws, k), ws[k + 1])
<1> DEFINE run(n) == CHOOSE g : IsRun(g, c, ws, n)
           F(g)   == [i \in Nat |-> IF i = 0 THEN c ELSE Store(g[i - 1], ws[i])]
           f      == [n \in Nat |-> run(n)[n]]
           after  == CHOOSE g : g = F(g)
<1>1. \A n \in Nat : IsRun(run(n), c, ws, n)
  BY RunExists
<1>2. ASSUME NEW n \in Nat, n # 0
      PROVE  f[n] = Store(f[n - 1], ws[n])
  <2>1. n - 1 \in Nat /\ n \in 1..n /\ n - 1 <= n /\ n - 1 <= n - 1
    BY <1>2
  <2>2. run(n)[n] = Store(run(n)[n - 1], ws[n])
    BY <1>1, <2>1 DEF IsRun
  <2>3. run(n)[n - 1] = run(n - 1)[n - 1]
    <3> HIDE DEF run
    <3> QED
      BY <1>1, <2>1, RunsAgree
  <2> QED
    BY <2>1, <2>2, <2>3
<1>3. f[0] = c
  <2>1. run(0)[0] = c
    BY <1>1 DEF IsRun
  <2> QED
    BY <2>1
<1>4. f = F(f)
  <2>1. f = [n \in Nat |-> f[n]]
    OBVIOUS
  <2>2. \A n \in Nat : f[n] = IF n = 0 THEN c ELSE Store(f[n - 1], ws[n])
    <3> HIDE DEF f
    <3> QED
      BY <1>2, <1>3
  <2> HIDE DEF f
  <2> QED
    BY <2>1, <2>2
<1>5. after = F(after)
  <2> HIDE DEF f, F
  <2> QED
    BY <1>4
<1>6. ASSUME NEW k
      PROVE  AfterWrites(c, ws, k) = after[k]
  BY DEF AfterWrites
<1>7. after[0] = c
  <2> HIDE DEF after
  <2> QED
    BY <1>5
<1>8. ASSUME NEW k \in Nat
      PROVE  after[k + 1] = Store(after[k], ws[k + 1])
  <2>1. k + 1 # 0 /\ k + 1 \in Nat /\ (k + 1) - 1 = k
    OBVIOUS
  <2> HIDE DEF after
  <2>2. after[k + 1] = Store(after[(k + 1) - 1], ws[k + 1])
    BY <1>5, <2>1
  <2> QED
    BY <2>1, <2>2
<1> HIDE DEF after
<1> QED
  BY <1>6, <1>7, <1>8

-----------------------------------------------------------------------------
(* ws is a sequence of writes to files of W.                               *)
IsWrites(ws, W) ==
    \E V : ws \in Seq([file : W, value : V, optional : BOOLEAN])

(* Each write of such a sequence is to a file of W.                        *)
LEMMA WritesAt ==
    ASSUME NEW ws, NEW W, IsWrites(ws, W)
    PROVE  /\ Len(ws) \in Nat
           /\ \A i \in 1..Len(ws) : ws[i].file \in W
<1>1. PICK V : ws \in Seq([file : W, value : V, optional : BOOLEAN])
  BY Zenon DEF IsWrites
<1> DEFINE R == [file : W, value : V, optional : BOOLEAN]
<1>2. \A w \in R : w.file \in W
  OBVIOUS
<1>3. Len(ws) \in Nat /\ \A i \in 1..Len(ws) : ws[i] \in R
  <2>1. ws \in Seq(R)
    BY <1>1
  <2> HIDE DEF R
  <2> QED
    BY <2>1, ElementOfSeq
<1> QED
  BY <1>2, <1>3

(* The handler that has nothing to write.                                  *)
LEMMA NoWrites ==
    ASSUME NEW W
    PROVE  IsWrites(<<>>, W)
  BY DEF IsWrites

(* A controller call that writes one file, or tolerates that it is         *)
(* missing.                                                                *)
LEMMA OneWrite ==
    ASSUME NEW W, NEW f \in W, NEW v
    PROVE  IsWrites(Write(f, v), W) /\ IsWrites(Optional(f, v), W)
<1> DEFINE R == [file : W, value : {v}, optional : BOOLEAN]
<1>1. Write(f, v) \in Seq(R) /\ Optional(f, v) \in Seq(R)
  BY DEF Write, Optional
<1> QED
  BY <1>1, Zenon DEF IsWrites

(* A handler that makes some writes and then others.                       *)
LEMMA MoreWrites ==
    ASSUME NEW W, NEW a, NEW b, IsWrites(a, W), IsWrites(b, W)
    PROVE  IsWrites(a \o b, W)
<1>1. PICK V : a \in Seq([file : W, value : V, optional : BOOLEAN])
  BY Zenon DEF IsWrites
<1>2. PICK U : b \in Seq([file : W, value : U, optional : BOOLEAN])
  BY Zenon DEF IsWrites
<1> DEFINE R == [file : W, value : U \cup V, optional : BOOLEAN]
<1>3. a \in Seq(R)
  <2>1. [file : W, value : V, optional : BOOLEAN] \subseteq R
    OBVIOUS
  <2> HIDE DEF R
  <2> QED
    BY <1>1, <2>1, SeqMonotonic, Zenon
<1>4. b \in Seq(R)
  <2>1. [file : W, value : U, optional : BOOLEAN] \subseteq R
    OBVIOUS
  <2> HIDE DEF R
  <2> QED
    BY <1>2, <2>1, SeqMonotonic, Zenon
<1>5. a \o b \in Seq(R)
  <2> HIDE DEF R
  <2> QED
    BY <1>3, <1>4
<1> QED
  BY <1>5, Zenon DEF IsWrites

(* Writes to some files are writes to any larger set of files.             *)
LEMMA MoreFiles ==
    ASSUME NEW W, NEW X, NEW ws, IsWrites(ws, W), W \subseteq X
    PROVE  IsWrites(ws, X)
<1>1. PICK V : ws \in Seq([file : W, value : V, optional : BOOLEAN])
  BY Zenon DEF IsWrites
<1>2. [file : W, value : V, optional : BOOLEAN] \subseteq [file : X, value : V, optional : BOOLEAN]
  OBVIOUS
<1>3. ws \in Seq([file : X, value : V, optional : BOOLEAN])
  BY <1>1, <1>2, SeqMonotonic, Zenon
<1> QED
  BY <1>3, Zenon DEF IsWrites

(* The files that a write to g changes: g and its twin.                    *)
Touches(g, f) == g = f \/ (f \in DOMAIN Twin /\ g = Twin[f])

(* A write changes its file and the twin of that, and no other; it does    *)
(* not make or remove files.                                               *)
LEMMA StoreKeeps ==
    ASSUME NEW c, NEW w
    PROVE  /\ DOMAIN Store(c, w) = DOMAIN c
           /\ \A f \in DOMAIN c :
                 (w.file \in DOMAIN c => ~Touches(w.file, f)) => Store(c, w)[f] = c[f]
<1>1. DOMAIN Store(c, w) = DOMAIN c
  BY DEF Store
<1>2. ASSUME NEW f \in DOMAIN c, w.file \in DOMAIN c, ~Touches(w.file, f)
      PROVE  Store(c, w)[f] = c[f]
  <2>1. w.file \in DOMAIN Twin => Twin[w.file] # f
    BY <1>2 DEF Touches, Twin
  <2>2. w.file # f
    BY <1>2 DEF Touches
  <2> QED
    BY <2>1, <2>2 DEF Store
<1>3. w.file \notin DOMAIN c => Store(c, w) = c
  BY DEF Store
<1> QED
  BY <1>1, <1>2, <1>3

(* Two cgroups that agree on the files of a resource still do so after the *)
(* same write: what is stored depends on no file of another resource.      *)
LEMMA StoreAgrees ==
    ASSUME NEW c, NEW d, NEW w, NEW r \in Resource, DOMAIN c = DOMAIN d,
           Same(c, d, r)
    PROVE  Same(Store(c, w), Store(d, w), r)
<1> SUFFICES ASSUME NEW f \in FileOf[r], f \in DOMAIN c
             PROVE  Store(c, w)[f] = Store(d, w)[f]
  BY StoreKeeps DEF Same
<1>1. c[f] = d[f]
  BY DEF Same
<1> QED
  BY <1>1 DEF Store

(* The same of the first k writes.                                         *)
LEMMA AfterKeeps ==
    ASSUME NEW c, NEW ws, NEW W, IsWrites(ws, W)
    PROVE  \A k \in 0..Len(ws) :
              /\ DOMAIN AfterWrites(c, ws, k) = DOMAIN c
              /\ \A f \in DOMAIN c :
                    (\A g \in W \cap DOMAIN c : ~Touches(g, f))
                       => AfterWrites(c, ws, k)[f] = c[f]
<1> DEFINE P(k) == /\ DOMAIN AfterWrites(c, ws, k) = DOMAIN c
                   /\ \A f \in DOMAIN c :
                         (\A g \in W \cap DOMAIN c : ~Touches(g, f))
                       => AfterWrites(c, ws, k)[f] = c[f]
           S    == {k \in Nat : k <= Len(ws) => P(k)}
<1>1. 0 \in S
  BY AfterWritesStep
<1>2. ASSUME NEW k \in Nat, k \in S
      PROVE  k + 1 \in S
  <2> SUFFICES ASSUME k + 1 <= Len(ws)
               PROVE  P(k + 1)
    OBVIOUS
  <2>1. k <= Len(ws) /\ k + 1 \in 1..Len(ws)
    BY WritesAt
  <2>2. P(k)
    BY <1>2, <2>1
  <2>3. AfterWrites(c, ws, k + 1) = Store(AfterWrites(c, ws, k), ws[k + 1])
    BY AfterWritesStep, ZenonT(60)
  <2>4. ws[k + 1].file \in W
    BY <2>1, WritesAt
  <2> QED
    BY <2>2, <2>3, <2>4, StoreKeeps
<1> HIDE DEF S
<1>3. Nat \subseteq S
  BY <1>1, <1>2, SetInduction
<1> QED
  BY <1>3, WritesAt DEF S

(* The same of any number of writes: what a handler makes of its own files *)
(* does not depend on those of the other resources.                        *)
LEMMA AfterAgrees ==
    ASSUME NEW c, NEW d, NEW ws, NEW r \in Resource, DOMAIN c = DOMAIN d,
           Same(c, d, r)
    PROVE  \A k \in Nat : /\ DOMAIN AfterWrites(c, ws, k) = DOMAIN c
                          /\ DOMAIN AfterWrites(d, ws, k) = DOMAIN c
                          /\ Same(AfterWrites(c, ws, k), AfterWrites(d, ws, k), r)
<1> DEFINE P(k) == /\ DOMAIN AfterWrites(c, ws, k) = DOMAIN c
                   /\ DOMAIN AfterWrites(d, ws, k) = DOMAIN c
                   /\ Same(AfterWrites(c, ws, k), AfterWrites(d, ws, k), r)
           S    == {k \in Nat : P(k)}
<1>1. 0 \in S
  BY AfterWritesStep
<1>2. ASSUME NEW k \in Nat, k \in S
      PROVE  k + 1 \in S
  <2>1. P(k)
    BY <1>2
  <2>2. /\ AfterWrites(c, ws, k + 1) = Store(AfterWrites(c, ws, k), ws[k + 1])
        /\ AfterWrites(d, ws, k + 1) = Store(AfterWrites(d, ws, k), ws[k + 1])
    BY AfterWritesStep, ZenonT(60)
  <2> QED
    BY <2>1, <2>2, StoreKeeps, StoreAgrees
<1> HIDE DEF S
<1>3. Nat \subseteq S
  BY <1>1, <1>2, SetInduction
<1> QED
  BY <1>3 DEF S

-----------------------------------------------------------------------------
(* The files the handlers write: the fields that are given, the period     *)
(* with a quota, and in a REPLACE the files with defaults.                 *)
LEMMA DefaultWrites ==
    ASSUME NEW policy, NEW ws, NEW W, policy # "DIFF" => IsWrites(ws, W)
    PROVE  IsWrites(Default(policy, ws), W)
  BY NoWrites DEF Default, Unless

(* SetDirty writes the dirty files that are given and, unless the update   *)
(* is a DIFF, defaults; or it refuses the request.                         *)
LEMMA SetDirtyWrites ==
    ASSUME NEW s, NEW policy, NEW W, "refused" \in W,
           \A f \in {"dirty_ratio", "dirty_bg_ratio", "dirty_limit", "dirty_bg_limit"} :
              f \in DOMAIN s \/ policy # "DIFF" => f \in W
    PROVE  IsWrites(SetDirty(s, policy), W)
<1> DEFINE given(f)      == Unless(f \notin DOMAIN s, Write(f, s[f]))
           default(f, v) == Unless(f \in DOMAIN s, Default(policy, Optional(f, v)))
           ratio         == DOMAIN s \cap {"dirty_ratio", "dirty_bg_ratio"} # {}
           limit         == DOMAIN s \cap {"dirty_limit", "dirty_bg_limit"} # {}
           last          == IF limit THEN default("dirty_limit", 0) \o default("dirty_bg_limit", 0)
                            ELSE default("dirty_ratio", 75) \o default("dirty_bg_ratio", 10)
           F == {"dirty_ratio", "dirty_bg_ratio", "dirty_limit", "dirty_bg_limit"}
<1>1. SetDirty(s, policy) =
        IF ratio /\ limit THEN Refuse
        ELSE given("dirty_ratio") \o given("dirty_bg_ratio")
             \o given("dirty_limit") \o given("dirty_bg_limit") \o last
  BY DEF SetDirty
<1>2. ASSUME NEW f \in F
      PROVE  IsWrites(given(f), W)
  <2>1. CASE f \in DOMAIN s
    BY <2>1, OneWrite DEF Unless
  <2>2. CASE f \notin DOMAIN s
    BY <2>2, NoWrites DEF Unless
  <2> QED
    BY <2>1, <2>2
<1>3. ASSUME NEW f \in F, NEW v
      PROVE  IsWrites(default(f, v), W)
  <2>1. policy # "DIFF" => IsWrites(Optional(f, v), W)
    BY OneWrite
  <2>2. IsWrites(Default(policy, Optional(f, v)), W)
    BY <2>1, DefaultWrites
  <2> QED
    BY <2>2, NoWrites DEF Unless
<1>4. IsWrites(Refuse, W)
  BY OneWrite DEF Refuse
<1> HIDE DEF given, default
<1>5. IsWrites(last, W)
  BY <1>3, MoreWrites
<1> HIDE DEF last, ratio, limit
<1>6. IsWrites(given("dirty_ratio") \o given("dirty_bg_ratio")
               \o given("dirty_limit") \o given("dirty_bg_limit") \o last, W)
  BY <1>2, <1>5, MoreWrites
<1> QED
  BY <1>1, <1>4, <1>6

(* The memory handler writes the files of the fields that are given and,   *)
(* unless the update is a DIFF, defaults; or it refuses the request.       *)
LEMMA MemoryWrites ==
    ASSUME NEW s, NEW policy, NEW W, "refused" \in W,
           \A f \in MemoryFile : f \in DOMAIN s \/ policy # "DIFF" => f \in W
    PROVE  IsWrites(MemoryUpdate(s, policy), W)
<1> DEFINE or(f, ws, d) == IF f \in DOMAIN s THEN ws ELSE Default(policy, d)
           fits  == s.oom \in 0..10000
           score == IF fits THEN Optional("oom", s.oom) ELSE Refuse
           oom   == or("oom", score, Optional("oom", 5000))
           limit == or("limit", Write("limit", ModifyLimit(s.limit)), Write("limit", -1))
           memsw == or("memsw", Write("memsw", ModifyLimit(s.memsw)), Optional("memsw", -1))
           soft  == or("soft",  Write("soft", ModifyLimit(s.soft)), Write("soft", 0))
           comp  == or("comp",  Write("comp", s.comp), Optional("comp", 0))
           stale == or("stale", Write("stale", s.stale), Optional("stale", 1))
           kmem  == or("kmem",  Write("kmem", s.kmem), Optional("kmem", 0))
<1>1. MemoryUpdate(s, policy)
        = oom \o limit \o memsw \o soft \o comp \o stale \o SetDirty(s, policy) \o kmem
  BY DEF MemoryUpdate
<1>2. ASSUME NEW f \in MemoryFile, NEW ws, NEW d,
             f \in W => IsWrites(ws, W) /\ IsWrites(d, W)
      PROVE  IsWrites(or(f, ws, d), W)
  <2>1. f \in DOMAIN s => IsWrites(ws, W)
    BY <1>2
  <2>2. IsWrites(Default(policy, d), W)
    BY <1>2, DefaultWrites
  <2> QED
    BY <2>1, <2>2
<1>3. ASSUME NEW f \in W, NEW v
      PROVE  IsWrites(Write(f, v), W) /\ IsWrites(Optional(f, v), W)
  BY OneWrite
<1>4. IsWrites(Refuse, W)
  BY <1>3 DEF Refuse
<1>5. {"oom", "limit", "memsw", "soft", "comp", "stale", "kmem"} \subseteq MemoryFile
  BY DEF MemoryFile
<1>6. IsWrites(SetDirty(s, policy), W)
  BY SetDirtyWrites DEF MemoryFile
<1> HIDE DEF or
<1>7. IsWrites(oom, W)
  <2>1. "oom" \in W => IsWrites(Optional("oom", s.oom), W)
    BY <1>3
  <2>2. "oom" \in W => IsWrites(score, W)
    <3> HIDE DEF fits
    <3> QED
      BY <1>4, <2>1
  <2> HIDE DEF score
  <2> QED
    BY <1>2, <1>3, <1>5, <2>2
<1>8. IsWrites(limit, W) /\ IsWrites(memsw, W) /\ IsWrites(soft, W)
  BY <1>2, <1>3, <1>5
<1>9. IsWrites(comp, W) /\ IsWrites(stale, W) /\ IsWrites(kmem, W)
  BY <1>2, <1>3, <1>5
<1> HIDE DEF oom, limit, memsw, soft, comp, stale, kmem
<1> QED
  BY <1>1, <1>6, <1>7, <1>8, <1>9, MoreWrites

(* The CPU handler writes the files of the fields that are given, the      *)
(* period with the quota, and nothing else; or it refuses the request.     *)
LEMMA CpuWrites ==
    ASSUME NEW c, NEW s, NEW policy, NEW create, NEW W, "refused" \in W,
           \A f \in {"shares", "quota", "cpus"} \cap DOMAIN s : f \in W,
           "quota" \in DOMAIN s => "period" \in W
    PROVE  IsWrites(CpuUpdate(c, s, policy, create), W)
<1> DEFINE given(f) == f \in DOMAIN s
           shares == Unless(~given("shares"), Write("shares", MilliCpusToShares(s.shares)))
           capped == Write("period", kHardcapPeriodUsecs)
                     \o Write("quota", QuotaUsecs(s.quota))
           quota  == Unless(~given("quota"),
                        IF QuotaUsecs(s.quota) < kMinHardcapQuotaUsecs THEN Refuse ELSE capped)
           cpus   == Unless(~given("cpus"),
                        IF "cpus" \in DOMAIN c THEN Write("cpus", s.cpus) ELSE Refuse)
<1>1. CpuUpdate(c, s, policy, create)
        = IF LatencyRefused(c, s, policy, create) THEN Refuse ELSE shares \o quota \o cpus
  BY DEF CpuUpdate
<1>2. IsWrites(Refuse, W)
  BY OneWrite DEF Refuse
<1>3. IsWrites(shares, W)
  BY OneWrite, NoWrites DEF Unless
<1>4. given("quota") => IsWrites(capped, W)
  BY OneWrite, MoreWrites
<1>5. IsWrites(quota, W)
  <2> HIDE DEF capped
  <2> QED
    BY <1>2, <1>4, NoWrites DEF Unless
<1>6. IsWrites(cpus, W)
  BY <1>2, OneWrite, NoWrites DEF Unless
<1> HIDE DEF shares, quota, cpus
<1> QED
  BY <1>1, <1>2, <1>3, <1>5, <1>6, MoreWrites

(* The device handler writes the device list, and only when the spec has   *)
(* one.                                                                    *)
LEMMA DeviceWrites ==
    ASSUME NEW c, NEW s, NEW W, "refused" \in W,
           "devices" \in DOMAIN s => "devices" \in W /\ s.devices \in Seq(Restriction)
    PROVE  IsWrites(DeviceUpdate(c, s), W)
<1>1. IsWrites(Refuse, W)
  BY OneWrite DEF Refuse
<1> DEFINE at(i) == IF VerifyRestriction(s.devices[i]) THEN Write("devices", s.devices[i])
                    ELSE Refuse
           ws    == [i \in DOMAIN s.devices |-> Head(at(i))]
           R     == [file : W, value : Restriction \cup {0}, optional : BOOLEAN]
<1>2. ASSUME "devices" \in DOMAIN s
      PROVE  IsWrites(ws, W)
  <2>1. DOMAIN s.devices = 1..Len(s.devices) /\ Len(s.devices) \in Nat
    BY <1>2
  <2>2. ASSUME NEW i \in DOMAIN s.devices
        PROVE  Head(at(i)) \in R
    <3>1. s.devices[i] \in Restriction
      BY <1>2, <2>1, ElementOfSeq
    <3>2. ASSUME NEW f, NEW v
          PROVE  Head(Write(f, v)) = [file |-> f, value |-> v, optional |-> FALSE]
      BY DEF Write
    <3>3. CASE VerifyRestriction(s.devices[i])
      <4>1. Head(at(i)) = [file |-> "devices", value |-> s.devices[i], optional |-> FALSE]
        BY <3>2, <3>3, Zenon
      <4>2. [file |-> "devices", value |-> s.devices[i], optional |-> FALSE] \in R
        BY <1>2, <3>1
      <4> QED
        BY <4>1, <4>2, Zenon
    <3>4. CASE ~VerifyRestriction(s.devices[i])
      <4>1. Head(at(i)) = [file |-> "refused", value |-> 0, optional |-> FALSE]
        BY <3>2, <3>4 DEF Refuse
      <4>2. [file |-> "refused", value |-> 0, optional |-> FALSE] \in R
        OBVIOUS
      <4> QED
        BY <4>1, <4>2, Zenon
    <3> QED
      BY <3>3, <3>4
  <2> HIDE DEF R, at
  <2>3. ws \in [1..Len(s.devices) -> R]
    BY <2>1, <2>2
  <2>4. ws \in Seq(R)
    <3> HIDE DEF ws
    <3> QED
      BY <2>1, <2>3, SeqOf
  <2> HIDE DEF ws
  <2> QED
    BY <2>4, Zenon DEF IsWrites, R
<1> QED
  BY <1>1, <1>2, NoWrites DEF DeviceUpdate

(* What a handler sets up only on creation are files of its own resource.  *)
LEMMA CreateOnlyWrites ==
    ASSUME NEW r \in Resource, NEW s
    PROVE  IsWrites(CreateOnlySetup(r, s), FileOf[r])
<1>1. CASE r = "cpu"
  BY <1>1, OneWrite DEF CreateOnlySetup, FileOf, CpuFile
<1>2. CASE r = "memory"
  BY <1>2, OneWrite DEF CreateOnlySetup, FileOf, MemoryFile
<1>3. CASE r = "device"
  BY <1>3, NoWrites DEF CreateOnlySetup
<1> QED
  BY <1>1, <1>2, <1>3 DEF Resource, Resources

(* An UPDATE_DIFF writes the files of the given fields; every call writes  *)
(* files of the handler's own resource.                                    *)
Given(r, s) == {f \in FileOf[r] : f \in DOMAIN s \/ (f = "period" /\ "quota" \in DOMAIN s)}

(* A handler writes files of its own resource only, and in a DIFF update   *)
(* only those of the fields that the spec gives.                           *)
LEMMA HandlerWrites ==
    ASSUME NEW c, NEW req, req.spec \in Specs, NEW r \in DOMAIN req.spec
    PROVE  /\ IsWrites(Writes(c, r, req), FileOf[r] \cup {"refused"})
           /\ req.op = "update" /\ req.policy = "DIFF"
                 => IsWrites(Writes(c, r, req), Given(r, req.spec[r]) \cup {"refused"})
<1> DEFINE s      == req.spec[r]
           create == req.op = "create"
           only   == Unless(~create, CreateOnlySetup(r, s))
           update == CASE r = "cpu"    -> CpuUpdate(c, s, req.policy, create)
                       [] r = "memory" -> MemoryUpdate(s, req.policy)
                       [] r = "device" -> DeviceUpdate(c, s)
<1>1. Writes(c, r, req) = only \o update
  BY DEF Writes
<1>2. r \in Resource /\ DOMAIN s \subseteq FileOf[r]
  BY UpdateAssumption
<1>3. r = "device" /\ "devices" \in DOMAIN s => s.devices \in Seq(Restriction)
  BY UpdateAssumption
<1>4. r \in {"cpu", "memory", "device"}
  BY <1>2 DEF Resource, Resources
<1>5. ASSUME NEW W, "refused" \in W, Given(r, s) \subseteq W,
             FileOf[r] \subseteq W \/ req.policy = "DIFF"
      PROVE  IsWrites(update, W)
  <2>1. CASE r = "cpu"
    <3>1. \A f \in {"shares", "quota", "cpus"} \cap DOMAIN s : f \in W
      BY <1>2, <1>5 DEF Given
    <3>2. "quota" \in DOMAIN s => "period" \in W
      BY <1>5, <2>1 DEF Given, FileOf, CpuFile
    <3> QED
      BY <1>5, <2>1, <3>1, <3>2, CpuWrites
  <2>2. CASE r = "memory"
    <3>1. \A f \in MemoryFile : f \in DOMAIN s \/ req.policy # "DIFF" => f \in W
      BY <1>5, <2>2 DEF Given, FileOf
    <3> QED
      BY <1>5, <2>2, <3>1, MemoryWrites
  <2>3. CASE r = "device"
    BY <1>2, <1>3, <1>5, <2>3, DeviceWrites DEF Given
  <2> QED
    BY <1>4, <2>1, <2>2, <2>3
<1>6. IsWrites(only, FileOf[r] \cup {"refused"})
  BY <1>2, CreateOnlyWrites, NoWrites, MoreFiles DEF Unless
<1>7. ~create => only = <<>>
  BY DEF Unless
<1> HIDE DEF only, update
<1>8. IsWrites(Writes(c, r, req), FileOf[r] \cup {"refused"})
  <2>1. IsWrites(update, FileOf[r] \cup {"refused"})
    BY <1>5 DEF Given
  <2> QED
    BY <1>1, <1>6, <2>1, MoreWrites
<1>9. ASSUME req.op = "update", req.policy = "DIFF"
      PROVE  IsWrites(Writes(c, r, req), Given(r, s) \cup {"refused"})
  <2>1. IsWrites(update, Given(r, s) \cup {"refused"})
    BY <1>5, <1>9
  <2>2. IsWrites(only, Given(r, s) \cup {"refused"})
    BY <1>7, <1>9, NoWrites
  <2> QED
    BY <1>1, <2>1, <2>2, MoreWrites
<1> QED
  BY <1>8, <1>9

-----------------------------------------------------------------------------
(* A handler reads no file of another resource before it writes, and       *)
(* writes none.                                                            *)
LEMMA WritesAgree ==
    ASSUME NEW c, NEW d, NEW a, NEW b, NEW r \in Resource, DOMAIN c = DOMAIN d,
           "devices" \in DOMAIN c, Same(c, d, r),
           a.op = b.op, a.policy = b.policy, a.spec = b.spec
    PROVE  Writes(c, r, a) = Writes(d, r, b)
<1>1. CASE r = "cpu"
  <2>1. "latency" \in DOMAIN c => c.latency = d.latency
    BY <1>1 DEF Same, FileOf, CpuFile
  <2>2. ASSUME NEW s, NEW policy, NEW create
        PROVE  CpuUpdate(c, s, policy, create) = CpuUpdate(d, s, policy, create)
    <3>1. LatencyRefused(c, s, policy, create) <=> LatencyRefused(d, s, policy, create)
      BY <2>1 DEF LatencyRefused
    <3> QED
      BY <3>1 DEF CpuUpdate
  <2> QED
    BY <1>1, <2>2 DEF Writes
<1>2. CASE r = "memory"
  BY <1>2 DEF Writes
<1>3. CASE r = "device"
  <2>1. c.devices = d.devices
    BY <1>3 DEF Same, FileOf
  <2>2. ASSUME NEW s
        PROVE  DeviceUpdate(c, s) = DeviceUpdate(d, s)
    BY <2>1 DEF DeviceUpdate, SpecAfterUpdate
  <2> QED
    BY <1>3, <2>2 DEF Writes
<1> QED
  BY <1>1, <1>2, <1>3 DEF Resource, Resources

(* However far a handler gets, the files of the other resources are as     *)
(* they were.                                                              *)
LEMMA OthersKeep ==
    ASSUME NEW c, NEW ws, NEW r \in Resource, NEW q \in Resource, q # r,
           IsWrites(ws, FileOf[r] \cup {"refused"}), NEW k \in 0..Len(ws)
    PROVE  Same(AfterWrites(c, ws, k), c, q)
<1> SUFFICES ASSUME NEW f \in FileOf[q], f \in DOMAIN c
             PROVE  AfterWrites(c, ws, k)[f] = c[f]
  BY AfterKeeps DEF Same
<1>1. ASSUME NEW g \in FileOf[r] \cup {"refused"}
      PROVE  ~Touches(g, f)
  <2>1. r \in {"cpu", "memory", "device"} /\ q \in {"cpu", "memory", "device"}
    BY DEF Resource, Resources
  <2> QED
    BY <2>1 DEF Touches, Twin, FileOf, CpuFile, MemoryFile
<1> QED
  BY <1>1, AfterKeeps

(* Writes that have all passed: none was a refusal, and those that are not *)
(* optional found their file.                                              *)
Accepted(c, ws) ==
    \A i \in 1..Len(ws) :
        ws[i].file # "refused" /\ (ws[i].optional \/ ws[i].file \in DOMAIN c)

(* A handler that made all its writes refused nothing and met every file   *)
(* it could not do without.                                                *)
LEMMA PassedIsAccepted ==
    ASSUME NEW c, NEW ws, NEW W, IsWrites(ws, W), Passes(c, ws, Len(ws))
    PROVE  Accepted(c, ws)
<1> SUFFICES ASSUME NEW i \in 1..Len(ws)
             PROVE  ws[i].file # "refused" /\ (ws[i].optional \/ ws[i].file \in DOMAIN c)
  BY DEF Accepted
<1>1. Len(ws) \in Nat
  BY WritesAt
<1>2. i - 1 \in 0..Len(ws)
  BY <1>1
<1>3. DOMAIN AfterWrites(c, ws, i - 1) = DOMAIN c
  BY <1>2, AfterKeeps
<1>4. Outcome(AfterWrites(c, ws, i - 1), ws[i]) = "OK"
  BY DEF Passes
<1> QED
  BY <1>3, <1>4 DEF Outcome


-----------------------------------------------------------------------------
(* One sequence of writes after another.                                   *)
LEMMA ConcatAt ==
    ASSUME NEW a, NEW b, NEW W, IsWrites(a, W), IsWrites(b, W)
    PROVE  /\ Len(a) \in Nat /\ Len(b) \in Nat /\ Len(a \o b) = Len(a) + Len(b)
           /\ \A i \in 1..Len(a) : (a \o b)[i] = a[i]
           /\ \A i \in 1..Len(b) : (a \o b)[Len(a) + i] = b[i]
<1>1. PICK V : a \in Seq([file : W, value : V, optional : BOOLEAN])
  BY Zenon DEF IsWrites
<1>2. PICK U : b \in Seq([file : W, value : U, optional : BOOLEAN])
  BY Zenon DEF IsWrites
<1> DEFINE A == [file : W, value : V, optional : BOOLEAN]
           B == [file : W, value : U, optional : BOOLEAN]
<1>3. a \in Seq(A) /\ b \in Seq(B)
  BY <1>1, <1>2
<1> HIDE DEF A, B
<1>4. a \in Seq(A \cup B) /\ b \in Seq(A \cup B)
  BY <1>3, SeqMonotonic
<1> QED
  BY <1>4

InTurn(c, a, b) ==
    /\ \A k \in 0..Len(a) : AfterWrites(c, a \o b, k) = AfterWrites(c, a, k)
    /\ \A k \in 0..Len(b) : AfterWrites(c, a \o b, Len(a) + k)
                             = AfterWrites(AfterAll(c, a), b, k)

(* The writes of a come first and those of b start from what they left.    *)
LEMMA AfterTurns ==
    ASSUME NEW c, NEW a, NEW b, NEW W, IsWrites(a, W), IsWrites(b, W)
    PROVE  InTurn(c, a, b)
<1> DEFINE n == Len(a)
           m == Len(b)
<1>1. /\ n \in Nat /\ m \in Nat /\ Len(a \o b) = n + m
      /\ \A i \in 1..n : (a \o b)[i] = a[i]
      /\ \A i \in 1..m : (a \o b)[n + i] = b[i]
  BY ConcatAt
<1> HIDE DEF n, m
<1> DEFINE S == {k \in Nat : k <= n => AfterWrites(c, a \o b, k) = AfterWrites(c, a, k)}
           T == {k \in Nat : k <= m => AfterWrites(c, a \o b, n + k)
                                        = AfterWrites(AfterWrites(c, a, n), b, k)}
<1>2. Nat \subseteq S
  <2>1. 0 \in S
    BY AfterWritesStep
  <2>2. ASSUME NEW k \in Nat, k \in S
        PROVE  k + 1 \in S
    <3> SUFFICES ASSUME k + 1 <= n
                 PROVE  AfterWrites(c, a \o b, k + 1) = AfterWrites(c, a, k + 1)
      OBVIOUS
    <3>1. (a \o b)[k + 1] = a[k + 1] /\ AfterWrites(c, a \o b, k) = AfterWrites(c, a, k)
      BY <1>1, <2>2
    <3>2. AfterWrites(c, a \o b, k + 1) = Store(AfterWrites(c, a \o b, k), (a \o b)[k + 1])
      BY AfterWritesStep, ZenonT(60)
    <3>3. AfterWrites(c, a, k + 1) = Store(AfterWrites(c, a, k), a[k + 1])
      BY AfterWritesStep
    <3> QED
      BY <3>1, <3>2, <3>3
  <2> HIDE DEF S
  <2> QED
    BY <2>1, <2>2, SetInduction
<1>3. Nat \subseteq T
  <2>1. 0 \in T
    <3>1. n + 0 = n
      BY <1>1
    <3> QED
      BY <1>1, <1>2, <3>1, AfterWritesStep
  <2>2. ASSUME NEW k \in Nat, k \in T
        PROVE  k + 1 \in T
    <3> SUFFICES ASSUME k + 1 <= m
                 PROVE  AfterWrites(c, a \o b, n + (k + 1))
                          = AfterWrites(AfterWrites(c, a, n), b, k + 1)
      OBVIOUS
    <3>1. /\ (a \o b)[n + (k + 1)] = b[k + 1]
          /\ AfterWrites(c, a \o b, n + k) = AfterWrites(AfterWrites(c, a, n), b, k)
      BY <1>1, <2>2
    <3>2. n + (k + 1) = (n + k) + 1 /\ n + k \in Nat
      BY <1>1
    <3>3. AfterWrites(c, a \o b, (n + k) + 1)
            = Store(AfterWrites(c, a \o b, n + k), (a \o b)[(n + k) + 1])
      BY <3>2, AfterWritesStep, ZenonT(60)
    <3>4. AfterWrites(AfterWrites(c, a, n), b, k + 1)
            = Store(AfterWrites(AfterWrites(c, a, n), b, k), b[k + 1])
      BY AfterWritesStep, SMTT(30)
    <3> QED
      BY <3>1, <3>2, <3>3, <3>4, Zenon
  <2> HIDE DEF T
  <2> QED
    BY <2>1, <2>2, SetInduction
<1>4. \A k \in 0..n : AfterWrites(c, a \o b, k) = AfterWrites(c, a, k)
  BY <1>1, <1>2
<1>5. \A k \in 0..m : AfterWrites(c, a \o b, n + k) = AfterWrites(AfterWrites(c, a, n), b, k)
  BY <1>1, <1>3
<1> QED
  BY <1>1, <1>4, <1>5 DEF InTurn, AfterAll, n, m

(* All of a and then all of b, as one sequence.                            *)
LEMMA AfterConcat ==
    ASSUME NEW c, NEW a, NEW b, NEW W, IsWrites(a, W), IsWrites(b, W)
    PROVE  AfterAll(c, a \o b) = AfterAll(AfterAll(c, a), b)
<1>1. InTurn(c, a, b)
  BY AfterTurns
<1>2. Len(b) \in 0..Len(b) /\ Len(a \o b) = Len(a) + Len(b)
  BY ConcatAt
<1> QED
  BY <1>1, <1>2 DEF InTurn, AfterAll

(* ws leaves v[f] in every file f of F, whatever was there before, in a    *)
(* cgroup with the files D.                                                *)
Determines(ws, D, F, v) ==
    \A c : DOMAIN c = D => \A f \in F : AfterAll(c, ws)[f] = v[f]

(* What a write to f reaches, in a cgroup with the files D.                *)
Reach(f, D) == IF f \in D THEN {g \in D : Touches(f, g)} ELSE {}

(* What one write leaves in its file and in the twin.                      *)
LEMMA WriteDetermines ==
    ASSUME NEW D, NEW v, NEW f, NEW x, f # "devices", v[f] = Stored(f, x),
           f \in DOMAIN Twin => v[Twin[f]] = 0
    PROVE  /\ Determines(Write(f, x), D, Reach(f, D), v)
           /\ Determines(Optional(f, x), D, Reach(f, D), v)
<1> SUFFICES ASSUME NEW c, DOMAIN c = D, NEW g \in Reach(f, D), NEW w,
                    w.file = f, w.value = x
             PROVE  AfterAll(c, <<w>>)[g] = v[g]
  BY DEF Determines, Write, Optional
<1>1. AfterAll(c, <<w>>) = Store(c, w)
  <2>1. Len(<<w>>) = 0 + 1 /\ <<w>>[0 + 1] = w
    OBVIOUS
  <2>2. AfterWrites(c, <<w>>, 0 + 1) = Store(AfterWrites(c, <<w>>, 0), <<w>>[0 + 1])
    BY AfterWritesStep
  <2> QED
    BY <2>1, <2>2, AfterWritesStep DEF AfterAll
<1>2. f \in D /\ g \in D /\ Touches(f, g)
  BY DEF Reach
<1>3. CASE g = f
  <2>1. f \in DOMAIN Twin => Twin[f] # f
    BY DEF Twin
  <2> QED
    BY <1>1, <1>2, <1>3, <2>1, Zenon DEF Store
<1>4. CASE g # f
  <2>1. f \in DOMAIN Twin /\ Twin[f] = g
    BY <1>2, <1>4 DEF Touches, Twin
  <2> QED
    BY <1>1, <1>2, <1>4, <2>1, ZenonT(60) DEF Store
<1> QED
  BY <1>3, <1>4

(* What the last writes determine is determined, whatever came before.     *)
LEMMA LaterDetermines ==
    ASSUME NEW a, NEW b, NEW W, IsWrites(a, W), IsWrites(b, W), NEW D, NEW G, NEW v,
           Determines(b, D, G, v)
    PROVE  Determines(a \o b, D, G, v)
<1> SUFFICES ASSUME NEW c, DOMAIN c = D, NEW f \in G
             PROVE  AfterAll(c, a \o b)[f] = v[f]
  BY DEF Determines
<1>1. AfterAll(c, a \o b) = AfterAll(AfterAll(c, a), b)
  BY AfterConcat
<1>2. DOMAIN AfterAll(c, a) = D
  BY AfterKeeps, WritesAt DEF AfterAll
<1> QED
  BY <1>1, <1>2 DEF Determines

(* What is determined stays so unless it is written again.                 *)
LEMMA BothDetermine ==
    ASSUME NEW a, NEW b, NEW A, NEW B, IsWrites(a, A), IsWrites(b, B),
           NEW D, NEW F \in SUBSET D, NEW G, NEW v,
           Determines(a, D, F, v), Determines(b, D, G, v),
           \A f \in F : \A g \in B : ~Touches(g, f)
    PROVE  IsWrites(a \o b, A \cup B) /\ Determines(a \o b, D, F \cup G, v)
<1>1. IsWrites(a, A \cup B) /\ IsWrites(b, A \cup B)
  BY MoreFiles
<1>2. IsWrites(a \o b, A \cup B)
  BY <1>1, MoreWrites
<1>3. Determines(a \o b, D, G, v)
  BY <1>1, LaterDetermines
<1>4. ASSUME NEW c, DOMAIN c = D, NEW f \in F
      PROVE  AfterAll(c, a \o b)[f] = v[f]
  <2>1. AfterAll(c, a \o b) = AfterAll(AfterAll(c, a), b)
    BY <1>1, AfterConcat
  <2>2. DOMAIN AfterAll(c, a) = D /\ AfterAll(c, a)[f] = v[f]
    BY <1>4, AfterKeeps, WritesAt DEF AfterAll, Determines
  <2>3. AfterAll(AfterAll(c, a), b)[f] = AfterAll(c, a)[f]
    <3> DEFINE d == AfterAll(c, a)
    <3>1. f \in DOMAIN d /\ Len(b) \in 0..Len(b)
      BY <2>2, WritesAt
    <3> HIDE DEF d
    <3>2. AfterWrites(d, b, Len(b))[f] = d[f]
      BY <3>1, AfterKeeps
    <3> QED
      BY <3>2 DEF d, AfterAll
  <2> QED
    BY <2>1, <2>2, <2>3
<1> QED
  BY <1>2, <1>3, <1>4 DEF Determines

(* ws writes the files N only, and leaves v in those of them that there    *)
(* are and in their twins.                                                 *)
Settles(ws, N, D, v) ==
    /\ IsWrites(ws, N)
    /\ Determines(ws, D, {g \in D : \E f \in N \cap D : Touches(f, g)}, v)

(* A field that is not written settles nothing.                            *)
LEMMA NothingSettles ==
    ASSUME NEW D, NEW v
    PROVE  Settles(<<>>, {}, D, v)
  BY NoWrites DEF Settles, Determines

(* A field whose handler makes one write, or none.                         *)
LEMMA OneSettles ==
    ASSUME NEW N, NEW D, NEW v, NEW ws, NEW f, NEW x, f # "devices",
           IF N = {} THEN ws = <<>>
           ELSE /\ N = {f} /\ ws \in {Write(f, x), Optional(f, x)}
                /\ v[f] = Stored(f, x)
                /\ f \in DOMAIN Twin => v[Twin[f]] = 0
    PROVE  Settles(ws, N, D, v)
<1>1. CASE N = {}
  BY <1>1, NoWrites DEF Settles, Determines
<1>2. CASE N # {}
  <2>1. IsWrites(ws, N)
    BY <1>2, OneWrite
  <2>2. Determines(ws, D, Reach(f, D), v)
    BY <1>2, WriteDetermines
  <2>3. {g \in D : \E h \in N \cap D : Touches(h, g)} = Reach(f, D)
    BY <1>2 DEF Reach
  <2> QED
    BY <2>1, <2>2, <2>3, Zenon DEF Settles
<1> QED
  BY <1>1, <1>2

Unrelated(f, g) == f # g /\ ~(f \in DOMAIN Twin /\ Twin[f] = g)

(* Two parts of a handler that write different files, no later one the     *)
(* twin of an earlier one, settle together what each settles.              *)
LEMMA BothSettle ==
    ASSUME NEW a, NEW b, NEW N, NEW M, NEW P, NEW D, NEW v,
           Settles(a, N, D, v), Settles(b, M, D, v), P = N \cup M,
           \A f \in N : \A g \in M : Unrelated(f, g)
    PROVE  Settles(a \o b, P, D, v)
<1> DEFINE R(S) == {g \in D : \E f \in S \cap D : Touches(f, g)}
<1>1. /\ IsWrites(a, N) /\ Determines(a, D, R(N), v)
      /\ IsWrites(b, M) /\ Determines(b, D, R(M), v)
  BY DEF Settles
<1>2. ASSUME NEW h \in R(N), NEW g \in M, Touches(g, h)
      PROVE  FALSE
  <2>1. PICK f \in N \cap D : Touches(f, h)
    OBVIOUS
  <2>2. Unrelated(f, g)
    OBVIOUS
  <2> QED
    BY <1>2, <2>1, <2>2 DEF Touches, Unrelated, Twin
<1>3. R(N) \in SUBSET D /\ R(P) = R(N) \cup R(M)
  OBVIOUS
<1> HIDE DEF R
<1>4. IsWrites(a \o b, N \cup M) /\ Determines(a \o b, D, R(N) \cup R(M), v)
  BY <1>1, <1>2, <1>3, BothDetermine, Zenon
<1>5. IsWrites(a \o b, P) /\ Determines(a \o b, D, R(P), v)
  BY <1>3, <1>4
<1> QED
  BY <1>5 DEF Settles, R

(* The memory files a call writes, and what it leaves in them: the fields  *)
(* that are given, and in a REPLACE the defaults.                          *)
LimitGiven(s) == DOMAIN s \cap {"dirty_limit", "dirty_bg_limit"} # {}
RatioGiven(s) == DOMAIN s \cap {"dirty_ratio", "dirty_bg_ratio"} # {}
Written(s, policy) ==
    {f \in MemoryFile :
        \/ f \in DOMAIN s
        \/ /\ policy # "DIFF"
           /\ f \notin IF LimitGiven(s) THEN {"dirty_ratio", "dirty_bg_ratio"}
                      ELSE {"dirty_limit", "dirty_bg_limit"}}
MemoryValue(s) ==
    [f \in MemoryFile |->
        IF f \in DOMAIN s
        THEN Stored(f, IF f \in {"limit", "memsw", "soft"} THEN ModifyLimit(s[f]) ELSE s[f])
        ELSE CASE f = "oom" -> 5000
               [] f \in {"limit", "memsw"} -> kint64max
               [] f = "stale" -> 1
               [] f = "dirty_ratio" -> IF LimitGiven(s) THEN 0 ELSE 75
               [] f = "dirty_bg_ratio" -> IF LimitGiven(s) THEN 0 ELSE 10
               [] OTHER -> 0]

(* SetDirty leaves the ratios or the limits it was given, the defaults for *)
(* the others of that kind in a REPLACE, and 0 in their twins.             *)
LEMMA SetDirtySettles ==
    ASSUME NEW s, NEW policy, NEW D, ~(LimitGiven(s) /\ RatioGiven(s))
    PROVE  Settles(SetDirty(s, policy),
                   Written(s, policy) \cap {"dirty_ratio", "dirty_bg_ratio",
                                            "dirty_limit", "dirty_bg_limit"},
                   D, MemoryValue(s))
<1> DEFINE given(f)      == Unless(f \notin DOMAIN s, Write(f, s[f]))
           default(f, v) == Unless(f \in DOMAIN s, Default(policy, Optional(f, v)))
           last          == IF LimitGiven(s)
                            THEN default("dirty_limit", 0) \o default("dirty_bg_limit", 0)
                            ELSE default("dirty_ratio", 75) \o default("dirty_bg_ratio", 10)
           ratios  == {"dirty_ratio", "dirty_bg_ratio"}
           limits  == {"dirty_limit", "dirty_bg_limit"}
           val     == MemoryValue(s)
           rest(f) == IF f \in DOMAIN s \/ policy = "DIFF" THEN {} ELSE {f}
<1>1. SetDirty(s, policy) =
        given("dirty_ratio") \o given("dirty_bg_ratio")
        \o given("dirty_limit") \o given("dirty_bg_limit") \o last
  BY Zenon DEF SetDirty, LimitGiven, RatioGiven
<1>2. ASSUME NEW f \in ratios \cup limits
      PROVE  /\ f \in DOMAIN Twin /\ f # "devices"
             /\ f \in DOMAIN s => val[f] = Stored(f, s[f]) /\ val[Twin[f]] = 0
  BY DEF MemoryValue, MemoryFile, Twin, LimitGiven, RatioGiven
<1>3. ASSUME NEW f \in ratios \cup limits
      PROVE  Settles(given(f), DOMAIN s \cap {f}, D, val)
  <2>1. CASE f \in DOMAIN s
    BY <1>2, <2>1, OneSettles, Zenon DEF Unless
  <2>2. CASE f \notin DOMAIN s
    BY <1>2, <2>2, OneSettles, Zenon DEF Unless
  <2> QED
    BY <2>1, <2>2
<1>4. ASSUME NEW f \in ratios \cup limits, NEW x,
             f \notin DOMAIN s => val[f] = Stored(f, x) /\ val[Twin[f]] = 0
      PROVE  Settles(default(f, x), rest(f), D, val)
  <2>1. CASE f \in DOMAIN s \/ policy = "DIFF"
    BY <1>2, <2>1, OneSettles, Zenon DEF Unless, Default
  <2>2. CASE ~(f \in DOMAIN s \/ policy = "DIFF")
    BY <1>2, <1>4, <2>2, OneSettles, Zenon DEF Unless, Default
  <2> QED
    BY <2>1, <2>2
<1> HIDE DEF given, default
<1> DEFINE also == IF LimitGiven(s) THEN rest("dirty_limit") \cup rest("dirty_bg_limit")
                   ELSE rest("dirty_ratio") \cup rest("dirty_bg_ratio")
<1>5. Settles(last, also, D, val)
  <2>1. CASE LimitGiven(s)
    <3>1. /\ val["dirty_ratio"] = 0 /\ val["dirty_bg_ratio"] = 0
          /\ \A f \in limits : f \notin DOMAIN s => val[f] = Stored(f, 0)
      BY <2>1 DEF MemoryValue, MemoryFile, RatioGiven, Stored
    <3>2. /\ Settles(default("dirty_limit", 0), rest("dirty_limit"), D, val)
          /\ Settles(default("dirty_bg_limit", 0), rest("dirty_bg_limit"), D, val)
      BY <1>4, <3>1 DEF Twin
    <3>3. \A f \in rest("dirty_limit") : \A g \in rest("dirty_bg_limit") : Unrelated(f, g)
      BY DEF Unrelated, Twin
    <3> HIDE DEF rest, val
    <3> QED
      BY <2>1, <3>2, <3>3, BothSettle
  <2>2. CASE ~LimitGiven(s)
    <3>1. /\ val["dirty_limit"] = 0 /\ val["dirty_bg_limit"] = 0
          /\ "dirty_ratio" \notin DOMAIN s => val["dirty_ratio"] = Stored("dirty_ratio", 75)
          /\ "dirty_bg_ratio" \notin DOMAIN s
                => val["dirty_bg_ratio"] = Stored("dirty_bg_ratio", 10)
      BY <2>2 DEF MemoryValue, MemoryFile, LimitGiven, Stored
    <3>2. /\ Settles(default("dirty_ratio", 75), rest("dirty_ratio"), D, val)
          /\ Settles(default("dirty_bg_ratio", 10), rest("dirty_bg_ratio"), D, val)
      BY <1>4, <3>1 DEF Twin
    <3>3. \A f \in rest("dirty_ratio") : \A g \in rest("dirty_bg_ratio") : Unrelated(f, g)
      BY DEF Unrelated, Twin
    <3> HIDE DEF rest, val
    <3> QED
      BY <2>2, <3>2, <3>3, BothSettle
  <2> QED
    BY <2>1, <2>2
<1> HIDE DEF last
<1> DEFINE G(N) == DOMAIN s \cap N
<1>6. Settles(given("dirty_ratio") \o given("dirty_bg_ratio"), G(ratios), D, val)
  <2>1. \A f \in G({"dirty_ratio"}) : \A g \in G({"dirty_bg_ratio"}) : Unrelated(f, g)
    BY DEF Unrelated, Twin
  <2> HIDE DEF val
  <2> QED
    BY <1>3, <2>1, BothSettle
<1>7. Settles(given("dirty_ratio") \o given("dirty_bg_ratio") \o given("dirty_limit"),
              G(ratios \cup {"dirty_limit"}), D, val)
  <2>1. \A f \in G(ratios) : \A g \in G({"dirty_limit"}) : Unrelated(f, g)
    BY DEF LimitGiven, RatioGiven
  <2> HIDE DEF val
  <2> QED
    BY <1>3, <1>6, <2>1, BothSettle
<1>8. Settles(given("dirty_ratio") \o given("dirty_bg_ratio") \o given("dirty_limit")
              \o given("dirty_bg_limit"), G(ratios \cup limits), D, val)
  <2>1. \A f \in G(ratios \cup {"dirty_limit"}) : \A g \in G({"dirty_bg_limit"}) : Unrelated(f, g)
    BY DEF LimitGiven, RatioGiven, Unrelated, Twin
  <2> HIDE DEF val
  <2> QED
    BY <1>3, <1>7, <2>1, BothSettle
<1>9. \A f \in G(ratios \cup limits) : \A g \in also : Unrelated(f, g)
  BY DEF LimitGiven, RatioGiven, Unrelated, Twin
<1>10. Written(s, policy) \cap (ratios \cup limits) = G(ratios \cup limits) \cup also
  BY DEF Written, LimitGiven, RatioGiven, MemoryFile
<1>11. Written(s, policy) \cap {"dirty_ratio", "dirty_bg_ratio", "dirty_limit", "dirty_bg_limit"}
         = Written(s, policy) \cap (ratios \cup limits)
  OBVIOUS
<1> DEFINE first == given("dirty_ratio") \o given("dirty_bg_ratio")
                    \o given("dirty_limit") \o given("dirty_bg_limit")
           N     == G(ratios \cup limits)
           P     == Written(s, policy) \cap (ratios \cup limits)
<1>12. Settles(SetDirty(s, policy), P, D, val)
  <2>1. SetDirty(s, policy) = first \o last
    BY <1>1
  <2>2. /\ Settles(first, N, D, val) /\ P = N \cup also
        /\ \A f \in N : \A g \in also : Unrelated(f, g)
    BY <1>8, <1>9, <1>10
  <2> HIDE DEF first, val, also, N, P
  <2>3. Settles(first \o last, P, D, val)
    BY <1>5, <2>2, BothSettle
  <2> QED
    BY <2>1, <2>3
<1> QED
  BY <1>11, <1>12 DEF val

ScoreWrite(s) == IF s.oom \in 0..10000 THEN Optional("oom", s.oom) ELSE Refuse
ScoreFits(s)  == "oom" \in DOMAIN s => ScoreWrite(s) = Optional("oom", s.oom)

(* The memory handler leaves in the files it writes what was given or the  *)
(* defaults, although it writes them one after the other.                  *)
LEMMA MemorySettles ==
    ASSUME NEW s, NEW policy, NEW D, ~(LimitGiven(s) /\ RatioGiven(s)), ScoreFits(s)
    PROVE  Settles(MemoryUpdate(s, policy), Written(s, policy), D, MemoryValue(s))
<1> DEFINE or(f, ws, d) == IF f \in DOMAIN s THEN ws ELSE Default(policy, d)
           oom   == or("oom", ScoreWrite(s), Optional("oom", 5000))
           limit == or("limit", Write("limit", ModifyLimit(s.limit)), Write("limit", -1))
           memsw == or("memsw", Write("memsw", ModifyLimit(s.memsw)), Optional("memsw", -1))
           soft  == or("soft",  Write("soft", ModifyLimit(s.soft)), Write("soft", 0))
           comp  == or("comp",  Write("comp", s.comp), Optional("comp", 0))
           stale == or("stale", Write("stale", s.stale), Optional("stale", 1))
           kmem  == or("kmem",  Write("kmem", s.kmem), Optional("kmem", 0))
           dirty == SetDirty(s, policy)
           Dirties == {"dirty_ratio", "dirty_bg_ratio", "dirty_limit", "dirty_bg_limit"}
           val   == MemoryValue(s)
           W(N)  == Written(s, policy) \cap N
<1>1. MemoryUpdate(s, policy)
        = oom \o limit \o memsw \o soft \o comp \o stale \o dirty \o kmem
  BY DEF MemoryUpdate, ScoreWrite
<1>2. ASSUME NEW f \in MemoryFile \ Dirties, NEW x, NEW y,
             NEW ws \in {Write(f, x), Optional(f, x)}, NEW d \in {Write(f, y), Optional(f, y)},
             IF f \in DOMAIN s THEN val[f] = Stored(f, x) ELSE val[f] = Stored(f, y)
      PROVE  Settles(or(f, ws, d), W({f}), D, val)
  <2>1. f # "devices" /\ f \notin DOMAIN Twin
    BY DEF MemoryFile, Twin
  <2>2. f \in Written(s, policy) <=> f \in DOMAIN s \/ policy # "DIFF"
    BY DEF Written
  <2> HIDE DEF val
  <2>3. CASE f \in DOMAIN s
    BY <1>2, <2>1, <2>2, <2>3, OneSettles, Zenon
  <2>4. CASE f \notin DOMAIN s /\ policy # "DIFF"
    BY <1>2, <2>1, <2>2, <2>4, OneSettles, Zenon DEF Default, Unless
  <2>5. CASE f \notin DOMAIN s /\ policy = "DIFF"
    BY <2>1, <2>2, <2>5, OneSettles DEF Default, Unless
  <2> QED
    BY <2>3, <2>4, <2>5
<1>3. \A f \in MemoryFile \ Dirties : f \in DOMAIN s =>
         val[f] = Stored(f, IF f \in {"limit", "memsw", "soft"} THEN ModifyLimit(s[f]) ELSE s[f])
  BY DEF MemoryValue
<1>4. /\ "oom" \notin DOMAIN s => val["oom"] = Stored("oom", 5000)
      /\ "limit" \notin DOMAIN s => val["limit"] = Stored("limit", -1)
      /\ "memsw" \notin DOMAIN s => val["memsw"] = Stored("memsw", -1)
      /\ "soft" \notin DOMAIN s => val["soft"] = Stored("soft", 0)
      /\ "comp" \notin DOMAIN s => val["comp"] = Stored("comp", 0)
      /\ "stale" \notin DOMAIN s => val["stale"] = Stored("stale", 1)
      /\ "kmem" \notin DOMAIN s => val["kmem"] = Stored("kmem", 0)
  BY DEF MemoryValue, MemoryFile, Stored
<1>5. {"oom", "limit", "memsw", "soft", "comp", "stale", "kmem"} \subseteq MemoryFile \ Dirties
  BY DEF MemoryFile
<1>6. Settles(dirty, W(Dirties), D, val)
  BY SetDirtySettles
<1> HIDE DEF or, val, Dirties
<1>7. Settles(oom, W({"oom"}), D, val)
  <2>1. oom = or("oom", Optional("oom", s.oom), Optional("oom", 5000))
    BY DEF or, ScoreFits
  <2> HIDE DEF oom
  <2> QED
    BY <1>2, <1>3, <1>4, <1>5, <2>1
<1>8. /\ Settles(limit, W({"limit"}), D, val)
      /\ Settles(memsw, W({"memsw"}), D, val)
      /\ Settles(soft, W({"soft"}), D, val)
  BY <1>2, <1>3, <1>4, <1>5
<1>9. /\ Settles(comp, W({"comp"}), D, val)
      /\ Settles(stale, W({"stale"}), D, val)
      /\ Settles(kmem, W({"kmem"}), D, val)
  BY <1>2, <1>3, <1>4, <1>5
<1> HIDE DEF oom, limit, memsw, soft, comp, stale, kmem, dirty
<1>10. ASSUME NEW a, NEW b, NEW N, NEW M,
              Settles(a, W(N), D, val), Settles(b, W(M), D, val),
              \A f \in N : \A g \in M : Unrelated(f, g)
       PROVE  Settles(a \o b, W(N \cup M), D, val)
  BY <1>10, BothSettle
<1> DEFINE Plain == {"oom", "limit", "memsw", "soft", "comp", "stale"}
<1>11. \A f, g \in Plain : f # g => Unrelated(f, g)
  BY DEF Unrelated, Twin
<1>12. \A f \in Plain : \A g \in Dirties : Unrelated(f, g)
  BY DEF Unrelated, Twin, Dirties
<1>13. \A f \in Plain \cup Dirties : Unrelated(f, "kmem")
  BY DEF Unrelated, Twin, Dirties
<1> HIDE DEF W
<1>14. Settles(oom \o limit, W({"oom", "limit"}), D, val)
  <2>1. {"oom"} \cup {"limit"} = {"oom", "limit"}
    OBVIOUS
  <2> QED
    BY <1>7, <1>8, <1>10, <1>11, <2>1
<1>15. Settles(oom \o limit \o memsw, W({"oom", "limit", "memsw"}), D, val)
  <2>1. {"oom", "limit"} \cup {"memsw"} = {"oom", "limit", "memsw"}
    OBVIOUS
  <2> QED
    BY <1>8, <1>10, <1>11, <1>14, <2>1
<1>16. Settles(oom \o limit \o memsw \o soft, W({"oom", "limit", "memsw", "soft"}), D, val)
  <2>1. {"oom", "limit", "memsw"} \cup {"soft"} = {"oom", "limit", "memsw", "soft"}
    OBVIOUS
  <2> QED
    BY <1>8, <1>10, <1>11, <1>15, <2>1
<1>17. Settles(oom \o limit \o memsw \o soft \o comp,
               W({"oom", "limit", "memsw", "soft", "comp"}), D, val)
  <2>1. {"oom", "limit", "memsw", "soft"} \cup {"comp"} = {"oom", "limit", "memsw", "soft", "comp"}
    OBVIOUS
  <2> QED
    BY <1>9, <1>10, <1>11, <1>16, <2>1
<1>18. Settles(oom \o limit \o memsw \o soft \o comp \o stale, W(Plain), D, val)
  <2>1. {"oom", "limit", "memsw", "soft", "comp"} \cup {"stale"} = Plain
    OBVIOUS
  <2> QED
    BY <1>9, <1>10, <1>11, <1>17, <2>1
<1> HIDE DEF Plain
<1>19. Settles(oom \o limit \o memsw \o soft \o comp \o stale \o dirty,
               W(Plain \cup Dirties), D, val)
  BY <1>6, <1>10, <1>12, <1>18
<1>20. Settles(oom \o limit \o memsw \o soft \o comp \o stale \o dirty \o kmem,
               W(Plain \cup Dirties \cup {"kmem"}), D, val)
  BY <1>9, <1>10, <1>13, <1>19
<1>21. W(Plain \cup Dirties \cup {"kmem"}) = Written(s, policy)
  BY DEF W, Plain, Dirties, Written, MemoryFile
<1> QED
  BY <1>1, <1>20, <1>21 DEF val

(* Of writes that have all passed, each part has.                          *)
LEMMA AcceptedParts ==
    ASSUME NEW c, NEW a, NEW b, NEW W, IsWrites(a, W), IsWrites(b, W)
    PROVE  Accepted(c, a \o b) <=> Accepted(c, a) /\ Accepted(c, b)
<1>1. /\ Len(a) \in Nat /\ Len(b) \in Nat /\ Len(a \o b) = Len(a) + Len(b)
      /\ \A i \in 1..Len(a) : (a \o b)[i] = a[i]
      /\ \A i \in 1..Len(b) : (a \o b)[Len(a) + i] = b[i]
  BY ConcatAt
<1>2. ASSUME NEW i \in 1..Len(a)
      PROVE  i \in 1..Len(a \o b) /\ (a \o b)[i] = a[i]
  BY <1>1
<1>3. ASSUME NEW i \in 1..Len(b)
      PROVE  Len(a) + i \in 1..Len(a \o b) /\ (a \o b)[Len(a) + i] = b[i]
  BY <1>1
<1>4. ASSUME NEW i \in 1..Len(a \o b)
      PROVE  i \in 1..Len(a) \/ (i - Len(a) \in 1..Len(b) /\ i = Len(a) + (i - Len(a)))
  BY <1>1
<1>5. Accepted(c, a \o b) => Accepted(c, a) /\ Accepted(c, b)
  BY <1>2, <1>3, Zenon DEF Accepted
<1>6. ASSUME Accepted(c, a), Accepted(c, b), NEW i \in 1..Len(a \o b)
      PROVE  LET w == (a \o b)[i]
             IN  w.file # "refused" /\ (w.optional \/ w.file \in DOMAIN c)
  <2>1. CASE i \in 1..Len(a)
    BY <1>1, <1>6, <2>1 DEF Accepted
  <2>2. CASE i - Len(a) \in 1..Len(b) /\ i = Len(a) + (i - Len(a))
    <3>1. (a \o b)[i] = b[i - Len(a)]
      BY <1>1, <2>2
    <3> QED
      BY <1>6, <2>2, <3>1 DEF Accepted
  <2> QED
    BY <1>4, <2>1, <2>2
<1> QED
  BY <1>5, <1>6 DEF Accepted

(* A request that was accepted was not refused, and a file that was        *)
(* written without tolerance is there.                                     *)
LEMMA AcceptedOne ==
    ASSUME NEW c, NEW f, NEW v
    PROVE  ~Accepted(c, Refuse) /\ (Accepted(c, Write(f, v)) => f \in DOMAIN c)
<1>1. ASSUME NEW g, NEW x, Accepted(c, Write(g, x))
      PROVE  g # "refused" /\ g \in DOMAIN c
  <2>1. Len(Write(g, x)) = 1 /\ Write(g, x)[1] = [file |-> g, value |-> x, optional |-> FALSE]
    BY DEF Write
  <2>2. 1 \in 1..Len(Write(g, x))
    BY <2>1
  <2> QED
    BY <1>1, <2>1, <2>2 DEF Accepted
<1> QED
  BY <1>1 DEF Refuse

(* The CPU handler leaves the shares, the quota with its period and the    *)
(* CPU mask that the spec gives, converted to the kernel's units.          *)
LEMMA CpuSettles ==
    ASSUME NEW c, NEW s, NEW policy, NEW create, NEW D, NEW v,
           Accepted(c, CpuUpdate(c, s, policy, create)),
           "shares" \in DOMAIN s => v["shares"] = MilliCpusToShares(s.shares),
           "quota" \in DOMAIN s => v["quota"] = QuotaUsecs(s.quota)
                                   /\ v["period"] = kHardcapPeriodUsecs,
           "cpus" \in DOMAIN s => v["cpus"] = s.cpus
    PROVE  /\ ~LatencyRefused(c, s, policy, create)
           /\ Settles(CpuUpdate(c, s, policy, create),
                      (DOMAIN s \cap {"shares", "quota", "cpus"})
                        \cup (IF "quota" \in DOMAIN s THEN {"period"} ELSE {}), D, v)
<1> DEFINE given(f) == f \in DOMAIN s
           shares == Unless(~given("shares"), Write("shares", MilliCpusToShares(s.shares)))
           small  == QuotaUsecs(s.quota) < kMinHardcapQuotaUsecs
           capped == Write("period", kHardcapPeriodUsecs)
                     \o Write("quota", QuotaUsecs(s.quota))
           quota  == Unless(~given("quota"), IF small THEN Refuse ELSE capped)
           cpus   == Unless(~given("cpus"),
                        IF "cpus" \in DOMAIN c THEN Write("cpus", s.cpus) ELSE Refuse)
           N == DOMAIN s \cap {"shares"}
           M == IF "quota" \in DOMAIN s THEN {"period", "quota"} ELSE {}
           P == DOMAIN s \cap {"cpus"}
           W == {"shares", "quota", "period", "cpus", "refused"}
<1>1. CpuUpdate(c, s, policy, create)
        = IF LatencyRefused(c, s, policy, create) THEN Refuse ELSE shares \o quota \o cpus
  BY DEF CpuUpdate
<1>2. ~LatencyRefused(c, s, policy, create)
  BY <1>1, AcceptedOne, SMTT(30)
<1>3. CpuUpdate(c, s, policy, create) = shares \o quota \o cpus
  BY <1>1, <1>2, SMTT(30)
<1>4. IsWrites(Refuse, W) /\ IsWrites(capped, W)
  BY OneWrite, MoreWrites DEF Refuse
<1>5. IsWrites(shares, W) /\ IsWrites(cpus, W)
  BY <1>4, OneWrite, NoWrites, ZenonT(60) DEF Unless
<1>6. IsWrites(quota, W)
  <2> HIDE DEF capped, small
  <2> QED
    BY <1>4, NoWrites DEF Unless
<1>7. Accepted(c, quota) /\ Accepted(c, cpus)
  <2> HIDE DEF shares, quota, cpus, W
  <2>1. IsWrites(shares \o quota, W)
    BY <1>5, <1>6, MoreWrites, SMTT(30)
  <2>2. Accepted(c, shares \o quota) /\ Accepted(c, cpus)
    BY <1>3, <1>5, <2>1, AcceptedParts, SMTT(30)
  <2> QED
    BY <1>5, <1>6, <2>2, AcceptedParts
<1>8. Settles(shares, N, D, v)
  <2>1. Stored("shares", MilliCpusToShares(s.shares)) = MilliCpusToShares(s.shares)
    BY DEF Stored
  <2>2. "shares" \notin DOMAIN Twin
    BY DEF Twin
  <2>3. CASE given("shares")
    BY <2>1, <2>2, <2>3, OneSettles DEF Unless
  <2>4. CASE ~given("shares")
    <3>1. shares = <<>> /\ N = {}
      BY <2>4, SMTT(30) DEF Unless
    <3> QED
      BY <3>1, NothingSettles, Zenon
  <2> QED
    BY <2>3, <2>4
<1>9. Settles(cpus, P, D, v)
  <2>1. Stored("cpus", s.cpus) = s.cpus
    BY DEF Stored
  <2>2. "cpus" \notin DOMAIN Twin
    BY DEF Twin
  <2>3. CASE given("cpus")
    <3>1. cpus = Write("cpus", s.cpus)
      BY <1>7, <2>3, AcceptedOne, Zenon DEF Unless
    <3> HIDE DEF cpus
    <3> QED
      BY <2>1, <2>2, <2>3, <3>1, OneSettles
  <2>4. CASE ~given("cpus")
    <3>1. cpus = <<>> /\ P = {}
      BY <2>4 DEF Unless
    <3> QED
      BY <3>1, NothingSettles, Zenon
  <2> QED
    BY <2>3, <2>4
<1>10. Settles(quota, M, D, v)
  <2>1. CASE ~given("quota")
    <3>1. quota = <<>> /\ M = {}
      BY <2>1 DEF Unless
    <3> QED
      BY <3>1, NothingSettles
  <2>2. CASE given("quota")
    <3>1. quota = capped
      <4> HIDE DEF small, capped
      <4> QED
        BY <1>7, <2>2, AcceptedOne DEF Unless
    <3>2. /\ Stored("quota", QuotaUsecs(s.quota)) = QuotaUsecs(s.quota)
          /\ Stored("period", kHardcapPeriodUsecs) = kHardcapPeriodUsecs
      BY SMTT(30) DEF Stored
    <3>3. {"period", "quota"} \cap DOMAIN Twin = {} /\ Unrelated("period", "quota")
      BY DEF Twin, Unrelated
    <3>4. Settles(Write("period", kHardcapPeriodUsecs), {"period"}, D, v)
      BY <2>2, <3>2, <3>3, OneSettles
    <3>5. Settles(Write("quota", QuotaUsecs(s.quota)), {"quota"}, D, v)
      BY <2>2, <3>2, <3>3, OneSettles, SMTT(30)
    <3>6. {"period", "quota"} = {"period"} \cup {"quota"}
      OBVIOUS
    <3>7. Settles(capped, {"period", "quota"}, D, v)
      BY <3>3, <3>4, <3>5, <3>6, BothSettle
    <3> HIDE DEF quota, capped
    <3> QED
      BY <2>2, <3>1, <3>7
  <2> QED
    BY <2>1, <2>2
<1>11. /\ \A f \in N : \A g \in M : Unrelated(f, g)
       /\ \A f \in N \cup M : \A g \in P : Unrelated(f, g)
  BY DEF Unrelated, Twin
<1>12. (N \cup M) \cup P = (DOMAIN s \cap {"shares", "quota", "cpus"})
                           \cup (IF "quota" \in DOMAIN s THEN {"period"} ELSE {})
  BY SMTT(30)
<1> HIDE DEF shares, quota, cpus, N, M, P
<1>13. Settles(shares \o quota, N \cup M, D, v)
  BY <1>8, <1>10, <1>11, BothSettle, SMTT(30)
<1>14. Settles(shares \o quota \o cpus, (N \cup M) \cup P, D, v)
  BY <1>9, <1>11, <1>13, BothSettle
<1> QED
  BY <1>2, <1>3, <1>12, <1>14, ZenonT(60)

(* A memory update that has passed was given a limit or a ratio, a score   *)
(* within its bounds, and only files that there are.                       *)
LEMMA SetDirtyAccepted ==
    ASSUME NEW c, NEW s, NEW policy, Accepted(c, SetDirty(s, policy))
    PROVE  /\ ~(LimitGiven(s) /\ RatioGiven(s))
           /\ \A f \in {"dirty_ratio", "dirty_bg_ratio", "dirty_limit", "dirty_bg_limit"} :
                 f \in DOMAIN s => f \in DOMAIN c
<1> DEFINE given(f)      == Unless(f \notin DOMAIN s, Write(f, s[f]))
           default(f, v) == Unless(f \in DOMAIN s, Default(policy, Optional(f, v)))
           last          == IF LimitGiven(s)
                            THEN default("dirty_limit", 0) \o default("dirty_bg_limit", 0)
                            ELSE default("dirty_ratio", 75) \o default("dirty_bg_ratio", 10)
           F == {"dirty_ratio", "dirty_bg_ratio", "dirty_limit", "dirty_bg_limit"}
           g12 == given("dirty_ratio") \o given("dirty_bg_ratio")
           g13 == g12 \o given("dirty_limit")
           g14 == g13 \o given("dirty_bg_limit")
<1>1. SetDirty(s, policy) = IF RatioGiven(s) /\ LimitGiven(s) THEN Refuse ELSE g14 \o last
  BY DEF SetDirty, LimitGiven, RatioGiven
<1>2. ~(RatioGiven(s) /\ LimitGiven(s))
  BY <1>1, AcceptedOne
<1>3. \A f \in F : IsWrites(given(f), F)
  BY OneWrite, NoWrites, Zenon DEF Unless
<1>4. \A f \in F : \A v : IsWrites(default(f, v), F)
  BY OneWrite, NoWrites DEF Unless, Default
<1>5. \A f \in F : f \in DOMAIN s /\ Accepted(c, given(f)) => f \in DOMAIN c
  BY AcceptedOne, SMTT(30) DEF Unless
<1>6. Accepted(c, g14 \o last)
  BY <1>1, <1>2
<1> HIDE DEF given, default
<1>7. IsWrites(last, F)
  BY <1>4, MoreWrites
<1>8. IsWrites(g12, F)
  BY <1>3, MoreWrites
<1> HIDE DEF g12, last
<1>9. IsWrites(g13, F)
  BY <1>3, <1>8, MoreWrites
<1> HIDE DEF g13
<1>10. IsWrites(g14, F)
  BY <1>3, <1>9, MoreWrites
<1> HIDE DEF g14
<1>11. Accepted(c, g14)
  BY <1>6, <1>7, <1>10, AcceptedParts
<1>12. Accepted(c, g13) /\ Accepted(c, given("dirty_bg_limit"))
  BY <1>3, <1>9, <1>11, AcceptedParts DEF g14
<1>13. Accepted(c, g12) /\ Accepted(c, given("dirty_limit"))
  BY <1>3, <1>8, <1>12, AcceptedParts DEF g13
<1>14. Accepted(c, given("dirty_ratio")) /\ Accepted(c, given("dirty_bg_ratio"))
  BY <1>3, <1>13, AcceptedParts DEF g12
<1> QED
  BY <1>2, <1>5, <1>12, <1>13, <1>14

(* The writes of MemoryResourceHandler::Update, one part for each value.   *)
Either(f, s, policy, ws, d) == IF f \in DOMAIN s THEN ws ELSE Default(policy, d)

OomWrites(s, policy) ==
    Either("oom", s, policy, ScoreWrite(s), Optional("oom", 5000))
LimitWrites(s, policy) ==
    Either("limit", s, policy, Write("limit", ModifyLimit(s.limit)), Write("limit", -1))
MemswWrites(s, policy) ==
    Either("memsw", s, policy, Write("memsw", ModifyLimit(s.memsw)), Optional("memsw", -1))
SoftWrites(s, policy) ==
    Either("soft", s, policy, Write("soft", ModifyLimit(s.soft)), Write("soft", 0))
CompWrites(s, policy) ==
    Either("comp", s, policy, Write("comp", s.comp), Optional("comp", 0))
StaleWrites(s, policy) ==
    Either("stale", s, policy, Write("stale", s.stale), Optional("stale", 1))
KmemWrites(s, policy) ==
    Either("kmem", s, policy, Write("kmem", s.kmem), Optional("kmem", 0))

(* They are all it writes, in this order.                                  *)
LEMMA MemoryParts ==
    ASSUME NEW s, NEW policy
    PROVE  MemoryUpdate(s, policy)
             = OomWrites(s, policy) \o LimitWrites(s, policy) \o MemswWrites(s, policy)
               \o SoftWrites(s, policy) \o CompWrites(s, policy) \o StaleWrites(s, policy)
               \o SetDirty(s, policy) \o KmemWrites(s, policy)
  BY DEF MemoryUpdate, Either, ScoreWrite, OomWrites, LimitWrites, MemswWrites,
     SoftWrites,
         CompWrites, StaleWrites, KmemWrites

(* A memory spec whose handler succeeded does not mix dirty ratios with    *)
(* dirty limits, has an OOM score in range, and names only files that this *)
(* kernel has.                                                             *)
LEMMA MemoryAccepted ==
    ASSUME NEW c, NEW s, NEW policy, NEW ws, ws = MemoryUpdate(s, policy),
           Accepted(c, ws), DOMAIN s \subseteq MemoryFile
    PROVE  /\ ~(LimitGiven(s) /\ RatioGiven(s))
           /\ ScoreFits(s)
           /\ DOMAIN s \ {"oom"} \subseteq DOMAIN c
<1> DEFINE or(f, v, d) == Either(f, s, policy, v, d)
           oom   == OomWrites(s, policy)
           limit == LimitWrites(s, policy)
           memsw == MemswWrites(s, policy)
           soft  == SoftWrites(s, policy)
           comp  == CompWrites(s, policy)
           stale == StaleWrites(s, policy)
           kmem  == KmemWrites(s, policy)
           dirty == SetDirty(s, policy)
           p2 == oom \o limit
           p3 == p2 \o memsw
           p4 == p3 \o soft
           p5 == p4 \o comp
           p6 == p5 \o stale
           p7 == p6 \o dirty
           W  == MemoryFile \cup {"refused"}
<1>1. ws = p7 \o kmem
  BY MemoryParts, ZenonT(60)
<1> USE DEF OomWrites, LimitWrites, MemswWrites, SoftWrites, CompWrites,
            StaleWrites, KmemWrites
<1>a. /\ oom = or("oom", ScoreWrite(s), Optional("oom", 5000))
      /\ limit = or("limit", Write("limit", ModifyLimit(s.limit)), Write("limit", -1))
      /\ memsw = or("memsw", Write("memsw", ModifyLimit(s.memsw)), Optional("memsw", -1))
      /\ soft = or("soft", Write("soft", ModifyLimit(s.soft)), Write("soft", 0))
      /\ comp = or("comp", Write("comp", s.comp), Optional("comp", 0))
      /\ stale = or("stale", Write("stale", s.stale), Optional("stale", 1))
      /\ kmem = or("kmem", Write("kmem", s.kmem), Optional("kmem", 0))
  OBVIOUS
<1>2. ASSUME NEW f, NEW v, NEW d, IsWrites(v, W), IsWrites(d, W)
      PROVE  IsWrites(or(f, v, d), W)
  BY <1>2, NoWrites DEF Either, Default, Unless
<1>3. \A f \in MemoryFile : \A v : IsWrites(Write(f, v), W) /\ IsWrites(Optional(f, v), W)
  BY OneWrite
<1>4. {"oom", "limit", "memsw", "soft", "comp", "stale", "kmem"} \subseteq MemoryFile
  BY DEF MemoryFile
<1>5. IsWrites(ScoreWrite(s), W)
  <2> DEFINE fits == s.oom \in 0..10000
  <2>1. ScoreWrite(s) = IF fits THEN Optional("oom", s.oom) ELSE Refuse
    BY DEF ScoreWrite
  <2>2. IsWrites(Refuse, W)
    BY OneWrite DEF Refuse
  <2> HIDE DEF fits
  <2> QED
    BY <1>3, <1>4, <2>1, <2>2
<1>6. IsWrites(dirty, W)
  BY SetDirtyWrites, SMTT(30) DEF MemoryFile
<1>7. ASSUME NEW f, NEW x, NEW d, f \in DOMAIN s, Accepted(c, or(f, Write(f, x), d))
      PROVE  f \in DOMAIN c
  BY <1>7, AcceptedOne DEF Either
<1>8. "oom" \in DOMAIN s => oom = ScoreWrite(s)
  BY SMTT(30) DEF Either
<1> HIDE DEF or, W, OomWrites, LimitWrites, MemswWrites, SoftWrites, CompWrites,
              StaleWrites, KmemWrites
<1>9. IsWrites(oom, W) /\ IsWrites(limit, W) /\ IsWrites(memsw, W) /\ IsWrites(soft, W)
  BY <1>a, <1>2, <1>3, <1>4, <1>5, SMTT(30)
<1>10. IsWrites(comp, W) /\ IsWrites(stale, W) /\ IsWrites(kmem, W)
  BY <1>a, <1>2, <1>3, <1>4, SMTT(30)
<1>11. /\ "limit" \in DOMAIN s /\ Accepted(c, limit) => "limit" \in DOMAIN c
       /\ "memsw" \in DOMAIN s /\ Accepted(c, memsw) => "memsw" \in DOMAIN c
       /\ "soft" \in DOMAIN s /\ Accepted(c, soft) => "soft" \in DOMAIN c
       /\ "comp" \in DOMAIN s /\ Accepted(c, comp) => "comp" \in DOMAIN c
       /\ "stale" \in DOMAIN s /\ Accepted(c, stale) => "stale" \in DOMAIN c
       /\ "kmem" \in DOMAIN s /\ Accepted(c, kmem) => "kmem" \in DOMAIN c
  BY <1>a, <1>7, SMTT(30)
<1> HIDE DEF oom, limit, memsw, soft, comp, stale, kmem, dirty
<1>12. IsWrites(p2, W)
  BY <1>9, MoreWrites
<1> HIDE DEF p2
<1>13. IsWrites(p3, W)
  BY <1>9, <1>12, MoreWrites
<1> HIDE DEF p3
<1>14. IsWrites(p4, W)
  BY <1>9, <1>13, MoreWrites
<1> HIDE DEF p4
<1>15. IsWrites(p5, W)
  BY <1>10, <1>14, MoreWrites
<1> HIDE DEF p5
<1>16. IsWrites(p6, W)
  BY <1>10, <1>15, MoreWrites
<1> HIDE DEF p6
<1>17. IsWrites(p7, W)
  BY <1>6, <1>16, MoreWrites
<1> HIDE DEF p7
<1>18. Accepted(c, p7) /\ Accepted(c, kmem)
  BY <1>1, <1>10, <1>17, AcceptedParts
<1>19. Accepted(c, p6) /\ Accepted(c, dirty)
  BY <1>6, <1>16, <1>18, AcceptedParts DEF p7
<1>20. Accepted(c, p5) /\ Accepted(c, stale)
  BY <1>10, <1>15, <1>19, AcceptedParts DEF p6
<1>21. Accepted(c, p4) /\ Accepted(c, comp)
  BY <1>10, <1>14, <1>20, AcceptedParts DEF p5
<1>22. Accepted(c, p3) /\ Accepted(c, soft)
  BY <1>9, <1>13, <1>21, AcceptedParts DEF p4
<1>23. Accepted(c, p2) /\ Accepted(c, memsw)
  BY <1>9, <1>12, <1>22, AcceptedParts DEF p3
<1>24. Accepted(c, oom) /\ Accepted(c, limit)
  BY <1>9, <1>23, AcceptedParts DEF p2
<1>25. ScoreFits(s)
  <2> DEFINE fits == s.oom \in 0..10000
  <2>1. ScoreWrite(s) = IF fits THEN Optional("oom", s.oom) ELSE Refuse
    BY DEF ScoreWrite
  <2> HIDE DEF fits
  <2> QED
    BY <1>8, <1>24, <2>1, AcceptedOne DEF ScoreFits
<1>26. /\ ~(LimitGiven(s) /\ RatioGiven(s))
       /\ \A f \in {"dirty_ratio", "dirty_bg_ratio", "dirty_limit", "dirty_bg_limit"} :
             f \in DOMAIN s => f \in DOMAIN c
  BY <1>19, SetDirtyAccepted, SMTT(30) DEF dirty
<1> QED
  BY <1>11, <1>18, <1>20, <1>21, <1>22, <1>23, <1>24, <1>25, <1>26, SMTT(30)
     DEF MemoryFile

-----------------------------------------------------------------------------
(* What a call that has returned OK has left, whatever it found.           *)
LEMMA MemoryLeft ==
    ASSUME NEW c, NEW a, NEW s, NEW policy, NEW D, DOMAIN c = D,
           DOMAIN s \subseteq MemoryFile,
           ~(LimitGiven(s) /\ RatioGiven(s)), ScoreFits(s), IsWrites(a, MemoryFile)
    PROVE  \A h \in Written(s, policy) \cap D : \A g \in D : Touches(h, g) =>
              AfterAll(c, a \o MemoryUpdate(s, policy))[g] = MemoryValue(s)[g]
<1> DEFINE mu == MemoryUpdate(s, policy)
           R  == {g \in D : \E f \in Written(s, policy) \cap D : Touches(f, g)}
<1>1. IsWrites(mu, Written(s, policy)) /\ Determines(mu, D, R, MemoryValue(s))
  BY MemorySettles DEF Settles
<1>2. IsWrites(mu, MemoryFile)
  BY <1>1, MoreFiles DEF Written
<1> HIDE DEF mu, R
<1>3. Determines(a \o mu, D, R, MemoryValue(s))
  BY <1>1, <1>2, LaterDetermines
<1> QED
  BY <1>3, SMTT(30) DEF Determines, mu, R

(* The latency that a specification asks for.                              *)
Latency(s) == IF "latency" \in DOMAIN s THEN s.latency ELSE "PRIORITY"

(* CpuUpdate does not write the latency: it stays as a Create has set it.  *)
LEMMA LatencyStays ==
    ASSUME NEW c, NEW d, NEW s, NEW policy, NEW create, "latency" \in DOMAIN c
    PROVE  LET cu == CpuUpdate(d, s, policy, create)
           IN  /\ AfterAll(c, cu).latency = c.latency
               /\ AfterAll(c, CreateOnlySetup("cpu", s) \o cu).latency = Latency(s)
<1> DEFINE cu == CpuUpdate(d, s, policy, create)
           W  == {"shares", "quota", "period", "cpus", "refused"}
           a  == CreateOnlySetup("cpu", s)
           v  == [f \in {"latency"} |-> Latency(s)]
<1>1. IsWrites(cu, W)
  BY CpuWrites
<1>2. a = Optional("latency", Latency(s))
  BY DEF CreateOnlySetup, Latency
<1>3. \A g \in W : ~Touches(g, "latency")
  BY DEF Touches, Twin
<1>4. /\ "latency" \notin DOMAIN Twin
      /\ v["latency"] = Stored("latency", Latency(s))
  BY DEF Twin, Stored
<1> HIDE DEF cu, W, v
<1>5. AfterAll(c, cu).latency = c.latency
  <2>1. Len(cu) \in 0..Len(cu)
    BY <1>1, WritesAt
  <2>2. AfterWrites(c, cu, Len(cu))["latency"] = c["latency"]
    BY <1>1, <1>3, <2>1, AfterKeeps
  <2> QED
    BY <2>2 DEF AfterAll
<1>6. AfterAll(c, a \o cu).latency = Latency(s)
  <2>1. IsWrites(a, {"latency"})
    BY <1>2, OneWrite
  <2>2. Determines(a, DOMAIN c, Reach("latency", DOMAIN c), v)
    BY <1>2, <1>4, WriteDetermines
  <2>3. "latency" \in Reach("latency", DOMAIN c)
    BY DEF Reach, Touches
  <2>4. Determines(a, DOMAIN c, {"latency"}, v) /\ Determines(cu, DOMAIN c, {}, v)
    BY <2>2, <2>3 DEF Determines
  <2> HIDE DEF a
  <2>5. Determines(a \o cu, DOMAIN c, {"latency"} \cup {}, v)
    <3>1. {"latency"} \in SUBSET DOMAIN c
      OBVIOUS
    <3>2. \A f \in {"latency"} : \A g \in W : ~Touches(g, f)
      BY <1>3
    <3> QED
      BY <1>1, <2>1, <2>4, <3>1, <3>2, BothDetermine, Zenon
  <2>6. v["latency"] = Latency(s)
    BY DEF v
  <2> QED
    BY <2>5, <2>6 DEF Determines
<1> QED
  BY <1>5, <1>6 DEF cu

-----------------------------------------------------------------------------
(* Writes that the kernel, left alone, lets pass.                          *)
AllPass(c, ws) == Passes(c, ws, Len(ws))

(* If a passes and b passes from what a leaves, one after the other        *)
(* passes.                                                                 *)
LEMMA BothPass ==
    ASSUME NEW c, NEW a, NEW b, NEW W, IsWrites(a, W), IsWrites(b, W),
           AllPass(c, a), AllPass(AfterAll(c, a), b)
    PROVE  AllPass(c, a \o b)
<1>1. /\ Len(a) \in Nat /\ Len(b) \in Nat /\ Len(a \o b) = Len(a) + Len(b)
      /\ \A i \in 1..Len(a) : (a \o b)[i] = a[i]
      /\ \A i \in 1..Len(b) : (a \o b)[Len(a) + i] = b[i]
  BY ConcatAt
<1>0. /\ \A k \in 0..Len(a) : AfterWrites(c, a \o b, k) = AfterWrites(c, a, k)
      /\ \A k \in 0..Len(b) : AfterWrites(c, a \o b, Len(a) + k)
                               = AfterWrites(AfterAll(c, a), b, k)
  <2>1. InTurn(c, a, b)
    BY AfterTurns
  <2> QED
    BY <2>1 DEF InTurn
<1> SUFFICES ASSUME NEW i \in 1..Len(a \o b)
             PROVE  Outcome(AfterWrites(c, a \o b, i - 1), (a \o b)[i]) = "OK"
  BY DEF AllPass, Passes
<1>2. CASE i <= Len(a)
  <2>1. i \in 1..Len(a) /\ i - 1 \in 0..Len(a)
    BY <1>1, <1>2
  <2>2. AfterWrites(c, a \o b, i - 1) = AfterWrites(c, a, i - 1)
    BY <1>0, <2>1
  <2> QED
    BY <1>1, <2>1, <2>2 DEF AllPass, Passes
<1>3. CASE i > Len(a)
  <2> DEFINE j == i - Len(a)
  <2>1. /\ j \in 1..Len(b) /\ j - 1 \in 0..Len(b)
        /\ i = Len(a) + j /\ i - 1 = Len(a) + (j - 1)
    BY <1>1, <1>3
  <2> HIDE DEF j
  <2>2. AfterWrites(c, a \o b, Len(a) + (j - 1)) = AfterWrites(AfterAll(c, a), b, j - 1)
    BY <1>0, <2>1
  <2>3. (a \o b)[i] = b[j]
    BY <1>1, <2>1
  <2>4. Outcome(AfterWrites(AfterAll(c, a), b, j - 1), b[j]) = "OK"
    BY <2>1 DEF AllPass, Passes
  <2> QED
    BY <2>1, <2>2, <2>3, <2>4
<1> QED
  BY <1>1, <1>2, <1>3

(* One write passes when the kernel takes it.                              *)
LEMMA OnePasses ==
    ASSUME NEW c, NEW f, NEW v
    PROVE  /\ Outcome(c, [file |-> f, value |-> v, optional |-> FALSE]) = "OK"
                 => AllPass(c, Write(f, v))
           /\ Outcome(c, [file |-> f, value |-> v, optional |-> TRUE]) = "OK"
                 => AllPass(c, Optional(f, v))
<1>1. ASSUME NEW w, Outcome(c, w) = "OK"
      PROVE  AllPass(c, <<w>>)
  <2> SUFFICES ASSUME NEW i \in 1..Len(<<w>>)
               PROVE  Outcome(AfterWrites(c, <<w>>, i - 1), <<w>>[i]) = "OK"
    BY DEF AllPass, Passes
  <2>1. i - 1 = 0 /\ <<w>>[i] = w
    OBVIOUS
  <2> QED
    BY <1>1, <2>1, AfterWritesStep
<1> QED
  BY <1>1, Zenon DEF Write, Optional

(* The kernel minds only how the two limits stand to each other: other    *)
(* writes pass in every cgroup with the files D.                           *)
PassesIn(ws, D) == \A d : DOMAIN d = D => AllPass(d, ws)

(* A write passes whatever the files hold, unless it is to one of the two  *)
(* files whose limits the kernel compares.                                 *)
LEMMA OnePassesIn ==
    ASSUME NEW D, NEW f, NEW v, f \notin {"refused", "limit", "memsw"},
           f = "soft" => ~(v >= kint64max)
    PROVE  /\ f \in D => PassesIn(Write(f, v), D)
           /\ PassesIn(Optional(f, v), D)
<1>1. ASSUME NEW d, DOMAIN d = D
      PROVE  /\ f \in D => Outcome(d, [file |-> f, value |-> v, optional |-> FALSE]) = "OK"
             /\ Outcome(d, [file |-> f, value |-> v, optional |-> TRUE]) = "OK"
  BY <1>1 DEF Outcome, Rejects
<1> QED
  BY <1>1, OnePasses DEF PassesIn

(* Of two such parts of a handler, one after the other passes.             *)
LEMMA BothPassIn ==
    ASSUME NEW D, NEW a, NEW b, NEW W, IsWrites(a, W), IsWrites(b, W),
           PassesIn(a, D), PassesIn(b, D)
    PROVE  PassesIn(a \o b, D)
<1> SUFFICES ASSUME NEW d, DOMAIN d = D
             PROVE  AllPass(d, a \o b)
  BY DEF PassesIn
<1>1. DOMAIN AfterAll(d, a) = D
  BY AfterKeeps, WritesAt DEF AfterAll
<1>2. AllPass(d, a) /\ AllPass(AfterAll(d, a), b)
  BY <1>1 DEF PassesIn
<1> QED
  BY <1>2, BothPass

(* Nothing to write always passes.                                         *)
LEMMA NothingPassesIn ==
    ASSUME NEW D
    PROVE  PassesIn(<<>>, D)
  BY DEF PassesIn, AllPass, Passes

(* SetDirty passes in a REPLACE on a kernel that has the files that are    *)
(* given.                                                                  *)
LEMMA SetDirtyPasses ==
    ASSUME NEW s, NEW D, DOMAIN s \subseteq D, ~(LimitGiven(s) /\ RatioGiven(s))
    PROVE  PassesIn(SetDirty(s, "REPLACE"), D)
<1> DEFINE given(f)      == Unless(f \notin DOMAIN s, Write(f, s[f]))
           default(f, v) == Unless(f \in DOMAIN s, Default("REPLACE", Optional(f, v)))
           dl  == default("dirty_limit", 0) \o default("dirty_bg_limit", 0)
           dr  == default("dirty_ratio", 75) \o default("dirty_bg_ratio", 10)
           F   == {"dirty_ratio", "dirty_bg_ratio", "dirty_limit", "dirty_bg_limit"}
           g12 == given("dirty_ratio") \o given("dirty_bg_ratio")
           g13 == g12 \o given("dirty_limit")
           g14 == g13 \o given("dirty_bg_limit")
           good(ws) == IsWrites(ws, F) /\ PassesIn(ws, D)
<1>1. SetDirty(s, "REPLACE") = IF LimitGiven(s) THEN g14 \o dl ELSE g14 \o dr
  BY DEF SetDirty, LimitGiven, RatioGiven
<1>2. \A f \in F : \A v : /\ IsWrites(Write(f, v), F) /\ IsWrites(Optional(f, v), F)
                          /\ f \in D => PassesIn(Write(f, v), D)
                          /\ PassesIn(Optional(f, v), D)
  BY OneWrite, OnePassesIn
<1>3. good(<<>>)
  BY NoWrites, NothingPassesIn
<1>4. \A f \in F : good(given(f))
  BY <1>2, <1>3 DEF Unless
<1>5. \A f \in F : \A v : good(default(f, v))
  BY <1>2, <1>3 DEF Unless, Default
<1>6. ASSUME NEW a, NEW b, good(a), good(b)
      PROVE  good(a \o b)
  <2>1. IsWrites(a \o b, F)
    BY <1>6, MoreWrites
  <2>2. PassesIn(a \o b, D)
    BY <1>6, BothPassIn
  <2> QED
    BY <2>1, <2>2
<1> HIDE DEF given, default, good
<1>7. good(dl) /\ good(dr) /\ good(g12)
  BY <1>4, <1>5, <1>6
<1> HIDE DEF dl, dr, g12
<1>8. good(g13)
  BY <1>4, <1>6, <1>7
<1> HIDE DEF g13
<1>9. good(g14)
  BY <1>4, <1>6, <1>8
<1> HIDE DEF g14
<1>10. good(SetDirty(s, "REPLACE"))
  BY <1>1, <1>6, <1>7, <1>9, ZenonT(60)
<1> QED
  BY <1>10 DEF good

-----------------------------------------------------------------------------
(* What GetMilliCpus reports of a limit SetMilliCpus has set is the limit  *)
(* or one less, whatever the limit, and a positive limit is never reported *)
(* as 0.                                                                   *)
THEOREM MilliCpusReadBack ==
    ASSUME NEW m \in Nat, m >= 2
    PROVE  SharesToMilliCpus(MilliCpusToShares(m)) \in {m - 1, m}
  BY SMTT(60) DEF SharesToMilliCpus, MilliCpusToShares, kMinShares, kPerCpuShares,
     kCpusToMilliCpus

(* Both 0 and 1 are raised to the kernel's minimum, which reads as 1.      *)
THEOREM SmallestMilliCpus ==
    ASSUME NEW m \in {0, 1}
    PROVE  SharesToMilliCpus(MilliCpusToShares(m)) = 1
  BY SMTT(60) DEF SharesToMilliCpus, MilliCpusToShares, kMinShares, kPerCpuShares,
     kCpusToMilliCpus

(* A quota that SetMaxMilliCpus accepts is reported exactly.               *)
THEOREM MaxMilliCpusReadBack ==
    ASSUME NEW m \in Nat
    PROVE  QuotaToMilliCpus(QuotaUsecs(m)) = m
  BY SMTT(60) DEF QuotaToMilliCpus, QuotaUsecs, kHardcapPeriodUsecs, kUsecsPerMilliSecs

(* Writing back what was read settles: shares that stand for a multiple of *)
(* 125 thousandths are exact.                                              *)
THEOREM ExactMilliCpus ==
    ASSUME NEW k \in Nat, k > 0
    PROVE  SharesToMilliCpus(MilliCpusToShares(125 * k)) = 125 * k
  BY SMTT(60) DEF SharesToMilliCpus, MilliCpusToShares, kMinShares, kPerCpuShares,
     kCpusToMilliCpus
=============================================================================
