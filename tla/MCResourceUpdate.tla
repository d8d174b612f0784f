-------------------------- MODULE MCResourceUpdate --------------------------
(* Instances of ResourceUpdate for TLC.                                    *)
EXTENDS ResourceUpdate

Memory(m)  == [memory |-> m]
Cpu(c)     == [cpu |-> c]
Allow(d)   == [allow |-> TRUE, device |-> d, access |-> 1]
Deny(d)    == [allow |-> FALSE, device |-> d, access |-> 3]
Malformed  == [allow |-> FALSE, device |-> "a", access |-> 0]
Device(ds) == [device |-> [devices |-> ds]]

Requests ==
    {Memory(NoFields),
     Memory([limit |-> 1, memsw |-> 2]),
     Memory([limit |-> 2, soft |-> 1, oom |-> 10000]),
     Memory([dirty_limit |-> 1, stale |-> 3]),
     Memory([dirty_limit |-> 1, dirty_bg_limit |-> 1]),
     Memory([dirty_limit |-> 1, dirty_ratio |-> 1, comp |-> 1]),
     Cpu(NoFields),
     Cpu([shares |-> 1, quota |-> 4]),
     Cpu([latency |-> "NORMAL", shares |-> 1001, cpus |-> {0}]),
     Cpu([shares |-> 0, quota |-> 3]),
     Device(<<Deny("a"), Allow("b")>>),
     Device(<<Deny("b"), Malformed>>),
     [memory |-> NoFields, cpu |-> NoFields],
     [memory |-> [dirty_bg_ratio |-> 3, kmem |-> 1], cpu |-> [quota |-> 8]],
     [cpu |-> [shares |-> 500], device |-> [devices |-> <<Allow("a")>>]]}

AllFiles == {"oom", "memsw", "comp", "stale", "dirty_ratio", "dirty_bg_ratio",
             "dirty_limit", "dirty_bg_limit", "kmem", "latency", "cpus"}
OldAndNew == {AllFiles, {"memsw"}}
=============================================================================
