--------------------------- MODULE MCCgroupFactory ---------------------------
(* CgroupFactory with cpu, freezer and memory.                             *)
EXTENDS CgroupFactory

Cpu     == 1
Freezer == 4
Memory  == 7

Hierarchies == {Cpu, Freezer, Memory}
Requests ==
    {<<h>> : h \in Hierarchies} \cup
    {req \in Hierarchies \X Hierarchies : req[1] # req[2]}
=============================================================================
