---------------------------- MODULE MCContainers ----------------------------
(* Constants of ContainerLifecycle for TLC.                                *)
EXTENDS ContainerLifecycle

(* "/", a top-level container and its subcontainer.                        *)
ChainName   == {"/", "/a", "/a/b"}
ChainParent == [n \in ChainName |-> IF n = "/a/b" THEN "/a" ELSE "/"]
ChainUnder  == [n \in ChainName |->
                   CASE n = "/"  -> ChainName
                     [] n = "/a" -> {"/a", "/a/b"}
                     [] OTHER    -> {n}]
ChainOrder  == [n \in ChainName |->
                   CASE n = "/"  -> 0
                     [] n = "/a" -> 1
                     [] OTHER    -> 2]

OneTree == <<1>> \* one resource with one hierarchy, as memory
=============================================================================
