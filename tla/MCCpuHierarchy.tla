--------------------------- MODULE MCCpuHierarchy ---------------------------
(* Instances of CpuHierarchy for TLC.                                      *)
EXTENDS CpuHierarchy

(* No two containers have the same base name.                              *)
DistinctNames == {<<"a">>, <<"a", "t">>, <<"a", "t", "s">>}
=============================================================================
