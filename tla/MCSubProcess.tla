---------------------------- MODULE MCSubProcess ----------------------------
(* Instances of SubProcess for TLC.                                        *)
EXTENDS SubProcess
=============================================================================
