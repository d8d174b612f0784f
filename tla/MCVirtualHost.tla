--------------------------- MODULE MCVirtualHost ---------------------------
(* Instances of VirtualHost for TLC.                                       *)
EXTENDS VirtualHost
=============================================================================
