--------------------------- MODULE MCNotifications ---------------------------
(* Notifications with two user threads.                                    *)
EXTENDS Notifications

TwoThreads == {"t1", "t2"}
=============================================================================
