---------------------------- MODULE MCEventLoop -----------------------------
(***************************************************************************)
(* Small instances of EventLoop for TLC.  Three descriptors for two nodes  *)
(* and the requests make every number change hands between a request and a *)
(* heartbeat timer; with two, timerfd_create fails.                        *)
(***************************************************************************)
EXTENDS EventLoop

TwoNodes == {1, 126}
LastNode == {1, 127}
=============================================================================
