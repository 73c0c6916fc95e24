------------------------------ MODULE MCPyNode ------------------------------
(***************************************************************************)
(* A small instance of PyNode for TLC: getters that meet at the lock while *)
(* the node restarts, one heartbeat in a row is lost and ticks find one    *)
(* event or two.                                                           *)
(***************************************************************************)
EXTENDS PyNode

TwoGetters == {"g1", "g2"}
=============================================================================
