----------------------------- MODULE MCPyFuture -----------------------------
(***************************************************************************)
(* A small instance of PyFuture for TLC: two calls of any wrappers, under  *)
(* way at once.                                                            *)
(***************************************************************************)
EXTENDS PyFuture

TwoFutures == 1..2
=============================================================================
