----------------------------- MODULE MCSyncApi ------------------------------
(***************************************************************************)
(* A small instance of SyncApi for TLC: two calls, of which one may be     *)
(* made from a callback of the other.  MCTools makes calls one after the   *)
(* other, as the terminal tools do.                                        *)
(***************************************************************************)
EXTENDS SyncApi

TwoCalls == 1..2
=============================================================================
