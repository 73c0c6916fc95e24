--------------------------- MODULE MCAsyncRequests --------------------------
(***************************************************************************)
(* A small instance of AsyncRequests for TLC.  Two transfer-IDs instead of *)
(* 32 let a third request to the same channel reuse an identifier that is  *)
(* still in use; at the last node-ID one service is served and the other   *)
(* is refused.                                                             *)
(***************************************************************************)
EXTENDS AsyncRequests

InfoAndAccess == {GetInfo, RegAccess}
LastNode == {127}
=============================================================================
