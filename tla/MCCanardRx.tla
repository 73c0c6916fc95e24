----------------------------- MODULE MCCanardRx -----------------------------
(***************************************************************************)
(* A small instance of CanardRx for TLC: as many transfers as it takes for *)
(* a transfer-ID to come back, empty, of one frame, two, and three; room   *)
(* for all of the data and a part of the CRC.                              *)
(***************************************************************************)
EXTENDS CanardRx

EmptyToThree == 0..3
=============================================================================
