----------------------------- MODULE MCCanardTx -----------------------------
(***************************************************************************)
(* A small instance of CanardTx for TLC: CAN FD as the library uses it,    *)
(* and the sizes around which frames are padded or full, a transfer gets  *)
(* a second frame, and its CRC fits, splits, or has a frame of its own.    *)
(***************************************************************************)
EXTENDS CanardTx

CanFd == 0..8 \cup {12, 16, 20, 24, 32, 48, 64}
SomeSizes == {0, 7, 8, 47, 61, 63, 64, 73, 124, 125, 126, 127}
TwoIds == {1, 2}
=============================================================================
