------------------------- MODULE MCConfigureFanout --------------------------
(***************************************************************************)
(* A small instance of ConfigureFanout for TLC: two configure calls over   *)
(* two records, so that both are under way at once or one takes over the   *)
(* record of the other, finished one.                                      *)
(***************************************************************************)
EXTENDS ConfigureFanout

TwoOps == 1..2
TwoCells == 1..2
=============================================================================
