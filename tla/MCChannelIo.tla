---------------------------- MODULE MCChannelIo -----------------------------
(***************************************************************************)
(* Small instances of ChannelIo for TLC: two calls at once to a node that  *)
(* may be any product; refused are one node-ID, a setting past the last    *)
(* and the channel whose register has no name.                             *)
(***************************************************************************)
EXTENDS ChannelIo, TLC

\* a read of six words, one whose register may have no name, a setting that has a last value,
\* and the function whose callback compares
Various == {"vpe6010_read", "vpe6190_read", "vpe6050_configure", "node_set_sample_interval"}
Interval == {"node_set_sample_interval"}

OneCall == {1}
OneNode == {5}
LastNodes == {5, 127}
OneChannel == {0}
LastChannels == {2, 3}
TwoSamples == {1, 2}
AllShapes == [type : {"u8", "u16", "u32"}, length : {1}] \cup
             {[type |-> "u16", length |-> 6], [type |-> "empty", length |-> 0]}
Interchangeable == Permutations(Calls)
=============================================================================
