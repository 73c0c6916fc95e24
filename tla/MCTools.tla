------------------------------ MODULE MCTools -------------------------------
(***************************************************************************)
(* The user starts one of the terminal tools: a program of Tools, or the   *)
(* updater of FwUpdate.  Neither part changes the state of the other.      *)
(***************************************************************************)
EXTENDS Tools, FwUpdate

\* no program makes more calls than 6050cal
SomeCalls == 1..(6 * Channels + 3)

Fill(n) == [i \in 1..n |-> i % 256]

\* names of regtool's registers are no names of channels
NineTimes(n) == [i \in 1..n |-> 9]

\* registers at the edges of their length, and of the length of a name
SomeRegisters ==
  <<[name |-> NineTimes(1), reg |-> [type |-> UINT8, length |-> 256, value |-> Fill(256)]],
    [name |-> NineTimes(2), reg |-> [type |-> 7, length |-> 3, value |-> Fill(3)]],
    [name |-> NineTimes(5), reg |-> [type |-> BIT, length |-> 12, value |-> Fill(2)]],
    [name |-> NineTimes(17), reg |-> [type |-> UINT16, length |-> 128, value |-> Fill(256)]],
    [name |-> NineTimes(50), reg |-> [type |-> 9, length |-> 64, value |-> Fill(256)]]>>

SomeWritten ==
  {[type |-> UINT8, length |-> 256, value |-> Fill(256)],
   [type |-> UINT8, length |-> 257, value |-> Fill(257)],
   [type |-> BIT, length |-> 16, value |-> Fill(2)],
   [type |-> BIT, length |-> 12, value |-> Fill(2)],
   [type |-> UINT16, length |-> 128, value |-> Fill(256)],
   [type |-> 8, length |-> 1, value |-> Fill(8)],
   [type |-> 15, length |-> 0, value |-> <<>>]}

SomeInfo(name, crc, coa) ==
  [versions |-> Fill(6), vcs |-> Fill(8), uid |-> Fill(16),
   name |-> Fill(name), crc |-> Fill(crc), coa |-> Fill(coa)]

SomeInfos == {SomeInfo(0, 0, 0), SomeInfo(50, 8, 222), SomeInfo(10, 0, 3), SomeInfo(3, 8, 0)}

AllPrograms ==
  {"6040_5vcal", "6040macal", "6040_10vcal", "6180a_cal", "6090ccal", "6090cal", "6050cal", "6070cal", "6190a_conf",
   "store", "factoryreset", "infodump", "regtool_dump", "regtool_read", "write"}

SomeNodeIds == {3, 127}

\* no tool runs, or no updater
NoTool ==
  /\ Init
  /\ tool = [prog |-> "none", exit |-> "off", got |-> Found]
  /\ stdin = 0 /\ device = [eeprom |-> <<>>] /\ wire = {} /\ truth = Found /\ mishaps = 0
NoUpdater == at = "off" /\ size = 0 /\ AtRest

MCInit == (ToolInit /\ NoUpdater) \/ (NoTool /\ FwInit)

MCNext ==
  \/ tool.exit # "off" /\ ToolNext /\ UNCHANGED fwVars
  \/ at # "off" /\ FwNext /\ UNCHANGED allVars

MCSpec == MCInit /\ [][MCNext]_<<allVars, fwVars>> /\ ToolFairness /\ FwFairness
=============================================================================
