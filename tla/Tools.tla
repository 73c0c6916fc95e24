------------------------------- MODULE Tools --------------------------------
(***************************************************************************)
(* The terminal tools (src/src/tools): programs that make blocking calls   *)
(* one after the other, ask the operator for signals and measurements, and *)
(* leave calibration values in a node.  A tool is the sequence of its      *)
(* steps, a block for each channel and an ending; a step that calls the    *)
(* library is a call of SyncApi, with the payloads of RegisterCodec.       *)
(*                                                                         *)
(* The node and the operator are external.  The node has registers in      *)
(* memory and a copy in its EEPROM, which it loads when it is told to      *)
(* restart; it may handle a request after the tool has given it up.  The   *)
(* operator applies the signal a tool asks for before he presses a key;    *)
(* stdin keeps a line, so a key other than Enter leaves the end of it.     *)
(*                                                                         *)
(* Data: a measurement is two bytes, the signal that was applied and the   *)
(* mode the channel was in.  A register is named by channel and kind.      *)
(*                                                                         *)
(* A definition marked "fault" is a slip a change of the code could make,  *)
(* placed before the one it would replace and used by no other.            *)
(***************************************************************************)
EXTENDS SyncApi, RegisterCodec, FiniteSets

CONSTANTS
  Programs,    \* the tools that may be started
  Channels,    \* bound: channels of a product; 3, 4, 6 or 8 in the code
  NodeIds,     \* the node-IDs that may be given
  Registers,   \* what regtool finds: a sequence of [name, reg]
  Written,     \* registers regtool or another application writes
  Infos,       \* node information
  MaxMishaps   \* bound: what goes wrong and no tool notices

ASSUME ChannelsAssumption == Channels \in Nat \ {0}
ASSUME NodeIdsAssumption == NodeIds \subseteq 0..127
ASSUME MishapsAssumption == MaxMishaps \in Nat

VARIABLES
  tool,   \* [prog, id, ch, pc, exit, acc, low, high, index, got, printed]
  stdin,  \* characters waiting in the tool's input
  device, \* external: [ram, eeprom, input, point, info], the node and what is connected to it
  wire,   \* requests on their way to the node and answers on their way back
  truth,  \* history: what the last call of the tool should have found
  mishaps \* history: keys too many and outputs that were not switched over

toolVars == <<tool, stdin, device, wire, truth, mishaps>>
allVars  == <<vars, toolVars>>

STORE         == 65530
FACTORY_RESET == 65532
RESTART       == 65535
TEST_POINT    == 0

ACCESS  == 384
LIST    == 385
INFO    == 430
COMMAND == 435

\* kinds of registers: mode or type of a channel, its counts, and what calibration writes
MODE   == 1
COUNTS == 2
CAL    == 3
SINK   == 4

ChannelNames == (1..Channels) \X {MODE, COUNTS, CAL, SINK}

ASSUME RegistersAssumption ==
  /\ Registers \in Seq([name : Seq(Nat), reg : Register])
  /\ Len(Registers) <= 65536
  /\ {"regtool_read", "write"} \cap Programs # {} => Registers # <<>>
  /\ \A i \in DOMAIN Registers :
       /\ Len(Registers[i].name) \in 1..NAME_MAX
       /\ Registers[i].name \notin ChannelNames
       /\ WellFormed(Registers[i].reg)
       /\ \A j \in DOMAIN Registers : Registers[i].name = Registers[j].name => i = j
ASSUME WrittenAssumption == \A reg \in Written : Valid(reg) => WellFormed(reg)
ASSUME InfosAssumption == \A info \in Infos : Information(info)

NullReg   == [type |-> EMPTY, length |-> 0, value |-> <<>>]
Uint8(b)  == [type |-> UINT8, length |-> 1, value |-> <<b>>]
Uint16(v) == [type |-> UINT16, length |-> Len(v) \div 2, value |-> v]

\* what a call finds, of which it writes one member for its caller
Found           == [reg |-> NullReg, name |-> <<>>, info |-> NoInfo]
FoundReg(reg)   == [Found EXCEPT !.reg = reg]
FoundName(name) == [Found EXCEPT !.name = name]
FoundInfo(info) == [Found EXCEPT !.info = info]

-----------------------------------------------------------------------------
(***************************************************************************)
(* The programs.                                                           *)
(***************************************************************************)
Set(ch, kind, mode)    == [op |-> "set", name |-> <<ch, kind>>, reg |-> Uint8(mode)]
Prompt(ch, signal)     == [op |-> "prompt", ch |-> ch, signal |-> signal]
Counts(ch, half)       == [op |-> "counts", name |-> <<ch, COUNTS>>, half |-> half]
Pair(ch, less)         == [op |-> "pair", name |-> <<ch, CAL>>, less |-> less]
Offset(ch)             == [op |-> "offset", name |-> <<ch, CAL>>]
Command(number, param, needs) ==
  [op |-> "command", number |-> number, param |-> param, needs |-> needs]
Measure(half)          == [op |-> "measure", half |-> half]
Measured(ch, kind)     == [op |-> "measured", name |-> <<ch, kind>>]
Choose(ch, kind)       == [op |-> "choose", name |-> <<ch, kind>>]
Chosen(ch, kind)       == [op |-> "chosen", name |-> <<ch, kind>>]

Store == Command(STORE, <<>>, "nothing")

\* fault: the second reading is taken before the operator is asked for the second signal
TwoPointsAtOnce(ch) ==
  <<Prompt(ch, 1), Counts(ch, "low"), Counts(ch, "high"), Prompt(ch, 2), Pair(ch, FALSE)>>

\* 6180a_cal
TwoPoints(ch) ==
  <<Prompt(ch, 1), Counts(ch, "low"), Prompt(ch, 2), Counts(ch, "high"), Pair(ch, FALSE)>>

\* the three programs for the 6040, one for each mode of its channels
FiveVolts(ch)    == <<Set(ch, MODE, 0)>> \o TwoPoints(ch)
Milliamperes(ch) == <<Set(ch, MODE, 1)>> \o TwoPoints(ch)
TenVoltsIn(ch)   == <<Set(ch, MODE, 2)>> \o TwoPoints(ch)

\* 6090ccal: readings less 32768; 6090cal: one reading, written back as it came
ColdJunction(ch) ==
  <<Set(ch, MODE, 4), Prompt(ch, 1), Counts(ch, "low"), Prompt(ch, 2), Counts(ch, "high"),
    Pair(ch, TRUE)>>
ZeroVolts(ch) == <<Set(ch, MODE, 1), Prompt(ch, 1), Counts(ch, "low"), Offset(ch)>>

\* two outputs of the node are measured by hand
Outputs(ch, first, kind) ==
  <<Command(TEST_POINT, <<first>>, "nothing"), Measure("low"),
    Command(TEST_POINT, <<first + 1>>, "nothing"), Measure("high"),
    Measured(ch, kind)>>
SourceAndSink(ch) == Outputs(ch, 1, CAL) \o Outputs(ch, 3, SINK)
TenVolts(ch)      == Outputs(ch, 1, CAL)

Wiring(ch) == <<Choose(ch, CAL), Chosen(ch, CAL), Choose(ch, SINK), Chosen(ch, SINK)>>

OutputsOff == Command(TEST_POINT, <<0>>, "nothing")

\* what a program does for each channel of the product
ChannelSteps(prog, ch) ==
  CASE prog = "6040_5vcal"  -> FiveVolts(ch)
    [] prog = "6040macal"   -> Milliamperes(ch)
    [] prog = "6040_10vcal" -> TenVoltsIn(ch)
    [] prog = "6180a_cal"   -> TwoPoints(ch)
    [] prog = "6090ccal"    -> ColdJunction(ch)
    [] prog = "6090cal"     -> ZeroVolts(ch)
    [] prog = "6050cal"     -> SourceAndSink(ch)
    [] prog = "6070cal"     -> TenVolts(ch)
    [] prog = "6190a_conf"  -> Wiring(ch)
    [] OTHER                -> <<>>

\* and what it does then, or instead
LastSteps(prog) ==
  CASE prog \in {"6050cal", "6070cal"} -> <<OutputsOff, Store>>
    [] prog = "factoryreset" -> <<Command(FACTORY_RESET, <<>>, "success"),
                                  Command(RESTART, <<>>, "answer")>>
    [] prog = "infodump"     -> <<[op |-> "info"]>>
    [] prog = "regtool_dump" -> <<[op |-> "list"], [op |-> "listed"]>>
    [] prog = "regtool_read" -> <<[op |-> "read", name |-> Registers[1].name]>>
    [] prog = "write"        -> <<[op |-> "write", name |-> Registers[1].name]>>
    [] OTHER                 -> <<Store>>

\* the ending is behind the last channel
StepsAt(prog, ch) == IF ch <= Channels THEN ChannelSteps(prog, ch) ELSE LastSteps(prog)

FirstChannel(prog) == IF ChannelSteps(prog, 1) = <<>> THEN Channels + 1 ELSE 1

-----------------------------------------------------------------------------
(***************************************************************************)
(* The calls of a step.                                                    *)
(***************************************************************************)
Running == tool.exit = "running" /\ frames = <<>>
Step    == StepsAt(tool.prog, tool.ch)[tool.pc]

Accesses == {"set", "counts", "pair", "offset", "measured", "chosen", "read", "write", "listed"}
IsCall   == Step.op \in Accesses \cup {"command", "list", "info"}

\* subtracting 32768 from 16 bits turns the highest one over
Less32768(word) == [word EXCEPT ![2] = (@ + 128) % 256]

\* regw of the access; NullReg where the code passes NULL
Regw ==
  CASE Step.op = "set"      -> Step.reg
    [] Step.op = "pair"     ->
         LET low  == IF Step.less THEN Less32768(tool.low) ELSE tool.low
             high == IF Step.less THEN Less32768(tool.high) ELSE tool.high
         IN  [type |-> tool.acc.type, length |-> 2, value |-> low \o high]
    [] Step.op = "offset"   -> tool.acc
    [] Step.op = "measured" -> Uint16(tool.low \o tool.high)
    [] Step.op = "chosen"   -> [type |-> UINT8, length |-> 1, value |-> tool.low]
    [] Step.op = "write"    -> tool.acc
    [] OTHER                -> NullReg

Name == IF Step.op = "listed" THEN tool.got.name ELSE Step.name

Refused ==
  /\ Step.op \in Accesses
  /\ tool.id >= 127 \/ ~Valid(Regw)

RequestOf(c) ==
  [kind |-> "request", call |-> c,
   port |-> CASE Step.op \in Accesses -> ACCESS
              [] Step.op = "command"  -> COMMAND
              [] Step.op = "list"     -> LIST
              [] Step.op = "info"     -> INFO,
   payload |-> CASE Step.op \in Accesses -> AccessRequest(Name, Regw)
                 [] Step.op = "command"  -> CommandRequest(Step.number, Step.param)
                 [] Step.op = "list"     -> ListRequest(tool.index)
                 [] Step.op = "info"     -> <<>>]

\* one call after the other, each with a number of its own
NextCall == CHOOSE c \in Idle : TRUE

ToolRefused ==
  /\ Running
  /\ IsCall
  /\ Idle # {}
  /\ Refused
  /\ CallRefused(NextCall)
  /\ tool' = [tool EXCEPT !.exit = "failed"]
  /\ UNCHANGED <<stdin, device, wire, truth, mishaps>>

\* the request is sent whether or not its timer could be registered
ToolCalls ==
  /\ Running
  /\ IsCall
  /\ Idle # {}
  /\ ~Refused
  /\ CallStarted(NextCall)
  /\ wire' = wire \cup {RequestOf(NextCall)}
  /\ UNCHANGED <<tool, stdin, device, truth, mishaps>>

ToolWaits == (LoopOnce \/ TickReturns) /\ UNCHANGED toolVars

-----------------------------------------------------------------------------
(***************************************************************************)
(* The end of an operation, in a tick of the call.                         *)
(***************************************************************************)
HasRegr == Step.op \in {"counts", "read", "write", "listed"}

\* what the response handler makes of the answer: the result and what it writes for the caller
Decoded(m) ==
  LET access == AccessAnswer(CutTo(ACCESS_EXTENT, m.payload))
      info   == InfoAnswer(CutTo(INFO_EXTENT, m.payload))
      status == CommandAnswer(CutTo(COMMAND_EXTENT, m.payload))
  IN  CASE m.port = ACCESS  -> [r |-> access.r, got |-> IF HasRegr THEN FoundReg(access.reg) ELSE tool.got]
        [] m.port = LIST    -> [r |-> "0", got |-> FoundName(ListAnswer(CutTo(LIST_EXTENT, m.payload)))]
        [] m.port = INFO    -> [r |-> info.r, got |-> FoundInfo(info.info)]
        [] m.port = COMMAND -> [r |-> IF status = 0 THEN "0" ELSE "status", got |-> tool.got]

WholeBytes(reg) == (reg.length * BitWidth(reg.type)) % 8 = 0

\* no tool looks whether the outputs of the node were switched over
Mishap(r) == Step.op = "command" /\ Step.number = TEST_POINT /\ r # "0"

Counted(mishap) == mishaps' = IF mishap THEN mishaps + 1 ELSE mishaps
MayGoWrong      == mishaps < MaxMishaps

Answered(m) ==
  LET d == Decoded(m)
  IN  /\ m.kind = "answer"
      /\ SyncCallback(m.call)
      /\ sync_return'.r = d.r
      /\ wire' = wire \ {m}
      /\ tool' = [tool EXCEPT !.got = d.got]
      /\ truth' = IF d.r # "0" \/ m.port = COMMAND \/ (m.port = ACCESS /\ ~HasRegr) THEN d.got
                  ELSE IF Step.op = "write" /\ WholeBytes(Regw) THEN FoundReg(Regw)
                  ELSE m.truth
      /\ Counted(Mishap(d.r))
      /\ UNCHANGED <<stdin, device>>

\* an answer that comes later finds no task; the request may still reach the node
TimedOut(c) ==
  /\ SyncCallback(c)
  /\ sync_return'.r = "ETIMEDOUT"
  /\ wire' = {m \in wire : m.kind = "request" \/ m.call # c}
  /\ Mishap("ETIMEDOUT") => MayGoWrong
  /\ Counted(Mishap("ETIMEDOUT"))
  /\ UNCHANGED <<tool, stdin, device, truth>>

-----------------------------------------------------------------------------
(***************************************************************************)
(* The tool goes on with what the call returned.                           *)
(***************************************************************************)
NextStep(t) ==
  IF t.pc < Len(StepsAt(t.prog, t.ch)) THEN [t EXCEPT !.pc = @ + 1]
  ELSE IF t.ch <= Channels THEN [t EXCEPT !.ch = @ + 1, !.pc = 1]
  ELSE [t EXCEPT !.exit = "done"]

Half(t, half, word) == IF half = "low" THEN [t EXCEPT !.low = word] ELSE [t EXCEPT !.high = word]

Failed(r) ==
  IF Step.op = "command"
  THEN \/ Step.needs = "success" /\ r # "0"
       \/ Step.needs = "answer" /\ r \notin {"0", "status"}
  ELSE r # "0"

\* fault: the index stays
PrintedAndAgain(t) == [t EXCEPT !.pc = 1, !.printed = Append(@, t.got.reg)]

\* the index of a name has 16 bits
INDEX_MAX == 65535

\* regtool prints the register and asks for the next name
Printed(t) ==
  LET after == [t EXCEPT !.printed = Append(@, t.got.reg)]
  IN  IF t.index = INDEX_MAX THEN [after EXCEPT !.exit = "done"]
      ELSE [after EXCEPT !.pc = 1, !.index = @ + 1]

\* what the tool does with a result that is not an error; regtool lists until a name is empty
After(t) ==
  CASE Step.op = "counts" -> NextStep(Half([t EXCEPT !.acc = t.got.reg], Step.half,
                                        GetBytes(t.got.reg.value, 0, 2)))
    [] Step.op = "list"   -> IF t.got.name = <<>> THEN [t EXCEPT !.exit = "done"] ELSE NextStep(t)
    [] Step.op = "listed" -> Printed(t)
    [] OTHER              -> NextStep(t)

ToolGoesOn ==
  /\ LoopDone
  /\ tool' = IF Failed(sync_return.r) THEN [tool EXCEPT !.exit = "failed"] ELSE After(tool)
  /\ UNCHANGED <<stdin, device, wire, truth, mishaps>>

-----------------------------------------------------------------------------
(***************************************************************************)
(* The operator.                                                           *)
(***************************************************************************)
Unasked == UNCHANGED <<vars, wire, truth>>

\* getc finds the end of a line that was typed before
PromptSkipped ==
  /\ Running
  /\ Step.op = "prompt"
  /\ stdin > 0
  /\ stdin' = stdin - 1
  /\ tool' = NextStep(tool)
  /\ Unasked /\ UNCHANGED <<device, mishaps>>

\* the operator applies the signal, then presses Enter, or another key and Enter
PromptAnswered(other) ==
  /\ Running
  /\ Step.op = "prompt"
  /\ stdin = 0
  /\ other => MayGoWrong
  /\ stdin' = IF other THEN 1 ELSE 0
  /\ device' = [device EXCEPT !.input[Step.ch] = Step.signal]
  /\ tool' = NextStep(tool)
  /\ Counted(other)
  /\ Unasked

\* scanf: what the operator reads from his meter, or something that is not a number
MeasureTyped(number) ==
  /\ Running
  /\ Step.op = "measure"
  /\ tool' = IF number THEN NextStep(Half(tool, Step.half, <<device.point, 0>>))
             ELSE [tool EXCEPT !.exit = "failed"]
  /\ Unasked /\ UNCHANGED <<stdin, device, mishaps>>

\* the question is repeated until the answer is y or n
YesOrNo(c) ==
  /\ Running
  /\ Step.op = "choose"
  /\ tool' = NextStep([tool EXCEPT !.low = <<c>>])
  /\ Unasked /\ UNCHANGED <<stdin, device, mishaps>>

OperatorAnswers ==
  \/ \E other \in BOOLEAN : PromptAnswered(other)
  \/ \E number \in BOOLEAN : MeasureTyped(number)
  \/ \E c \in {0, 1} : YesOrNo(c)

-----------------------------------------------------------------------------
(***************************************************************************)
(* External: the node.                                                     *)
(***************************************************************************)
RegisterOf(name) ==
  IF name \notin DOMAIN device.ram THEN NullReg
  ELSE IF name \in (1..Channels) \X {COUNTS}
       THEN Uint16(<<device.input[name[1]], GetU8(device.ram[<<name[1], MODE>>].value, 0)>>)
       ELSE device.ram[name]

Reply(m, payload, fact) ==
  wire' = (wire \ {m}) \cup
          {[kind |-> "answer", call |-> m.call, port |-> m.port, payload |-> payload, truth |-> fact]}

NodeAccesses(m) ==
  LET a    == NodeReadsAccess(m.payload)
      here == a.name \in DOMAIN device.ram
      new  == IF a.reg.type = EMPTY \/ ~here THEN RegisterOf(a.name) ELSE a.reg
  IN  /\ m.port = ACCESS
      /\ device' = IF here THEN [device EXCEPT !.ram[a.name] = new] ELSE device
      /\ Reply(m, NodeAnswersAccess(new), FoundReg(new))

NodeLists(m) ==
  LET i    == GetU16(m.payload, 0, 2) + 1
      name == IF i \in DOMAIN Registers THEN Registers[i].name ELSE <<>>
  IN  /\ m.port = LIST
      /\ Reply(m, NodeAnswersList(name), FoundName(name))
      /\ UNCHANGED device

NodeInforms(m) ==
  /\ m.port = INFO
  /\ Reply(m, NodeAnswersInfo(device.info), FoundInfo(InfoAsStructure(device.info)))
  /\ UNCHANGED device

Commanded(number, param) ==
  CASE number = STORE         -> [device EXCEPT !.eeprom = device.ram]
    [] number = FACTORY_RESET -> [device EXCEPT !.eeprom = [n \in DOMAIN @ |-> NullReg]]
    [] number = RESTART       -> [device EXCEPT !.ram = device.eeprom]
    [] number = TEST_POINT    -> [device EXCEPT !.point = param[1]]

\* the node does as it is told, or refuses
NodeObeys(m, status) ==
  /\ m.port = COMMAND
  /\ device' = IF status = 0 THEN Commanded(GetU16(m.payload, 0, 2), SubSeq(m.payload, 4, Len(m.payload)))
               ELSE device
  /\ Reply(m, <<status>>, Found)

NodeHandles(m) ==
  /\ m.kind = "request"
  /\ \/ NodeAccesses(m)
     \/ NodeLists(m)
     \/ NodeInforms(m)
     \/ NodeObeys(m, 0)
     \/ MayGoWrong /\ NodeObeys(m, 1)
  /\ UNCHANGED <<vars, tool, stdin, truth, mishaps>>

-----------------------------------------------------------------------------
Old == Uint8(9)

\* what a tool is to leave in a register of the node
Calibrates(prog) ==
  CASE prog \in {"6040_5vcal", "6040macal", "6040_10vcal", "6180a_cal", "6090ccal", "6090cal",
               "6070cal"} -> (1..Channels) \X {CAL}
    [] prog \in {"6050cal", "6190a_conf"} -> (1..Channels) \X {CAL, SINK}
    [] OTHER -> {}

Listed == {Registers[i].name : i \in DOMAIN Registers}

Memory(names) ==
  [n \in names |-> IF n \in Listed THEN (CHOOSE e \in ToSet(Registers) : e.name = n).reg ELSE Old]

\* the registers a tool may find in the node: those of the channels, one of which it may not have
Memories(prog) ==
  IF Calibrates(prog) = {} THEN {Memory(Listed)}
  ELSE {Memory(ChannelNames), Memory(ChannelNames \ {<<Channels, CAL>>})}

ToolInit ==
  /\ Init
  /\ \E prog \in Programs, id \in NodeIds :
       \E acc \in IF prog = "write" THEN Written ELSE {NullReg} :
         tool = [prog |-> prog, id |-> id, ch |-> FirstChannel(prog), pc |-> 1, exit |-> "running",
                 acc |-> acc, low |-> <<>>, high |-> <<>>, index |-> 0, got |-> Found,
                 printed |-> <<>>]
  /\ \E ram \in Memories(tool.prog),
        info \in IF tool.prog = "infodump" THEN Infos ELSE {NoInfo} :
       device = [ram |-> ram, eeprom |-> ram, input |-> [ch \in 1..Channels |-> 0], point |-> 0,
                 info |-> info]
  /\ stdin = 0
  /\ wire = {}
  /\ truth = Found
  /\ mishaps = 0

ToolNext ==
  \/ ToolRefused
  \/ ToolCalls
  \/ ToolWaits
  \/ \E m \in wire : Answered(m)
  \/ \E c \in Calls : TimedOut(c)
  \/ ToolGoesOn
  \/ PromptSkipped
  \/ OperatorAnswers
  \/ \E m \in wire : NodeHandles(m)

\* the program runs, its operator answers, the node handles what reaches it, and an operation that
\* was registered calls back while the call ticks: the conclusion of EveryRequestCompletes in
\* AsyncRequests
ToolFairness ==
  /\ WF_allVars(ToolRefused \/ ToolCalls \/ ToolWaits \/ ToolGoesOn \/ PromptSkipped)
  /\ WF_allVars(OperatorAnswers)
  /\ WF_allVars(\E m \in wire : NodeHandles(m))
  /\ SF_allVars((\E m \in wire : Answered(m)) \/ (\E c \in Calls : TimedOut(c)))

ToolSpec == ToolInit /\ [][ToolNext]_allVars /\ ToolFairness

-----------------------------------------------------------------------------
Right(prog, kind) ==
  CASE prog = "6040_5vcal" -> {Uint16(<<1, 0, 2, 0>>)}
    [] prog = "6040macal"  -> {Uint16(<<1, 1, 2, 1>>)}
    [] prog = "6040_10vcal" -> {Uint16(<<1, 2, 2, 2>>)}
    [] prog = "6180a_cal"  -> {Uint16(<<1, 9, 2, 9>>)}
    [] prog = "6090ccal"   -> {Uint16(<<1, 132, 2, 132>>)}
    [] prog = "6090cal"    -> {Uint16(<<1, 1>>)}
    [] prog = "6050cal"    -> {IF kind = CAL THEN Uint16(<<1, 0, 2, 0>>) ELSE Uint16(<<3, 0, 4, 0>>)}
    [] prog = "6070cal"    -> {Uint16(<<1, 0, 2, 0>>)}
    [] prog = "6190a_conf" -> {Uint8(0), Uint8(1)}

\* The EEPROM of a node holds the calibration it had or a complete new one, each value measured in
\* its mode at its point, whatever call fails or is handled late: unless the outputs to measure were
\* not switched over or the operator pressed more than Enter
StoredIsCalibration ==
  LET names == Calibrates(tool.prog)
      new   == {n \in names \cap DOMAIN device.eeprom : device.eeprom[n] # Old}
  IN  mishaps = 0 /\ new # {} => \A n \in names : n \in new /\ device.eeprom[n] \in Right(tool.prog, n[2])

\* A call that succeeded left its caller what the node had when it answered, and a register that
\* was written is in the node as its caller had it: all of it, if it is whole bytes
AnswerIsFaithful == tool.got = truth

\* What regtool has printed of a node are its registers, in order and complete when it ends by itself
DumpIsComplete ==
  tool.prog = "regtool_dump" =>
    /\ tool.printed = [i \in 1..Len(tool.printed) |-> Registers[i].reg]
    /\ tool.exit = "done" => Len(tool.printed) = Len(Registers)

\* the blocked call has no operation that will call back, or ever did
NeverRegistered == frames # <<>> /\ Top.call \notin pending /\ sync_return.of # {Top.call}

\* A tool ends, whatever is lost, unless an operation it waits for was never registered
ToolEnds == <>(tool.exit # "running" \/ NeverRegistered)
=============================================================================
