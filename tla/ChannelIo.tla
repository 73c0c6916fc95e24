----------------------------- MODULE ChannelIo ------------------------------
(***************************************************************************)
(* The functions of src/src/libwlmio/io.c that read, write or configure a  *)
(* channel with ONE register access: each names a register, a read keeps a *)
(* heap record with the buffer of the answer until its callback converts   *)
(* the answer for the caller.  (The two that need three accesses are in    *)
(* ConfigureFanout.)                                                       *)
(*                                                                         *)
(* Data: a register value is a type, a length and the number of the sample *)
(* all its elements were taken in; the caller's variable is a sequence of  *)
(* 16-bit words, each Old or the sample its bits came from.  The register  *)
(* access below is what AsyncRequests shows it to be: one callback, with   *)
(* the answer or with an error.                                            *)
(*                                                                         *)
(* A definition marked "fault" is a slip a change of the code could make,  *)
(* placed before the one it would replace and used by no other.            *)
(***************************************************************************)
EXTENDS Integers, Sequences

CONSTANTS
  Calls,      \* the calls of a behaviour
  Functions,  \* the functions called
  Nodes,      \* the nodes named in calls
  Channels,   \* the channel numbers named in calls
  Samples,    \* the values a register takes
  Shapes      \* what a register may be: [type, length], or length 0 if it is absent

NodeIdMax == 127

Readers == {"vpe6010_read", "vpe6040_read", "vpe6060_read", "vpe6080_read",
            "vpe6090_read", "vpe6180_read", "vpe6190_read"}
Writers == {"vpe6030_write", "vpe6040_configure", "vpe6050_write", "vpe6050_configure",
            "vpe6070_write", "vpe6090_configure", "vpe6190_configure"}
Setters == {"node_set_sample_interval"}

ASSUME FunctionsAssumption == Functions \subseteq Readers \cup Writers \cup Setters
ASSUME NodesAssumption == Nodes \subseteq 0..NodeIdMax
ASSUME ShapesAssumption ==
  Shapes \subseteq [type : {"u8", "u16", "u32"}, length : 1..6] \cup {[type |-> "empty", length |-> 0]}

VARIABLES
  regs,      \* the nodes: their registers, [type, length, sample]
  calls,     \* calls[c]: function, node, register and value written of the call, or NoCall
  inflight,  \* requests and answers on their way: [call, answer]
  records,   \* heap records: the calls they belong to
  var,       \* var[c]: the caller's variable, word by word
  told,      \* told[c]: what the caller was told, Nothing if not yet
  got        \* history: got[c], the answer told[c] was made from

vars == <<regs, calls, inflight, records, var, told, got>>

Old     == -1
Nothing == "nothing"
NoCall  == [fn |-> "none", node |-> 0, reg |-> "none", value |-> 0]
NoAnswer == [type |-> "none", length |-> 0, sample |-> 0]
NoName  == "NULL"

-----------------------------------------------------------------------------
(***************************************************************************)
(* What the functions are about.                                           *)
(***************************************************************************)

\* the argument check
LastChannel(fn) ==
  CASE fn \in {"vpe6080_read", "vpe6180_read"}      -> 7
    [] fn \in {"vpe6090_read", "vpe6090_configure"} -> 5
    [] OTHER                                        -> 3

LastSetting(fn) ==
  CASE fn = "vpe6040_configure" -> 2
    [] fn = "vpe6050_configure" -> 1
    [] fn = "vpe6090_configure" -> 8
    [] OTHER                    -> 65535

Kind(fn) ==
  CASE fn \in Readers                                         -> "input"
    [] fn \in {"vpe6030_write", "vpe6050_write", "vpe6070_write"} -> "output"
    [] fn \in {"vpe6040_configure", "vpe6050_configure"}      -> "mode"
    [] fn = "vpe6090_configure"                               -> "type"
    [] fn = "vpe6190_configure"                               -> "enabled"
    [] OTHER                                                  -> "sample_interval"

\* the register of a channel; the switch of the two vpe6190 functions has no case 3
Register(fn, ch) ==
  CASE fn = "vpe6010_read" \/ fn \in Setters                           -> <<0, Kind(fn)>>
    [] fn \in {"vpe6190_read", "vpe6190_configure"} /\ ch = 3 -> <<0, NoName>>
    [] OTHER                                                  -> <<ch + 1, Kind(fn)>>

WrittenType(fn) ==
  IF fn \in {"vpe6050_write", "vpe6070_write"} \cup Setters THEN "u16" ELSE "u8"

\* what a read asks of the answer, the words of the caller's variable, and the words copied
ReadType(fn)  == IF fn \in {"vpe6060_read", "vpe6190_read"} THEN "u32" ELSE "u16"
MinLength(fn) == IF fn = "vpe6010_read" THEN 6 ELSE 1
VarWords(fn)  == CASE fn = "vpe6010_read" -> 6
                   [] fn \in {"vpe6060_read", "vpe6190_read"} -> 2
                   [] OTHER -> 1
\* fault: a copy of two bytes where the variable has four
CopiedShort(fn) == IF fn = "vpe6010_read" THEN 6 ELSE 1
Copied(fn) == CASE fn = "vpe6010_read" -> 6
                [] fn = "vpe6190_read" -> 2
                [] OTHER -> 1

\* a digital output and the switch of a thermocouple channel are written as v ? 1 : 0
Written(fn, v) ==
  IF fn \in {"vpe6030_write", "vpe6190_configure"} /\ v # 0 THEN 1 ELSE v

-----------------------------------------------------------------------------
(***************************************************************************)
(* The call: check the arguments, build the record, access the register.   *)
(***************************************************************************)
Refused(fn, n, ch, v) ==
  \/ fn \notin {"vpe6010_read"} \cup Setters /\ ch > LastChannel(fn)
  \/ v > LastSetting(fn)
  \/ n >= NodeIdMax                       \* by wlmio_register_access
  \/ Register(fn, ch)[2] = NoName         \* likewise

Recorded(fn) == fn \in Readers \cup Setters

\* fault: the record of a refused call is forgotten
RefuseAndForget(c, fn, n, ch, v) ==
  /\ Refused(fn, n, ch, v)
  /\ records' = IF Recorded(fn) THEN records \cup {c} ELSE records
  /\ told' = [told EXCEPT ![c] = "EINVAL"]
  /\ UNCHANGED <<regs, calls, inflight, var, got>>

Refuse(c, fn, n, ch, v) ==
  /\ Refused(fn, n, ch, v)
  /\ told' = [told EXCEPT ![c] = "EINVAL"]
  /\ UNCHANGED <<regs, calls, inflight, records, var, got>>

Access(c, fn, n, ch, v) ==
  /\ ~Refused(fn, n, ch, v)
  /\ calls' = [calls EXCEPT ![c] =
       [fn |-> fn, node |-> n, reg |-> Register(fn, ch), value |-> Written(fn, v)]]
  /\ records' = IF Recorded(fn) THEN records \cup {c} ELSE records
  /\ var' = [var EXCEPT ![c] = IF fn \in Readers THEN [i \in 1..VarWords(fn) |-> Old] ELSE <<>>]
  /\ inflight' = inflight \cup {[call |-> c, answer |-> NoAnswer]}
  /\ UNCHANGED <<regs, told, got>>

Call(c, fn, n, ch, v) ==
  /\ calls[c] = NoCall
  /\ told[c] = Nothing
  /\ Refuse(c, fn, n, ch, v) \/ Access(c, fn, n, ch, v)

-----------------------------------------------------------------------------
(***************************************************************************)
(* The node.  It takes a written value of the right type or keeps its own, *)
(* and answers with what the register then holds; a request may reach it   *)
(* after the caller was told of a timeout.                                 *)
(***************************************************************************)
Serve(m) ==
  /\ m.answer = NoAnswer
  /\ LET call == calls[m.call]
         at   == <<call.node, call.reg>>
         old  == regs[at]
     IN  /\ \E s \in {old.sample, call.value} :
              /\ s # old.sample => call.fn \notin Readers /\ old.type = WrittenType(call.fn)
              /\ regs' = [regs EXCEPT ![at].sample = s]
         /\ inflight' = (inflight \ {m}) \cup {[m EXCEPT !.answer = regs'[at]]}
  /\ UNCHANGED <<calls, records, var, told, got>>

\* an input follows the world outside
Sample(at) ==
  /\ at[2][2] = "input"
  /\ \E s \in Samples : regs' = [regs EXCEPT ![at].sample = s]
  /\ UNCHANGED <<calls, inflight, records, var, told, got>>

-----------------------------------------------------------------------------
(***************************************************************************)
(* The callbacks: the caller is told, then the record is freed.            *)
(***************************************************************************)
Tell(c, result) ==
  /\ told' = [told EXCEPT ![c] = result]
  /\ records' = records \ {c}

\* -EPROTO unless the answer has the type and the length; then the copy
FitsRead(fn, a) == a.type = ReadType(fn) /\ a.length >= MinLength(fn)
Copy(v, fn, s) ==
  [i \in DOMAIN v \cup 1..Copied(fn) |-> IF i <= Copied(fn) THEN s ELSE v[i]]

\* fault: the copy comes before the check
ReadCallbackUnchecked(c, a) ==
  /\ calls[c].fn \in Readers
  /\ var' = [var EXCEPT ![c] = Copy(@, calls[c].fn, a.sample)]
  /\ Tell(c, IF FitsRead(calls[c].fn, a) THEN "0" ELSE "EPROTO")

ReadCallback(c, a) ==
  /\ calls[c].fn \in Readers
  /\ IF FitsRead(calls[c].fn, a)
     THEN Tell(c, "0") /\ var' = [var EXCEPT ![c] = Copy(@, calls[c].fn, a.sample)]
     ELSE Tell(c, "EPROTO") /\ UNCHANGED var

\* the interval asked for is never stored in the record: the comparison is with whatever
\* malloc returned
SetIntervalCallback(c, a) ==
  /\ calls[c].fn \in Setters
  /\ IF a.type # "u16" \/ a.length # 1
     THEN Tell(c, "ENOTSUP")
     ELSE \E garbage \in Samples : Tell(c, IF garbage = a.sample THEN "0" ELSE "EBADE")
  /\ UNCHANGED var

\* the writers pass the caller's own callback on
WriteCallback(c) == calls[c].fn \in Writers /\ Tell(c, "0") /\ UNCHANGED var

Complete(m) ==
  /\ m.answer # NoAnswer
  /\ inflight' = inflight \ {m}
  /\ IF told[m.call] # Nothing
     THEN UNCHANGED <<records, var, told, got>>
     ELSE /\ got' = [got EXCEPT ![m.call] = m.answer]
          /\ IF m.answer.type = "empty"
             THEN Tell(m.call, "ENOENT") /\ UNCHANGED var
             ELSE \/ ReadCallback(m.call, m.answer)
                  \/ SetIntervalCallback(m.call, m.answer)
                  \/ WriteCallback(m.call)
  /\ UNCHANGED <<regs, calls>>

TimeOut(c) ==
  /\ calls[c] # NoCall
  /\ told[c] = Nothing
  /\ Tell(c, "ETIMEDOUT")
  /\ UNCHANGED <<regs, calls, inflight, var, got>>

-----------------------------------------------------------------------------
Registers ==
  {<<n, r>> : n \in Nodes \ {NodeIdMax},
              r \in {Register(fn, ch) : fn \in Functions, ch \in Channels} \ {<<0, NoName>>}}

Contents == {[type |-> s.type, length |-> s.length, sample |-> x] : s \in Shapes, x \in Samples}

\* any product may be at a node-ID: its registers of one kind have one shape, whatever the caller
\* thinks it is
Init ==
  /\ \E shape \in [{at[2][2] : at \in Registers} -> Shapes], x \in Samples :
       regs = [at \in Registers |->
                 [type |-> shape[at[2][2]].type, length |-> shape[at[2][2]].length, sample |-> x]]
  /\ calls = [c \in Calls |-> NoCall]
  /\ inflight = {}
  /\ records = {}
  /\ var = [c \in Calls |-> <<>>]
  /\ told = [c \in Calls |-> Nothing]
  /\ got = [c \in Calls |-> NoAnswer]

Next ==
  \/ \E c \in Calls, fn \in Functions, n \in Nodes, ch \in Channels :
       \E v \in IF fn \in Readers THEN {0} ELSE Samples : Call(c, fn, n, ch, v)
  \/ \E m \in inflight : Serve(m) \/ Complete(m)
  \/ \E at \in Registers : Sample(at)
  \/ \E c \in Calls : TimeOut(c)

Spec == Init /\ [][Next]_vars

-----------------------------------------------------------------------------
\* A read that is told of success leaves, in every word of the caller's variable, the sample of
\* one answer of the node, of the type and length the product promises
ReadWhole ==
  \A c \in Calls : told[c] = "0" /\ calls[c].fn \in Readers =>
    /\ got[c].type = ReadType(calls[c].fn)
    /\ var[c] = [i \in 1..VarWords(calls[c].fn) |-> got[c].sample]

\* A read that fails, by its node, another product, or the clock, leaves the variable alone,
\* also when the answer comes after all
ErrorsWriteNothing ==
  \A c \in Calls : told[c] # "0" => \A i \in DOMAIN var[c] : var[c][i] = Old

\* The heap holds one record for every read under way and none besides: every way out of a
\* call, the refused ones too, frees it
RecordPerCall ==
  records = {c \in Calls : Recorded(calls[c].fn) /\ told[c] = Nothing}

\* The sample interval is confirmed exactly when the node answers that it has the one asked for
IntervalConfirmed ==
  \A c \in Calls : calls[c].fn \in Setters =>
    /\ told[c] = "0" => got[c].sample = calls[c].value
    /\ told[c] = "EBADE" => got[c].sample # calls[c].value
=============================================================================
