--------------------------- MODULE RegisterCodec ----------------------------
(***************************************************************************)
(* The payloads of the requests and answers of src/src/libwlmio/wlmio.c:   *)
(* how wlmio_register_access, wlmio_register_list, wlmio_execute_command   *)
(* and their response handlers, and get_node_info_response_handler, turn   *)
(* structures into bytes and back.  Every field begins on a byte and is a  *)
(* whole number of bytes wide, so that of src/src/libcanard/canard_dsdl.c  *)
(* they use the byte copies, and the zeros behind a payload that is short. *)
(*                                                                         *)
(* A payload is a sequence of bytes.  A register is [type, length, value], *)
(* value being a sequence of bytes and the bytes behind it zero.           *)
(*                                                                         *)
(* The second half is external: a node that reads and writes the same      *)
(* payloads as their definition asks, field by field.                      *)
(*                                                                         *)
(* A definition marked "fault" is a slip a change of the code could make,  *)
(* placed before the one it would replace and used by no other.            *)
(***************************************************************************)
EXTENDS Integers, Sequences

EMPTY   == 0
BIT     == 3
UINT16  == 10
UINT8   == 11
FLOAT16 == 14

\* register_value_bit_width and register_value_length_width, from type 0
BIT_WIDTHS    == <<0, 8, 8, 1, 64, 32, 16, 8, 64, 32, 16, 8, 64, 32, 16>>
LENGTH_WIDTHS == <<0, 2, 2, 2, 1, 1, 1, 2, 1, 1, 1, 2, 1, 1, 1>>

BitWidth(type)    == BIT_WIDTHS[type + 1]
LengthWidth(type) == LENGTH_WIDTHS[type + 1]

-----------------------------------------------------------------------------
(***************************************************************************)
(* canard_dsdl.c.                                                          *)
(***************************************************************************)
Zeros(n) == [i \in 1..n |-> 0]

\* the n bytes at offset, zeros where the payload has ended
GetBytes(payload, offset, n) ==
  [i \in 1..n |-> IF offset + i <= Len(payload) THEN payload[offset + i] ELSE 0]

GetU8(payload, offset) == GetBytes(payload, offset, 1)[1]

\* an integer of no more than two bytes
GetU16(payload, offset, width) ==
  LET b == GetBytes(payload, offset, width) \o Zeros(2 - width) IN b[1] + 256 * b[2]

\* the n low bytes of an integer
Bytes(value, n) == [i \in 1..n |-> (value \div 256^(i - 1)) % 256]

Rest(payload, offset) == SubSeq(payload, offset + 1, Len(payload))

-----------------------------------------------------------------------------
(***************************************************************************)
(* Registers.                                                              *)
(***************************************************************************)
\* validate_register_access
MaxLength(type) ==
  CASE BitWidth(type) = 0  -> 65535
    [] BitWidth(type) = 1  -> 2048
    [] BitWidth(type) = 8  -> 256
    [] BitWidth(type) = 16 -> 128
    [] BitWidth(type) = 32 -> 64
    [] BitWidth(type) = 64 -> 32

Valid(reg) == reg.type \in EMPTY..FLOAT16 /\ reg.length <= MaxLength(reg.type)

\* fault: the length is taken for the number of bytes
SentBytesOfLength(reg) == reg.length

\* bits that do not fill a byte are left out
SentBytes(reg) == (reg.length * BitWidth(reg.type)) \div 8

NAME_MAX == 50

CutTo(limit, bytes) == SubSeq(bytes, 1, IF Len(bytes) < limit THEN Len(bytes) ELSE limit)

\* the payload of wlmio_register_access: regw is NULL (a register of type EMPTY here) for a read, the
\* name the bytes of a string before the NUL that ends it
AccessRequest(name, regw) ==
  <<Len(CutTo(NAME_MAX, name))>> \o CutTo(NAME_MAX, name) \o <<regw.type>>
  \o (IF regw.type = EMPTY THEN <<>>
      ELSE Bytes(regw.length, LengthWidth(regw.type)) \o GetBytes(regw.value, 0, SentBytes(regw)))

\* the timestamp and the flags of an answer
Skipped == 8

\* register_access_response_handler: what it writes through uregr, and the result it reports.  A
\* type above FLOAT16 makes it read a width behind the table, and is refused whatever the width is
AccessAnswer(payload) ==
  LET type   == GetU8(payload, Skipped)
      known  == type <= FLOAT16
      width  == IF known THEN LengthWidth(type) ELSE 0
      reg    == [type |-> type,
                 length |-> GetU16(payload, Skipped + 1, width),
                 value |-> Rest(payload, Skipped + 1 + width)]
  IN  [reg |-> reg,
       r   |-> IF ~Valid(reg) THEN "EPROTO" ELSE IF type = EMPTY THEN "ENOENT" ELSE "0"]

\* register_list_response_handler: the length before the name is not used
ListAnswer(payload) == Rest(payload, 1)

ListRequest(index) == Bytes(index, 2)

-----------------------------------------------------------------------------
(***************************************************************************)
(* Commands and node information.                                          *)
(***************************************************************************)
MAX_PARAM == 112

CommandRequest(command, param) ==
  LET n == IF Len(param) > MAX_PARAM THEN MAX_PARAM ELSE Len(param)
  IN  Bytes(command, 2) \o <<n>> \o SubSeq(param, 1, n)

\* an answer without a status is a success
CommandAnswer(payload) == IF payload = <<>> THEN 0 ELSE GetU8(payload, 0)

COA_MAX  == 222

\* a member of the structure: what the payload has of the n bytes, in an array of size bytes
Member(payload, offset, n, size) == GetBytes(payload, offset, n) \o Zeros(size - n)

\* nothing was found
NoInfo ==
  [versions |-> <<>>, vcs |-> <<>>, uid |-> <<>>, name |-> <<>>, crc |-> <<>>, coa |-> <<>>]

\* get_node_info_response_handler: what it writes through node_info, and the result; what it has
\* written of an answer before it refuses it is left out
InfoAnswer(payload) ==
  LET nameLen == GetU8(payload, 30)
      crcAt   == 31 + nameLen
      crc     == GetU8(payload, crcAt)
      coaAt   == crcAt + 1 + 8 * crc
      coaLen  == GetU8(payload, coaAt)
  IN  IF nameLen > NAME_MAX \/ crc > 1 \/ coaLen > COA_MAX
      THEN [info |-> NoInfo, r |-> "EPROTO"]
      ELSE [info |-> [versions |-> GetBytes(payload, 0, 6),
                      vcs      |-> GetBytes(payload, 6, 8),
                      uid      |-> GetBytes(payload, 14, 16),
                      name     |-> Member(payload, 31, nameLen, NAME_MAX),
                      crc      |-> IF crc = 1 THEN GetBytes(payload, crcAt + 1, 8) ELSE <<>>,
                      coa      |-> IF coaLen = 0 THEN <<>>
                                   ELSE Member(payload, coaAt + 1, coaLen, COA_MAX)],
            r |-> "0"]

-----------------------------------------------------------------------------
\* the extents of the subscriptions of wlmio_init: a longer answer is cut to them
ACCESS_EXTENT  == 267
LIST_EXTENT    == 51
COMMAND_EXTENT == 1
INFO_EXTENT    == 313

-----------------------------------------------------------------------------
(***************************************************************************)
(* External: the node's side.                                              *)
(***************************************************************************)
RegisterBytes(reg) == (reg.length * BitWidth(reg.type) + 7) \div 8

\* numbers of two bytes
Words == 0..65535

Register == [type : 1..FLOAT16, length : Words, value : Seq(Nat)]

\* a register that is not empty, with as many bytes as its type and length ask for
WellFormed(reg) ==
  /\ reg \in Register
  /\ reg.length <= MaxLength(reg.type)
  /\ Len(reg.value) = RegisterBytes(reg)

\* what a node may tell of itself
Information(info) ==
  /\ info \in [versions : Seq(Nat), vcs : Seq(Nat), uid : Seq(Nat), name : Seq(Nat),
               crc : Seq(Nat), coa : Seq(Nat)]
  /\ Len(info.versions) = 6 /\ Len(info.vcs) = 8 /\ Len(info.uid) = 16
  /\ Len(info.name) <= NAME_MAX
  /\ info.crc = <<>> \/ Len(info.crc) = 8
  /\ Len(info.coa) <= COA_MAX

\* name and register of an access; a node takes missing bytes for zero
NodeReadsAccess(payload) ==
  LET n    == payload[1]
      type == payload[n + 2]
      reg  == [type |-> type, length |-> GetU16(payload, n + 2, LengthWidth(type))]
  IN  [name |-> SubSeq(payload, 2, n + 1),
       reg  |-> [type |-> reg.type, length |-> reg.length,
                 value |-> GetBytes(payload, n + 2 + LengthWidth(type), RegisterBytes(reg))]]

NodeAnswersAccess(reg) ==
  Zeros(8) \o <<reg.type>> \o Bytes(reg.length, LengthWidth(reg.type)) \o reg.value

NodeAnswersList(name) == <<Len(name)>> \o name

\* info: versions, vcs, uid, name, crc (empty if there is none) and coa
NodeAnswersInfo(info) ==
  info.versions \o info.vcs \o info.uid \o <<Len(info.name)>> \o info.name
  \o (IF info.crc = <<>> THEN <<0>> ELSE <<1>> \o info.crc)
  \o <<Len(info.coa)>> \o info.coa

\* the structure an application should find: the arrays filled up with zeros
InfoAsStructure(info) ==
  [info EXCEPT !.name = @ \o Zeros(NAME_MAX - Len(@)),
               !.coa  = IF @ = <<>> THEN <<>> ELSE @ \o Zeros(COA_MAX - Len(@))]
=============================================================================
