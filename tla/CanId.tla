------------------------------- MODULE CanId --------------------------------
(***************************************************************************)
(* The 29-bit CAN-ID of UAVCAN/CAN as src/src/libcanard/canard.c packs it  *)
(* for a transfer (txMakeCANID) and takes it apart for a received frame    *)
(* (rxTryParseFrame).  The fields do not overlap, so that the bitwise "or" *)
(* of the code is a sum here.                                              *)
(*                                                                         *)
(* No program of the repository sends messages without a node-ID of its    *)
(* own, so that their pseudo node-ID is left out of MakeCanId.             *)
(***************************************************************************)
EXTENDS Integers

NODE_ID_MAX    == 127
NODE_ID_UNSET  == 255
SUBJECT_ID_MAX == 8191
SERVICE_ID_MAX == 511
PRIORITY_MAX   == 7

OFFSET_PRIORITY    == 26
OFFSET_SUBJECT_ID  == 8
OFFSET_SERVICE_ID  == 14
OFFSET_DST_NODE_ID == 7

BIT_SERVICE_NOT_MESSAGE  == 25
BIT_ANONYMOUS_MESSAGE    == 24
BIT_REQUEST_NOT_RESPONSE == 24
BIT_RESERVED_23          == 23
BIT_RESERVED_07          == 7

At(value, offset) == value * 2^offset
FlagIf(cond, bit) == IF cond THEN 2^bit ELSE 0

Field(id, offset, max) == (id \div 2^offset) % (max + 1)
Flag(id, bit) == Field(id, bit, 1) = 1

-----------------------------------------------------------------------------
\* the two bits above the subject-ID are set
MessageSessionSpecifier(subject, src) ==
  src + At(subject + (SUBJECT_ID_MAX + 1) + 2 * (SUBJECT_ID_MAX + 1), OFFSET_SUBJECT_ID)

ServiceSessionSpecifier(service, request, src, dst) ==
  src + At(dst, OFFSET_DST_NODE_ID) + At(service, OFFSET_SERVICE_ID)
  + FlagIf(request, BIT_REQUEST_NOT_RESPONSE) + 2^BIT_SERVICE_NOT_MESSAGE

InvalidArgument == -2

\* tr is [kind, port, remote, priority] and local the node-ID of the sender
MakeCanId(tr, local) ==
  LET message == /\ tr.kind = "message"
                 /\ tr.remote = NODE_ID_UNSET
                 /\ tr.port <= SUBJECT_ID_MAX
      service == /\ tr.kind \in {"request", "response"}
                 /\ tr.remote <= NODE_ID_MAX
                 /\ tr.port <= SERVICE_ID_MAX
                 /\ local <= NODE_ID_MAX
      session == IF message THEN MessageSessionSpecifier(tr.port, local)
                 ELSE ServiceSessionSpecifier(tr.port, tr.kind = "request", local, tr.remote)
  IN  IF (message \/ service) /\ tr.priority <= PRIORITY_MAX
      THEN session + At(tr.priority, OFFSET_PRIORITY)
      ELSE InvalidArgument

ParseCanId(id) ==
  LET src     == Field(id, 0, NODE_ID_MAX)
      dst     == Field(id, OFFSET_DST_NODE_ID, NODE_ID_MAX)
      service == Flag(id, BIT_SERVICE_NOT_MESSAGE)
  IN  [priority |-> Field(id, OFFSET_PRIORITY, PRIORITY_MAX),
       kind  |-> IF ~service THEN "message"
                 ELSE IF Flag(id, BIT_REQUEST_NOT_RESPONSE) THEN "request" ELSE "response",
       port  |-> IF service THEN Field(id, OFFSET_SERVICE_ID, SERVICE_ID_MAX)
                 ELSE Field(id, OFFSET_SUBJECT_ID, SUBJECT_ID_MAX),
       src   |-> IF ~service /\ Flag(id, BIT_ANONYMOUS_MESSAGE) THEN NODE_ID_UNSET ELSE src,
       dst   |-> IF service THEN dst ELSE NODE_ID_UNSET,
       valid |-> /\ ~Flag(id, BIT_RESERVED_23)
                 /\ IF service THEN src # dst ELSE ~Flag(id, BIT_RESERVED_07)]

\* canardRxAccept before the session: a frame of the protocol, to everybody or to this node, on a
\* port that is subscribed to
Accepted(p, local, subscriptions) ==
  /\ p.valid
  /\ p.dst \in {NODE_ID_UNSET, local}
  /\ <<p.kind, p.port>> \in subscriptions
=============================================================================
