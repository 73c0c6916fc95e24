------------------------------ MODULE CanardTx ------------------------------
(***************************************************************************)
(* The transmit queue of src/src/libcanard/canard.c under the sending loop *)
(* of src/src/libwlmio/wlmio.c: transfers become frames, the frames wait   *)
(* in one list for a socket that takes some and refuses the rest, and the  *)
(* frames of later transfers are inserted among them by CAN-ID.            *)
(*                                                                         *)
(* Data: of the payload of a frame its parts are counted: where in the     *)
(* transfer its data begin, the bytes of data, padding and CRC.            *)
(*                                                                         *)
(* A definition marked "fault" is a slip a change of the code could make,  *)
(* placed before the one it would replace and used by no other.            *)
(***************************************************************************)
EXTENDS Integers, Sequences, FiniteSets, FiniteSetsExt, SequencesExt

CONSTANTS
  Mtu,         \* payload of a full frame, without its tail byte
  DlcLengths,  \* the lengths a frame may have, with its tail byte
  CanIds,      \* CAN-IDs of the transfers
  Sizes,       \* bytes of payload of the transfers
  MaxPushes    \* bound: transfers pushed

ASSUME MtuAssumption == Mtu \in Nat /\ Mtu > 2
ASSUME DlcAssumption == DlcLengths \subseteq 0..Mtu + 1 /\ {1, 2, Mtu + 1} \subseteq DlcLengths
ASSUME CanIdsAssumption == CanIds \subseteq Nat
ASSUME SizesAssumption == Sizes \subseteq Nat
ASSUME PushesAssumption == MaxPushes \in Nat

CrcBytes == 2

VARIABLES
  txQueue,  \* the frames that wait
  heap,     \* queue items allocated and not freed
  wire,     \* history: the frames the socket took
  pushed    \* history: the transfers in the queue's care, [id, size] in the order of their pushes

vars == <<txQueue, heap, wire, pushed>>

-----------------------------------------------------------------------------
(***************************************************************************)
(* The frames of a transfer.                                               *)
(***************************************************************************)
RoundedUp(x) == Min({l \in DlcLengths : l >= x})

Bytes(f) == f.data + f.pad + f.crc

SingleFrame(size) ==
  [from |-> 0, data |-> size, pad |-> RoundedUp(size + 1) - size - 1, crc |-> 0,
   sot |-> TRUE, eot |-> TRUE, toggle |-> TRUE]

\* the payload of the frame that begins at offset; padding is in the last frame only
\* fault: the tail byte is counted twice
FramePayloadTwoTails(size, offset) ==
  IF size + CrcBytes - offset < Mtu THEN RoundedUp(size + CrcBytes - offset + 2) - 1 ELSE Mtu
FramePayload(size, offset) ==
  IF size + CrcBytes - offset < Mtu THEN RoundedUp(size + CrcBytes - offset + 1) - 1 ELSE Mtu

\* one round of the loop: as much data as fits, then, after the last of them, padding that leaves
\* room for the CRC, then as much of the CRC as fits
FrameAt(size, offset, toggle) ==
  LET room    == FramePayload(size, offset)
      data    == IF offset >= size THEN 0 ELSE Min({size - offset, room})
      atEnd   == offset + data >= size
      pad     == IF atEnd THEN Max({room - CrcBytes - data, 0}) ELSE 0
      crcLeft == size + CrcBytes - Max({offset, size})
      crc     == IF atEnd THEN Min({crcLeft, room - data - pad}) ELSE 0
  IN  [from |-> offset, data |-> data, pad |-> pad, crc |-> crc, sot |-> offset = 0,
       eot |-> offset + data + crc >= size + CrcBytes, toggle |-> toggle]

\* the rounds of the loop, and where each begins: a round that is not the last moves the offset by
\* a full frame (FullRound and LastRound in CanardTxProofs)
Rounds(size) == Min({n \in 1..size + CrcBytes : n * Mtu >= size + CrcBytes})
MultiFrame(size) == [i \in 1..Rounds(size) |-> FrameAt(size, (i - 1) * Mtu, i % 2 = 1)]

Frames(size) == IF size <= Mtu THEN <<SingleFrame(size)>> ELSE MultiFrame(size)

-----------------------------------------------------------------------------
(***************************************************************************)
(* The queue.                                                              *)
(***************************************************************************)
\* the items after which a transfer goes: all up to the first with a greater CAN-ID
\* fault: up to the first with no smaller one
SupremumBefore(id) ==
  CHOOSE k \in 0..Len(txQueue) :
    /\ \A i \in 1..k : txQueue[i].id < id
    /\ k < Len(txQueue) => txQueue[k + 1].id >= id
Supremum(id) ==
  CHOOSE k \in 0..Len(txQueue) :
    /\ \A i \in 1..k : txQueue[i].id <= id
    /\ k < Len(txQueue) => txQueue[k + 1].id > id

Items(id, no, size) ==
  [i \in DOMAIN Frames(size) |-> [id |-> id, no |-> no, frame |-> Frames(size)[i]]]

\* fault: the queue is left in the order of the pushes
EnqueueLast(id, size) ==
  txQueue' = txQueue \o Items(id, Len(pushed) + 1, size)
Enqueue(id, size) ==
  LET k == Supremum(id)
  IN  txQueue' = SubSeq(txQueue, 1, k) \o Items(id, Len(pushed) + 1, size)
                 \o SubSeq(txQueue, k + 1, Len(txQueue))

Push(id, size) ==
  /\ Len(pushed) < MaxPushes
  /\ Enqueue(id, size)
  /\ heap' = heap + Len(Frames(size))
  /\ pushed' = Append(pushed, [id |-> id, size |-> size])
  /\ UNCHANGED wire

\* of the frames allocated before the one that failed, those freed
\* fault: the first one
FreedHead(allocated) == IF allocated > 0 THEN 1 ELSE 0
Freed(allocated) == allocated

\* no memory for one of the frames: none of them stays
PushFails(id, size, failed) ==
  /\ Len(pushed) < MaxPushes
  /\ heap' = heap + (failed - 1) - Freed(failed - 1)
  /\ UNCHANGED <<txQueue, wire, pushed>>

\* the socket takes n frames and refuses the next
UavcanSend(n) ==
  /\ wire' = wire \o SubSeq(txQueue, 1, n)
  /\ txQueue' = SubSeq(txQueue, n + 1, Len(txQueue))
  /\ heap' = heap - n
  /\ UNCHANGED pushed

-----------------------------------------------------------------------------
Init ==
  /\ txQueue = <<>>
  /\ heap = 0
  /\ wire = <<>>
  /\ pushed = <<>>

Next ==
  \/ \E id \in CanIds, size \in Sizes :
       Push(id, size) \/ \E failed \in DOMAIN Frames(size) : PushFails(id, size, failed)
  \/ \E n \in 1..Len(txQueue) : UavcanSend(n)

Spec == Init /\ [][Next]_vars

-----------------------------------------------------------------------------
\* the frames in the order they leave in, as far as it is settled, and those of one transfer
Order == wire \o txQueue
Places(no) == {i \in DOMAIN Order : Order[i].no = no}

\* the frames f are the transfer of a payload of that size
Conforming(f, size) ==
  LET n == Len(f) IN
  /\ n > 0
  /\ \A i \in 1..n :
       /\ Bytes(f[i]) + 1 \in DlcLengths
       /\ f[i].sot = (i = 1)
       /\ f[i].eot = (i = n)
       /\ f[i].toggle = (i % 2 = 1)
       /\ i < n => Bytes(f[i]) = Mtu /\ f[i].pad = 0
       /\ i < n => f[i + 1].from = f[i].from + f[i].data + f[i].crc
       /\ f[i].crc > 0 => f[i].from + f[i].data >= size
  /\ f[1].from = 0
  /\ f[n].from + f[n].data + f[n].crc = size + IF n = 1 THEN 0 ELSE CrcBytes
  /\ \A l \in DlcLengths : l <= Bytes(f[n]) => l < Bytes(f[n]) + 1 - f[n].pad

\* The frames of every transfer, in the order they are sent in, carry all of its payload without
\* a gap, the CRC whole and at the end, padding nowhere but in the last one and no more than the
\* frame lengths force, in full frames but for the last, all of a length a frame can have, with
\* alternating toggle
ConformingTransfers ==
  \A no \in DOMAIN pushed :
    \E at \in [1..Cardinality(Places(no)) -> Places(no)] :
      /\ \A j, k \in DOMAIN at : j < k => at[j] < at[k]
      /\ Conforming([k \in DOMAIN at |-> Order[at[k]].frame], pushed[no].size)

\* The frames with one CAN-ID leave transfer by transfer in the order of the pushes, whatever is
\* inserted between two sendings: a receiver that knows nodes and ports only can follow
TransfersNotMixed ==
  \A i, j \in DOMAIN Order :
    i < j /\ Order[i].id = Order[j].id =>
      \/ Order[i].no < Order[j].no
      \/ Order[i].no = Order[j].no /\ Order[i].frame.from < Order[j].frame.from

\* What is sent next is a frame of the smallest CAN-ID that waits, which is how the bus would choose
SendsSmallest ==
  \A n \in Len(wire) + 1..Len(wire') : \A m \in n..Len(wire') : \A item \in Range(txQueue') :
    wire'[n].id <= wire'[m].id /\ wire'[n].id <= item.id
SmallestFirst == [][SendsSmallest]_vars

\* Items are allocated for the frames that wait and for nothing else
MemoryBalanced == heap = Len(txQueue)
=============================================================================
