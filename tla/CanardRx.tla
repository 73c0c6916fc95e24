------------------------------ MODULE CanardRx ------------------------------
(***************************************************************************)
(* The receive session of src/src/libcanard/canard.c: the frames of the    *)
(* transfers that one node sends on one port become transfers again, while *)
(* frames are lost or repeated, the node falls silent for longer than the  *)
(* transfer-ID timeout, and memory runs out.  Every transfer-ID is used by *)
(* each TidMod-th transfer, so a gap can make new frames look like old     *)
(* ones.  can_socket_handler of src/src/libwlmio/wlmio.c takes a complete  *)
(* transfer and frees its buffer.                                          *)
(*                                                                         *)
(* Data: payload is counted in units that say which transfer they belong   *)
(* to.  The CRC of a transfer of several frames fills the last CrcUnits    *)
(* units and is taken to find every mixture of frames: the residue is      *)
(* right only for the frames of one transfer, complete and in order.       *)
(*                                                                         *)
(* A definition marked "fault" is a slip a change of the code could make,  *)
(* placed before the one it would replace and used by no other.            *)
(***************************************************************************)
EXTENDS Integers, Sequences, FiniteSets

CONSTANTS
  TidMod,     \* number of transfer-IDs
  Transfers,  \* number of transfers the node sends
  Sizes,      \* data units of a transfer, one for each of its frames; 0 fits one frame
  Gap,        \* bound: transfers sent since the one the session follows, within the timeout
  Extent      \* units the subscription has room for

ASSUME TidAssumption == TidMod \in 3..32
ASSUME TransfersAssumption == Transfers \in Nat
ASSUME SizesAssumption == Sizes \subseteq Nat
ASSUME GapAssumption == Gap \in Nat
ASSUME ExtentAssumption == Extent \in Nat \ {0}

CrcUnits == 2

VARIABLES
  wire,       \* the transfer on the bus: [no, size, frame, again], frame being the next one
  session,    \* the session, or NoSession
  heap,       \* buffers allocated and not freed
  delivered,  \* history: transfers handed to the application, [no, size, payload] in order
  started,    \* history: the last transfer the session took a first frame of
  clean,      \* history: nothing has happened to the transfer on the bus
  undisturbed \* history: the transfers that arrived complete and clean

vars == <<wire, session, heap, delivered, started, clean, undisturbed>>

NoSession == [tid |-> -1]
NULL      == [i \in {0} |-> "NULL"]  \* no sequence

-----------------------------------------------------------------------------
(***************************************************************************)
(* Frames: the tail byte and the payload.                                  *)
(***************************************************************************)
Data(no, size) == [i \in 1..size |-> <<no, i>>]

\* the payload of all frames of a transfer
Content(no, size) ==
  Data(no, size) \o (IF size <= 1 THEN <<>> ELSE [i \in 1..CrcUnits |-> <<no, 0>>])

LastFrame(size) == IF size = 0 THEN 1 ELSE size

Frame(no, size, i) ==
  [no     |-> no,
   tid    |-> no % TidMod,
   sot    |-> i = 1,
   eot    |-> i = LastFrame(size),
   toggle |-> i % 2 = 1,
   units  |-> IF i < LastFrame(size) THEN <<<<no, i>>>>
              ELSE SubSeq(Content(no, size), i, Len(Content(no, size)))]

SingleFrame(f) == f.sot /\ f.eot

\* CRC_RESIDUE
CrcMatches(crc) ==
  Len(crc) > CrcUnits /\ crc = Content(crc[1][1], Len(crc) - CrcUnits)

TidDifference(a, b) == (a - b) % TidMod

-----------------------------------------------------------------------------
(***************************************************************************)
(* The session.                                                            *)
(***************************************************************************)
NewSession(f) ==
  [tid |-> f.tid, toggle |-> TRUE, payload |-> NULL, total |-> 0, crc |-> <<>>, timedOut |-> FALSE]

\* faults: the transfer just received is not told from a new one; one more than it is
NeedRestartOnPrevious(s, f) == s.timedOut \/ (f.sot /\ TidDifference(s.tid, f.tid) > 0)
NeedRestartLate(s, f)       == s.timedOut \/ (f.sot /\ TidDifference(s.tid, f.tid) > 2)
NeedRestart(s, f)           == s.timedOut \/ (f.sot /\ TidDifference(s.tid, f.tid) > 1)

\* fault: a restart that keeps what was copied so far
RestartedKeepsPayload(s, f) ==
  [s EXCEPT !.total = 0, !.crc = <<>>, !.tid = f.tid, !.toggle = TRUE]

\* the buffer is kept and filled again from its beginning
Restarted(s, f) ==
  [s EXCEPT !.total = 0, !.crc = <<>>, !.tid = f.tid, !.toggle = TRUE,
            !.payload = IF @ = NULL THEN NULL ELSE <<>>]

\* rxSessionRestart; its memory_free is in the actions that use it
Advanced(s) ==
  [s EXCEPT !.payload = NULL, !.total = 0, !.crc = <<>>, !.tid = (@ + 1) % TidMod, !.toggle = TRUE]

Held(s) == IF s.payload = NULL THEN 0 ELSE 1

Truncated(units) == SubSeq(units, 1, IF Len(units) < Extent THEN Len(units) ELSE Extent)

\* what rxSessionAcceptFrame and rxSessionWritePayload leave in the session before they look at
\* the end of the transfer
Written(s, f) ==
  [s EXCEPT !.payload = Truncated((IF @ = NULL THEN <<>> ELSE @) \o f.units),
            !.total = @ + Len(f.units),
            !.crc = IF SingleFrame(f) THEN @ ELSE @ \o f.units,
            !.timedOut = IF f.sot THEN FALSE ELSE @]

\* the payload without its CRC, of which truncation may have taken a part already
WithoutCrc(s, f) ==
  LET cut == s.total - Len(s.payload)
  IN  IF SingleFrame(f) \/ cut >= CrcUnits THEN s.payload
      ELSE SubSeq(s.payload, 1, Len(s.payload) - (CrcUnits - cut))

\* can_socket_handler frees the buffer of a transfer "if there is one"
FreedByHandler(payload) == IF Len(payload) > 0 THEN 1 ELSE 0

-----------------------------------------------------------------------------
(***************************************************************************)
(* rxSessionUpdate.  The session is s, which may be new.                   *)
(***************************************************************************)
\* fault: the buffer of the transfer given up is not freed
SotMissLeaks(s, f) ==
  /\ session' = Advanced(Restarted(s, f))
  /\ UNCHANGED <<heap, delivered>>

SotMiss(s, f) ==
  /\ session' = Advanced(Restarted(s, f))
  /\ heap' = heap - Held(s)
  /\ UNCHANGED delivered

OutOfMemory(s, f) ==
  /\ s.payload = NULL
  /\ session' = Advanced(Written(s, f))
  /\ UNCHANGED <<heap, delivered>>

AcceptFrame(s, f) ==
  LET w == Written(s, f)
      allocated == heap + (1 - Held(s))
  IN  \/ /\ ~f.eot
         /\ session' = [w EXCEPT !.toggle = ~@]
         /\ heap' = allocated
         /\ UNCHANGED delivered
      \/ /\ f.eot
         /\ SingleFrame(f) \/ CrcMatches(w.crc)
         /\ session' = Advanced(w)
         /\ LET payload == WithoutCrc(w, f)
            IN  /\ delivered' = Append(delivered, [no |-> f.no, size |-> wire.size, payload |-> payload])
                /\ heap' = allocated - FreedByHandler(payload)
      \/ /\ f.eot
         /\ ~(SingleFrame(f) \/ CrcMatches(w.crc))
         /\ session' = Advanced(w)
         /\ heap' = allocated - 1
         /\ UNCHANGED delivered

Update(s, f, memory) ==
  LET restart == NeedRestart(s, f)
      r       == IF restart THEN Restarted(s, f) ELSE s
      correct == f.toggle = r.toggle /\ f.tid = r.tid
  IN  \/ restart /\ ~f.sot /\ SotMiss(s, f)
      \/ /\ ~(restart /\ ~f.sot)
         /\ \/ correct /\ memory /\ AcceptFrame(r, f)
            \/ correct /\ ~memory /\ OutOfMemory(r, f)
            \/ ~correct /\ session' = r /\ UNCHANGED <<heap, delivered>>

\* rxAcceptFrame: the session is made by the first frame of a transfer
Receive(f, memory) ==
  \/ session # NoSession /\ Update(session, f, memory)
  \/ session = NoSession /\ f.sot /\ Update(NewSession(f), f, memory)
  \/ /\ session = NoSession
     /\ ~f.sot \/ ~memory
     /\ UNCHANGED <<session, heap, delivered>>

-----------------------------------------------------------------------------
(***************************************************************************)
(* The bus.  A frame comes in its order, twice if the sender did not see   *)
(* that it was accepted, or never.                                         *)
(***************************************************************************)
OnBus == wire.frame # 0
Following == session # NoSession /\ ~session.timedOut

Send(size) ==
  /\ ~OnBus
  /\ wire.no < Transfers
  /\ Following => wire.no + 1 - started <= Gap
  /\ wire' = [no |-> wire.no + 1, size |-> size, frame |-> 1, again |-> FALSE]
  /\ clean' = TRUE
  /\ UNCHANGED <<session, heap, delivered, started, undisturbed>>

NextFrame ==
  IF wire.frame = LastFrame(wire.size) THEN 0 ELSE wire.frame + 1

\* the session can still tell the transfer from the ones that came before it
InWindow == Following => wire.no - started <= TidMod - 2

Arrive(memory, again) ==
  LET f  == Frame(wire.no, wire.size, wire.frame)
      ok == clean /\ memory /\ (f.sot /\ ~wire.again => InWindow)
  IN  /\ OnBus
      /\ again => ~wire.again
      /\ Receive(f, memory)
      /\ wire' = IF again THEN [wire EXCEPT !.again = TRUE]
                 ELSE [wire EXCEPT !.again = FALSE, !.frame = NextFrame]
      /\ started' = IF f.sot /\ session' # session THEN wire.no ELSE started
      /\ clean' = ok
      /\ undisturbed' = IF ok /\ f.eot /\ ~again THEN undisturbed \cup {wire.no} ELSE undisturbed

Lose ==
  /\ OnBus
  /\ ~wire.again
  /\ wire' = [wire EXCEPT !.frame = NextFrame]
  /\ clean' = FALSE
  /\ UNCHANGED <<session, heap, delivered, started, undisturbed>>

\* nothing comes for longer than the transfer-ID timeout
Silence ==
  /\ Following
  /\ ~wire.again
  /\ session' = [session EXCEPT !.timedOut = TRUE]
  /\ clean' = (clean /\ wire.frame = 1)
  /\ UNCHANGED <<wire, heap, delivered, started, undisturbed>>

-----------------------------------------------------------------------------
Init ==
  /\ wire = [no |-> 0, size |-> 0, frame |-> 0, again |-> FALSE]
  /\ session = NoSession
  /\ heap = 0
  /\ delivered = <<>>
  /\ started = 0
  /\ clean = FALSE
  /\ undisturbed = {}

Next ==
  \/ \E size \in Sizes : Send(size)
  \/ \E memory, again \in BOOLEAN : Arrive(memory, again)
  \/ Lose
  \/ Silence

Spec == Init /\ [][Next]_vars

-----------------------------------------------------------------------------
\* The application is handed the data of one transfer, all of it or as much as the subscription
\* has room for, and neither its CRC nor anything of another transfer
WholeTransfers ==
  \A i \in DOMAIN delivered :
    LET d == delivered[i]
    IN  /\ Len(d.payload) = IF d.size < Extent THEN d.size ELSE Extent
        /\ \A k \in DOMAIN d.payload : d.payload[k] = <<d.no, k>>

\* No transfer is handed over twice or after a later one, whatever is repeated
InOrderOnce ==
  \A i, j \in DOMAIN delivered : i < j => delivered[i].no < delivered[j].no

\* A transfer that arrives complete is handed over, however many frames of the ones before it are
\* missing, unless so many transfers in a row were lost that it looks like an old one
UndisturbedIsDelivered ==
  \A t \in undisturbed : \E i \in DOMAIN delivered : delivered[i].no = t

\* The only buffers allocated between two frames are the one the session fills and those of the
\* empty transfers handed over, which can_socket_handler does not free
NoOtherLeak ==
  heap = (IF session = NoSession THEN 0 ELSE Held(session))
         + Cardinality({i \in DOMAIN delivered : delivered[i].payload = <<>>})
=============================================================================
