------------------------------ MODULE FwUpdate ------------------------------
(***************************************************************************)
(* The firmware updater (src/src/tools/fwupdate.c), a program with a CAN   *)
(* loop of its own.  It tells a node to begin its update, once, and then   *)
(* answers for ever: whoever asks for the file at an offset, the answer,   *)
(* the next block, goes to the node being updated.  A block that is not    *)
(* full is the last one, so a file of full blocks ends with an empty one.  *)
(*                                                                         *)
(* The node is external, and so is what its boot loader does: it asks for  *)
(* the block behind the ones it has, and asks again when no answer comes,  *)
(* with a new transfer-ID each time.  The bus loses and repeats transfers; *)
(* a second node may ask for a file too.                                   *)
(*                                                                         *)
(* Data: the byte at offset i of the file is the number i + 1.             *)
(*                                                                         *)
(* A definition marked "fault" is a slip a change of the code could make,  *)
(* placed before the one it would replace and used by no other.            *)
(***************************************************************************)
EXTENDS Integers, Sequences, FiniteSets, CanId

CONSTANTS
  Server,      \* node-ID of the host, from its switches
  Target,      \* the node to update
  Stranger,    \* another node, and
  MaxStrange,  \* bound: the transfers it sends
  OtherServer, \* the node it may ask
  MaxEarly,    \* bound: how often the node asks again although an answer is still to come
  FileSizes,   \* sizes of the file, in bytes
  MaxFile,     \* the largest size that is accepted, 0x38000 in the code
  Block,       \* bytes of a full block, 256 in the code
  TidMod       \* number of transfer-IDs, 32 in the code

ASSUME NodesAssumption ==
  /\ {Server, Target, Stranger, OtherServer} \subseteq 0..NODE_ID_MAX
  /\ Cardinality({Server, Target, Stranger, OtherServer}) = 4
ASSUME FileAssumption == Block \in Nat \ {0} /\ MaxFile \in Nat /\ FileSizes \subseteq Nat
ASSUME TidAssumption == TidMod \in 3..32
ASSUME BoundsAssumption == MaxStrange \in Nat /\ MaxEarly \in Nat

VARIABLES
  at,        \* where the program is: "off", "start", "serving" or "exit"
  size,      \* data_len
  sessions,  \* the transfer-ID the receive session of each node expects, or NoSession
  bus,       \* transfers under way: [id, tid, content, again]
  node,      \* external, the node being updated: [at, tid, waiting, early, image]
  strange,   \* transfers the stranger has sent
  answered   \* history: the CAN-IDs of the requests answered

fwVars == <<at, size, sessions, bus, node, strange, answered>>

FILE_READ == 408
EXECUTE_COMMAND == 435
HEARTBEAT == 7509
NOMINAL == 4

NoSession == -1

Id(kind, port, remote, local) ==
  MakeCanId([kind |-> kind, port |-> port, remote |-> remote, priority |-> NOMINAL], local)

Transfer(id, tid, content) == [id |-> id, tid |-> tid, content |-> content, again |-> FALSE]

CommandId == Id("request", EXECUTE_COMMAND, Target, Server)

\* external: what the node asks with, and the answers it takes
RequestId == Id("request", FILE_READ, Server, Target)
AnswerId  == Id("response", FILE_READ, Target, Server)

\* canardRxSubscribe, before the command is sent
Subscriptions == {<<"request", FILE_READ>>}

-----------------------------------------------------------------------------
\* the file is refused if it is empty or too large
Refuse ==
  /\ at = "start"
  /\ size = 0 \/ size > MaxFile
  /\ at' = "exit"
  /\ UNCHANGED <<size, sessions, bus, node, strange, answered>>

\* the command, sent once and never looked after
Begin ==
  /\ at = "start"
  /\ size \in 1..MaxFile
  /\ at' = "serving"
  /\ bus' = bus \cup {Transfer(CommandId, 0, <<>>)}
  /\ UNCHANGED <<size, sessions, node, strange, answered>>

-----------------------------------------------------------------------------
(***************************************************************************)
(* receive_transfer.  A request is a transfer of one frame, of which the   *)
(* session only has to tell whether it is a repetition.                    *)
(***************************************************************************)
TidDifference(a, b) == (a - b) % TidMod

\* the session tells the transfer from the one before it
NewForSession(tid, next) == next = NoSession \/ TidDifference(next, tid) # 1

\* own frames do not come back through the socket
Heard(m) == Accepted(ParseCanId(m.id), Server, Subscriptions)

\* fault: the last block is not cut to what is left of the file
BlockOfFull(offset) ==
  [i \in 1..(IF offset >= size THEN 0 ELSE Block) |-> offset + i]

BlockOf(offset) ==
  LET left == IF offset >= size THEN 0 ELSE size - offset
  IN  [i \in 1..(IF left > Block THEN Block ELSE left) |-> offset + i]

\* the transfer received is made the answer: its port and transfer-ID stay, and the destination is
\* the node being updated
BlockReply(m) ==
  Transfer(Id("response", ParseCanId(m.id).port, Target, Server), m.tid, BlockOf(m.content[1]))

\* fault: past the end of the file there is nothing to answer
AskingWithinFile(m) == {r \in {m} : r.content # <<>> /\ r.content[1] < size}

\* a request without an offset is ignored
Asking(m) == {r \in {m} : r.content # <<>>}

\* the transfer leaves the bus, or is on it once more because its sender missed an acknowledgement
Taken(m, again) ==
  (bus \ {m}) \cup (IF again THEN {[m EXCEPT !.again = TRUE]} ELSE {})

\* external, bound: a frame of the node that is updated may be repeated, once
Repeats(m) == m.id = RequestId /\ ~m.again

\* one turn of the loop that receives a request, a new one or one that comes later than the
\* transfer-ID timeout, as only a repeated frame does not; uavcan_send frees every frame it took
\* from the queue, sent or not: a frame that is not sent is lost
Serve(m, again) ==
  /\ at = "serving"
  /\ m \in bus
  /\ again => Repeats(m)
  /\ Heard(m)
  /\ LET src == ParseCanId(m.id).src
     IN  /\ NewForSession(m.tid, sessions[src]) \/ ~m.again
         /\ sessions' = [sessions EXCEPT ![src] = (m.tid + 1) % TidMod]
  /\ bus' = Taken(m, again) \cup {BlockReply(r) : r \in Asking(m)}
  /\ answered' = answered \cup {r.id : r \in Asking(m)}
  /\ UNCHANGED <<at, size, node, strange>>

\* one turn that receives a transfer for somebody else, or one it has had before
Ignore(m) ==
  /\ at = "serving"
  /\ m \in bus
  /\ m.id \notin {CommandId, AnswerId}
  /\ Heard(m) => ~NewForSession(m.tid, sessions[ParseCanId(m.id).src])
  /\ bus' = bus \ {m}
  /\ UNCHANGED <<at, size, sessions, node, strange, answered>>

-----------------------------------------------------------------------------
(***************************************************************************)
(* External: the bus, the node being updated and the other node.           *)
(***************************************************************************)
Lose(m) ==
  /\ m \in bus
  /\ bus' = bus \ {m}
  /\ UNCHANGED <<at, size, sessions, node, strange, answered>>

NodeBegins(m) ==
  /\ m \in bus
  /\ m.id = CommandId
  /\ node.at = "application"
  /\ bus' = bus \ {m}
  /\ node' = [node EXCEPT !.at = "reading"]
  /\ UNCHANGED <<at, size, sessions, strange, answered>>

UnderWay(tid) == \E m \in bus : m.id \in {RequestId, AnswerId} /\ m.tid = tid

\* the first time, or again when no answer came; no transfer is on the bus for a whole round of
\* transfer-IDs
NodeAsks ==
  LET tid   == (node.tid + 1) % TidMod
      early == node.waiting /\ UnderWay(node.tid)
  IN  /\ node.at = "reading"
      /\ ~UnderWay(tid)
      /\ early => node.early < MaxEarly
      /\ bus' = bus \cup {Transfer(RequestId, tid, <<Len(node.image)>>)}
      /\ node' = [node EXCEPT !.tid = tid, !.waiting = TRUE, !.early = IF early THEN @ + 1 ELSE @]
      /\ UNCHANGED <<at, size, sessions, strange, answered>>

Matches(m) ==
  /\ m.id = AnswerId
  /\ node.at = "reading"
  /\ node.waiting
  /\ m.tid = node.tid

NodeTakes(m) ==
  /\ m \in bus
  /\ Matches(m)
  /\ bus' = bus \ {m}
  /\ node' = [node EXCEPT !.waiting = FALSE,
                          !.image = @ \o m.content,
                          !.at = IF Len(m.content) < Block THEN "updated" ELSE @]
  /\ UNCHANGED <<at, size, sessions, strange, answered>>

\* the command again, or an answer the node does not wait for any more
NodeIgnores(m) ==
  /\ m \in bus
  /\ \/ m.id = CommandId /\ node.at # "application"
     \/ m.id = AnswerId /\ ~Matches(m)
  /\ bus' = bus \ {m}
  /\ UNCHANGED <<at, size, sessions, node, strange, answered>>

\* another node asks this program for a block, or with an empty request
StrangerAsks(content) ==
  /\ strange < MaxStrange
  /\ strange' = strange + 1
  /\ bus' = bus \cup {Transfer(Id("request", FILE_READ, Server, Stranger), 0, content)}
  /\ UNCHANGED <<at, size, sessions, node, answered>>

\* it asks another server, or sends its heartbeat: nothing of this program's
StrangerElsewhere ==
  /\ strange < MaxStrange
  /\ strange' = strange + 1
  /\ bus' \in {bus \cup {Transfer(id, 0, <<0>>)} :
               id \in {Id("request", FILE_READ, OtherServer, Stranger),
                      Id("message", HEARTBEAT, NODE_ID_UNSET, Stranger)}}
  /\ UNCHANGED <<at, size, sessions, node, answered>>

-----------------------------------------------------------------------------
AtRest ==
  /\ sessions = [n \in {Target, Stranger} |-> NoSession]
  /\ bus = {}
  /\ node = [at |-> "application", tid |-> TidMod - 1, waiting |-> FALSE, early |-> 0,
              image |-> <<>>]
  /\ strange = 0
  /\ answered = {}

FwInit == at = "start" /\ size \in FileSizes /\ AtRest

FwNext ==
  \/ Refuse
  \/ Begin
  \/ \E m \in bus : \/ \E again \in BOOLEAN : Serve(m, again)
                    \/ Ignore(m)
                    \/ Lose(m)
                    \/ NodeBegins(m)
                    \/ NodeTakes(m)
                    \/ NodeIgnores(m)
  \/ NodeAsks
  \/ \E content \in {<<>>, <<0>>} : StrangerAsks(content)
  \/ StrangerElsewhere

Arrives(m) ==
  \/ \E again \in BOOLEAN : Serve(m, again)
  \/ Ignore(m)
  \/ NodeTakes(m)
  \/ NodeIgnores(m)

\* what is on the bus arrives, the node does not stop asking, and of the requests and answers that
\* are sent again and again some get through
FwFairness ==
  /\ WF_fwVars(\E m \in bus : Arrives(m))
  /\ WF_fwVars(NodeAsks)
  /\ SF_fwVars(\E m \in bus, again \in BOOLEAN : m.id = RequestId /\ Serve(m, again))
  /\ SF_fwVars(\E m \in bus : NodeTakes(m))

FwSpec == FwInit /\ [][FwNext]_fwVars /\ FwFairness

-----------------------------------------------------------------------------
\* What the node has put together is the file from its beginning, and all of it once the node takes
\* it for complete, whatever the bus lost or repeated, as long as no other node asked this program
ImageIsFile ==
  answered \subseteq {RequestId} =>
    /\ Len(node.image) <= size
    /\ \A i \in DOMAIN node.image : node.image[i] = i
    /\ node.at = "updated" => Len(node.image) = size

\* An update that began ends, though requests and answers are lost and repeated
UpdateCompletes == (node.at = "reading") ~> (node.at = "updated")
=============================================================================
