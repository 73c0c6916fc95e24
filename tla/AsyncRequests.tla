--------------------------- MODULE AsyncRequests ---------------------------
(***************************************************************************)
(* The asynchronous request engine of libwlmio (src/src/libwlmio/wlmio.c): *)
(* the four request functions, the task list that remembers who waits for  *)
(* which answer, the transmit queue, the receive path with the duplicate   *)
(* filter of libcanard, and the event loop that runs their handlers.       *)
(*                                                                         *)
(* A request is named by its number, its place in the order of the calls.  *)
(* async_add appends to the task list, so list order is number order and   *)
(* the list is the SET of the numbers waiting; the first list entry with   *)
(* an id is the smallest number with that id.  The frame of a request and  *)
(* the answer to it are named by the same number: an answer carries the    *)
(* port, node and transfer-ID of the request it answers.  A transfer is    *)
(* one queue item here, however many frames it takes.                      *)
(*                                                                         *)
(* A definition marked "fault" is a slip a change of the code could make;  *)
(* it stands before the definition it would replace and is used by no      *)
(* other: the properties are tried against it.                             *)
(***************************************************************************)
EXTENDS Integers, Sequences, FiniteSets

CONSTANTS
  Ports,        \* the service ports requests are sent to
  Nodes,        \* the node-IDs requests are sent to
  TidMod,       \* number of transfer-IDs, CANARD_TRANSFER_ID_MAX + 1
  MaxRequests,  \* bound: requests issued in a behaviour
  MaxRx         \* bound: frames waiting in the receive queue of the socket

NodeIdMax == 127

GetInfo  == 430
RegList  == 385
RegAccess == 384
Command  == 435

ASSUME PortsAssumption == Ports \subseteq {GetInfo, RegList, RegAccess, Command}
ASSUME NodesAssumption == Nodes \subseteq 0..NodeIdMax
ASSUME TidModAssumption == TidMod \in 2..32
ASSUME BoundsAssumption == MaxRequests \in Nat \ {0} /\ MaxRx \in Nat \ {0}

VARIABLES
  log,       \* log[r]: port, node, transfer-ID and buffer of request r; added and place are history
  tfrIds,    \* tfr_ids of each request function: next transfer-ID per channel
  tasks,     \* the task list: requests waiting for their callback
  expired,   \* tasks whose timerfd is readable
  txq,       \* transmit queue of libcanard, requests in CAN-ID order
  bus,       \* requests handed to the socket that their node may still answer
  rxq,       \* receive queue of the socket: answers, oldest first
  session,   \* receive session of libcanard: next transfer-ID expected per channel
  pc,        \* what the application's thread does: "app", "wait" or "tick"
  callbacks, \* history: how often the callback of r was called
  outcome,   \* history: what the last callback of r was told, and whose answer it was
  buffer,    \* history: the answer whose data the buffer of r holds
  issued     \* history: requests issued per channel

vars == <<log, tfrIds, tasks, expired, txq, bus, rxq, session, pc,
          callbacks, outcome, buffer, issued>>

(***************************************************************************)
(* Values.                                                                 *)
(***************************************************************************)
Requests == 1..MaxRequests
Channels == Ports \X Nodes
Tids     == 0..TidMod-1

None       == 0
NoSession  == -1
Timeout    == [code |-> "ETIMEDOUT", from |-> None]
NoOutcome  == [code |-> "none", from |-> None]

\* what a callback can be told when an answer was found
Codes == {"none", "0", "EPROTO", "ENOENT", "STATUS", "ETIMEDOUT"}
ReplyCodes(p) ==
  {c \in {"0", "EPROTO", "ENOENT", "STATUS"} :
     /\ c = "EPROTO" => p \in {GetInfo, RegAccess}
     /\ c = "ENOENT" => p = RegAccess
     /\ c = "STATUS" => p = Command}

\* does the call pass a buffer for the answer: only register_access leaves the choice
BufferArgs(p) ==
  {b \in BOOLEAN : /\ b => p # Command
                   /\ ~b => p \in {RegAccess, Command}}

Issued == 1..Len(log)
Channel(r) == <<log[r].port, log[r].node>>

\* the CAN ID orders frames by service, then by destination: the priority,
\* the flags and the source are the same in every request
CanId(r) == log[r].port * 128 + log[r].node

\* fault: the transfer-ID is left out of the identifier
RspSpecifierNoTid(node, tid, port) == (node % 128) + 4096 * (port % 512)

\* make_rsp_specifier: node, transfer-ID and port packed in one word
RspSpecifier(node, tid, port) ==
  (node % 128) + 128 * (tid % 32) + 4096 * (port % 512)

Id(r) == RspSpecifier(log[r].node, log[r].tid, log[r].port)

\* fault: the transfer-ID is not masked
NextTidUnmasked(t) == t + 1

\* (tid + 1) & 0x1F
NextTid(t) == IF t = TidMod - 1 THEN 0 ELSE t + 1

-----------------------------------------------------------------------------
(***************************************************************************)
(* Calls of the application, from its own code or from a callback: a       *)
(* callback runs just before its task is removed, which commutes with the  *)
(* request it issues.                                                      *)
(***************************************************************************)

\* canardTxPush: behind every frame of the same or a smaller CAN ID, or nowhere if malloc fails
Insertions(q, r, id) ==
  LET Before(x) == CanId(x) <= id
      n == Cardinality({i \in DOMAIN q : Before(q[i])})
  IN  {q, SubSeq(q, 1, n) \o <<r>> \o SubSeq(q, n + 1, Len(q))}

\* uavcan_send: the socket takes k frames, then refuses one or the queue is empty
Sendings(q) == {<<SubSeq(q, k + 1, Len(q)), {q[i] : i \in 1..k}>> : k \in 0..Len(q)}

\* wlmio_register_access compares with >=, the other three functions with >: a call for node 127,
\* which they serve, returns -EINVAL
Refused(p, n) == p = RegAccess /\ n >= NodeIdMax

Refuse(p, n) ==
  /\ pc # "wait"
  /\ Refused(p, n)
  /\ UNCHANGED vars

\* the results of canardTxPush, async_add and uavcan_send are not looked at: the call returns 0
Request(p, n) ==
  LET r  == Len(log) + 1
      ch == <<p, n>>
  IN
  /\ pc # "wait"
  /\ r \in Requests
  /\ ~Refused(p, n)
  /\ \E b \in BufferArgs(p), added \in BOOLEAN :
       /\ log' = Append(log, [port |-> p, node |-> n, tid |-> tfrIds[ch], param |-> b,
                              added |-> added, place |-> issued[ch]])
       /\ tasks' = IF added THEN tasks \cup {r} ELSE tasks
  /\ tfrIds' = [tfrIds EXCEPT ![ch] = NextTid(@)]
  /\ issued' = [issued EXCEPT ![ch] = @ + 1]
  /\ \E q \in Insertions(txq, r, p * 128 + n) : \E s \in Sendings(q) :
       /\ txq' = s[1]
       /\ bus' = bus \cup s[2]
  /\ UNCHANGED <<expired, rxq, session, pc, callbacks, outcome, buffer>>

\* wlmio_wait_for_event
WaitForEvent ==
  /\ pc = "app"
  /\ pc' = "wait"
  /\ UNCHANGED <<log, tfrIds, tasks, expired, txq, bus, rxq, session,
                 callbacks, outcome, buffer, issued>>

-----------------------------------------------------------------------------
(***************************************************************************)
(* wlmio_tick: one ready descriptor at a time, until none is ready.        *)
(***************************************************************************)
\* fault: the timers are not registered with epoll
ReadySocketOnly == rxq # <<>>

Ready == rxq # <<>> \/ expired # {}

\* epoll_wait returns: for one of our descriptors, or for a heartbeat at any time
Wake ==
  /\ pc = "wait"
  /\ pc' = "tick"
  /\ UNCHANGED <<log, tfrIds, tasks, expired, txq, bus, rxq, session,
                 callbacks, outcome, buffer, issued>>

\* fault: the timer is left open
FinishKeepsTimer(r, result) ==
  /\ callbacks' = [callbacks EXCEPT ![r] = @ + 1]
  /\ outcome' = [outcome EXCEPT ![r] = result]
  /\ tasks' = tasks \ {r}
  /\ UNCHANGED expired

\* the callback of r, then async_remove_entry, which closes the timer
Finish(r, result) ==
  /\ callbacks' = [callbacks EXCEPT ![r] = @ + 1]
  /\ outcome' = [outcome EXCEPT ![r] = result]
  /\ tasks' = tasks \ {r}
  /\ expired' = expired \ {r}

\* the tasks async_complete would stop at: the answer to q carries their id
Waiting(q) == {r \in tasks : Id(r) = Id(q)}

\* fault: the data goes to the newest task with the id, the completion to the oldest
DeliverToNewest(q) ==
  \/ /\ Waiting(q) = {}
     /\ UNCHANGED <<tasks, expired, callbacks, outcome, buffer>>
  \/ \E r, n \in Waiting(q) :
       /\ \A s \in Waiting(q) : r <= s /\ s <= n
       /\ \E c \in ReplyCodes(log[r].port) : Finish(r, [code |-> c, from |-> q])
       /\ buffer' = IF log[n].param THEN [buffer EXCEPT ![n] = q] ELSE buffer

\* the oldest of them is completed; the handlers write its buffer before they call async_complete
Deliver(q) ==
  \/ /\ Waiting(q) = {}
     /\ UNCHANGED <<tasks, expired, callbacks, outcome, buffer>>
  \/ \E r \in Waiting(q) :
       /\ \A s \in Waiting(q) : r <= s
       /\ \E c \in ReplyCodes(log[r].port) : Finish(r, [code |-> c, from |-> q])
       /\ buffer' = IF log[r].param THEN [buffer EXCEPT ![r] = q] ELSE buffer

\* fault: the transfer-ID expected next is taken for the one seen last
LooksExpected(q) == session[Channel(q)] = log[q].tid

\* rxSessionUpdate: the transfer-ID accepted last is a duplicate while the session is fresh
LooksDuplicate(q) == session[Channel(q)] = NextTid(log[q].tid)

\* can_socket_handler and the response handlers.  A session older than two seconds takes
\* any transfer-ID: time is not modelled, so a duplicate may be accepted or dropped
HandleResponse ==
  /\ pc = "tick"
  /\ rxq # <<>>
  /\ LET q == Head(rxq) IN
       \/ /\ LooksDuplicate(q)
          /\ UNCHANGED <<session, tasks, expired, callbacks, outcome, buffer>>
       \/ /\ session' = [session EXCEPT ![Channel(q)] = NextTid(log[q].tid)]
          /\ Deliver(q)
  /\ rxq' = Tail(rxq)
  /\ UNCHANGED <<log, tfrIds, txq, bus, pc, issued>>

\* async_handler
HandleTimeout(r) ==
  /\ pc = "tick"
  /\ r \in expired
  /\ Finish(r, Timeout)
  /\ UNCHANGED <<log, tfrIds, txq, bus, rxq, session, pc, buffer, issued>>

\* epoll_wait returns 0: uavcan_send, and wlmio_tick returns
TickEnd ==
  /\ pc = "tick"
  /\ ~Ready
  /\ \E s \in Sendings(txq) : txq' = s[1] /\ bus' = bus \cup s[2]
  /\ pc' = "app"
  /\ UNCHANGED <<log, tfrIds, tasks, expired, rxq, session,
                 callbacks, outcome, buffer, issued>>

-----------------------------------------------------------------------------
(***************************************************************************)
(* The bus and the kernel.                                                 *)
(***************************************************************************)

\* the node answers q; CAN may repeat a frame, so q may be answered again
Answer(q) ==
  /\ q \in bus
  /\ Len(rxq) < MaxRx
  /\ rxq' = Append(rxq, q)
  /\ bus' \in {bus, bus \ {q}}
  /\ UNCHANGED <<log, tfrIds, tasks, expired, txq, session, pc,
                 callbacks, outcome, buffer, issued>>

\* no node, a node that is reset, or a full receive queue
Lose(q) ==
  /\ q \in bus
  /\ bus' = bus \ {q}
  /\ UNCHANGED <<log, tfrIds, tasks, expired, txq, rxq, session, pc,
                 callbacks, outcome, buffer, issued>>

ExpireTimer(r) ==
  /\ r \in tasks \ expired
  /\ expired' = expired \cup {r}
  /\ UNCHANGED <<log, tfrIds, tasks, txq, bus, rxq, session, pc,
                 callbacks, outcome, buffer, issued>>

-----------------------------------------------------------------------------
Init ==
  /\ log = <<>>
  /\ tfrIds = [ch \in Channels |-> 0]
  /\ tasks = {}
  /\ expired = {}
  /\ txq = <<>>
  /\ bus = {}
  /\ rxq = <<>>
  /\ session = [ch \in Channels |-> NoSession]
  /\ pc = "app"
  /\ callbacks = [r \in Requests |-> 0]
  /\ outcome = [r \in Requests |-> NoOutcome]
  /\ buffer = [r \in Requests |-> None]
  /\ issued = [ch \in Channels |-> 0]

Next ==
  \/ \E p \in Ports, n \in Nodes : Request(p, n) \/ Refuse(p, n)
  \/ WaitForEvent
  \/ Wake
  \/ HandleResponse
  \/ \E r \in Requests : HandleTimeout(r)
  \/ TickEnd
  \/ \E q \in Requests : Answer(q) \/ Lose(q)
  \/ \E r \in Requests : ExpireTimer(r)

\* the application runs its loop, epoll_wait returns when a descriptor is ready and gives
\* every ready descriptor its turn (the kernel moves a descriptor it returned to the end of
\* its list), and an armed timer expires
Fairness ==
  /\ WF_vars(WaitForEvent)
  /\ WF_vars(Ready /\ Wake)
  /\ WF_vars(HandleResponse)
  /\ WF_vars(TickEnd)
  /\ \A r \in Requests : WF_vars(HandleTimeout(r)) /\ WF_vars(ExpireTimer(r))

Spec == Init /\ [][Next]_vars
FairSpec == Spec /\ Fairness

-----------------------------------------------------------------------------
(***************************************************************************)
(* Properties.                                                             *)
(***************************************************************************)

\* every variable holds a value of its type; requests named anywhere were issued
TypeOK ==
  /\ log \in Seq([port : Ports, node : Nodes, tid : Tids, param : BOOLEAN,
                  added : BOOLEAN, place : Nat])
  /\ Len(log) <= MaxRequests
  /\ tfrIds \in [Channels -> Tids]
  /\ tasks \subseteq Issued
  /\ expired \subseteq tasks
  /\ txq \in Seq(Issued)
  /\ bus \subseteq Issued
  /\ rxq \in Seq(Issued)
  /\ session \in [Channels -> Tids \cup {NoSession}]
  /\ pc \in {"app", "wait", "tick"}
  /\ callbacks \in [Requests -> Nat]
  /\ outcome \in [Requests -> [code : Codes, from : Issued \cup {None}]]
  /\ buffer \in [Requests -> Issued \cup {None}]
  /\ issued \in [Channels -> Nat]

\* However answers, duplicates and timeouts race, the callback of a request that async_add
\* registered is called exactly once: never while it is on the task list, once after
CallbackExactlyOnce ==
  \A r \in Issued :
    callbacks[r] = IF log[r].added /\ r \notin tasks THEN 1 ELSE 0

\* requests of one channel that are at least a whole round of transfer-IDs apart
FarApart(q, r) ==
  \/ log[q].place >= log[r].place + TidMod
  \/ log[r].place >= log[q].place + TidMod

\* A request is only ever completed by its own answer, or by the answer to a request to the
\* same port and node that is a whole round of transfer-IDs away (the 5-bit ID cannot tell)
AnswerWindow ==
  \A r \in Issued :
    LET q == outcome[r].from IN
    q # None => Channel(q) = Channel(r) /\ (q = r \/ FarApart(q, r))

\* A callback told of success has the data of the answer that completed it in its buffer,
\* and one told of a timeout has a buffer nobody wrote
BufferHoldsAnswer ==
  \A r \in Issued :
    callbacks[r] > 0 => buffer[r] = IF log[r].param THEN outcome[r].from ELSE None

\* The library writes the caller's buffer only in the step that calls the request's callback:
\* never before, never after (the buffer of a caller that was told may be gone)
BufferQuiet ==
  [][\A r \in Requests : buffer'[r] # buffer[r] => callbacks'[r] = callbacks[r] + 1]_vars

\* The duplicate filter never costs a request its answer: an answer to a waiting request that
\* the handler takes from the socket completes a request, unless the channel has had another
\* request with the same transfer-ID
NoFalseDuplicate ==
  [][\A q \in tasks :
       /\ rxq # <<>> /\ q = Head(rxq) /\ rxq' = Tail(rxq)
       /\ \A s \in Issued \ {q} : Id(s) # Id(q)
       => callbacks'[q] = callbacks[q] + 1]_vars

\* Every request that async_add registered is called back, whatever the bus loses: its timer
\* expires and the loop hands it out
EveryRequestCompletes ==
  \A r \in Requests : (r \in tasks) ~> (callbacks[r] > 0)

\* what RequestService sees of a request: how far it is, its place, and who finished it
ServiceStatus ==
  [r \in Requests |-> CASE r \notin Issued -> "idle"
                       [] r \in tasks     -> "pending"
                       [] callbacks[r] > 0 -> "done"
                       [] OTHER           -> "forgotten"]

ServicePlace ==
  [r \in Requests |-> IF r \in Issued THEN [channel |-> Channel(r), nth |-> log[r].place]
                      ELSE [channel |-> <<0, 0>>, nth |-> 0]]

ServiceResult ==
  [r \in Requests |-> CASE outcome[r] = NoOutcome -> [by |-> "nobody", request |-> 0]
                       [] outcome[r] = Timeout   -> [by |-> "timeout", request |-> 0]
                       [] OTHER -> [by |-> "answer", request |-> outcome[r].from]]

\* The engine implements RequestService: a request is finished once and by an answer the
\* service allows, and every pending request is finished
Service == INSTANCE RequestService WITH
  Requests <- Requests,
  Channels <- Channels,
  Window <- TidMod,
  status <- ServiceStatus,
  place <- ServicePlace,
  result <- ServiceResult
ImplementsService == Service!Spec
=============================================================================
